------------------------------- MODULE Login --------------------------------
(***************************************************************************)
(* Signing up and signing in with one email address from one network       *)
(* address: the users row, and the counter in Redis that throttles failed  *)
(* sign-ins (api/routers/auth.py).  Requests run in threads of the API;    *)
(* each call to Redis or Postgres is a step of its own.                    *)
(*                                                                         *)
(* Sessions are signed tokens that no table knows of: issuing one, logging *)
(* out and reading one change nothing here.  Hashing is a library's.       *)
(***************************************************************************)
EXTENDS Integers

CONSTANTS
  Requests,   \* threads that serve signup and login
  Limit,      \* settings.login_max_attempts
  MaxCount,   \* bound on the counter
  MaxFaults   \* bound on requests that die and on outages of Redis

ASSUME LoginAssumption ==
  Limit \in Nat \ {0} /\ MaxCount \in Nat /\ MaxCount > Limit /\ MaxFaults \in Nat

Pcs == {"idle", "count", "expire", "verify", "clear", "insert"}

VARIABLES
  user,      \* is there a row with the email address?
  counter,   \* the key's value, 0 when there is no key
  expires,   \* has the key an expiry?
  redis,     \* does Redis answer?
  pc,        \* [Requests]
  passed,    \* sign-ins let past the throttle since the key was last gone
  faults

key == <<counter, expires>>
vars == <<user, key, redis, pc, passed, faults>>

Goto(r, label) == pc' = [pc EXCEPT ![r] = label]

Init ==
  /\ user = FALSE
  /\ counter = 0 /\ expires = FALSE
  /\ redis = TRUE
  /\ pc = [r \in Requests |-> "idle"]
  /\ passed = 0
  /\ faults = 0

(* DEL, or the key's expiry.                                                *)
KeyGone ==
  /\ counter' = 0
  /\ expires' = FALSE
  /\ passed' = 0

-----------------------------------------------------------------------------
(* signup: look the address up, then insert; the unique column refuses the  *)
(* slower of two.                                                           *)
Signup(r) ==
  /\ pc[r] = "idle"
  /\ ~user
  /\ Goto(r, "insert")
  /\ UNCHANGED <<user, key, redis, passed, faults>>

InsertUser(r) ==
  /\ pc[r] = "insert"
  /\ user' = TRUE
  /\ Goto(r, "idle")
  /\ UNCHANGED <<key, redis, passed, faults>>

-----------------------------------------------------------------------------
(* login, from _check_and_count_attempt on: INCR ...                        *)
SignIn(r) ==
  /\ pc[r] = "idle"
  /\ Goto(r, "count")
  /\ UNCHANGED <<user, key, redis, passed, faults>>

CountAttempt_NoExpiry(r) ==  \* mutant: no expiry is set
  /\ pc[r] = "count"
  /\ redis
  /\ counter < MaxCount
  /\ counter' = counter + 1
  /\ IF counter' <= Limit THEN Goto(r, "verify") /\ passed' = passed + 1
     ELSE Goto(r, "idle") /\ UNCHANGED passed
  /\ UNCHANGED <<user, expires, redis, faults>>

CountAttempt(r) ==
  /\ pc[r] = "count"
  /\ redis
  /\ counter < MaxCount
  /\ counter' = counter + 1
  /\ CASE counter' = 1        -> Goto(r, "expire") /\ passed' = passed + 1
       [] counter' \in 2..Limit -> Goto(r, "verify") /\ passed' = passed + 1
       [] OTHER               -> Goto(r, "idle") /\ UNCHANGED passed
  /\ UNCHANGED <<user, expires, redis, faults>>

(* ... and EXPIRE, by the first one only; on a key that is gone it does     *)
(* nothing.                                                                 *)
SetExpiry_Setex(r) ==  \* mutant: SETEX with a count of one
  /\ pc[r] = "expire"
  /\ redis
  /\ counter' = 1 /\ expires' = TRUE
  /\ Goto(r, "verify")
  /\ UNCHANGED <<user, redis, passed, faults>>

SetExpiry(r) ==
  /\ pc[r] = "expire"
  /\ redis
  /\ expires' = (counter > 0)
  /\ Goto(r, "verify")
  /\ UNCHANGED <<user, counter, redis, passed, faults>>

(* Without Redis there is no throttle.                                      *)
RateLimitUnavailable(r) ==
  /\ pc[r] \in {"count", "expire"}
  /\ ~redis
  /\ Goto(r, "verify")
  /\ UNCHANGED <<user, key, redis, passed, faults>>

(* A wrong password, or none to compare with, is a 401; a right one         *)
(* _clear_attempts.                                                         *)
VerifyPassword(r) ==
  /\ pc[r] = "verify"
  /\ \/ Goto(r, "idle")
     \/ user /\ Goto(r, "clear")
  /\ UNCHANGED <<user, key, redis, passed, faults>>

ClearAttempts_Refund(r) ==  \* mutant: DECR for DEL
  /\ pc[r] = "clear"
  /\ counter' = IF redis THEN counter - 1 ELSE counter
  /\ Goto(r, "idle")
  /\ UNCHANGED <<user, expires, redis, passed, faults>>

ClearAttempts(r) ==
  /\ pc[r] = "clear"
  /\ IF redis THEN KeyGone ELSE UNCHANGED <<key, passed>>
  /\ Goto(r, "idle")
  /\ UNCHANGED <<user, redis, faults>>

-----------------------------------------------------------------------------
Expire ==
  /\ counter > 0 /\ expires
  /\ KeyGone
  /\ UNCHANGED <<user, redis, pc, faults>>

RequestDies(r) ==
  /\ pc[r] # "idle"
  /\ faults < MaxFaults
  /\ faults' = faults + 1
  /\ Goto(r, "idle")
  /\ UNCHANGED <<user, key, redis, passed>>

RedisGoes ==
  /\ redis /\ faults < MaxFaults
  /\ faults' = faults + 1
  /\ redis' = FALSE
  /\ UNCHANGED <<user, key, pc, passed>>

RedisReturns ==
  /\ ~redis
  /\ redis' = TRUE
  /\ UNCHANGED <<user, key, pc, passed, faults>>

Serve(r) ==
  \/ InsertUser(r) \/ CountAttempt(r) \/ SetExpiry(r) \/ RateLimitUnavailable(r)
  \/ VerifyPassword(r) \/ ClearAttempts(r)

Next ==
  \/ Expire \/ RedisGoes \/ RedisReturns
  \/ \E r \in Requests : Signup(r) \/ SignIn(r) \/ Serve(r) \/ RequestDies(r)

Spec == Init /\ [][Next]_vars

(* A request that was accepted is served, and Redis expires its keys.       *)
FairSpec == Spec /\ WF_vars(Expire) /\ \A r \in Requests : WF_vars(Serve(r))

-----------------------------------------------------------------------------
TypeOK ==
  /\ {user, expires, redis} \subseteq BOOLEAN
  /\ counter \in 0..MaxCount
  /\ expires => counter > 0
  /\ pc \in [Requests -> Pcs]
  /\ passed \in 0..MaxCount
  /\ faults \in 0..MaxFaults

(* However sign-ins overlap with one another, with a successful one's       *)
(* clearing of the counter and with its expiry, no more than Limit of them  *)
(* get past the throttle for one life of the counter.                       *)
Throttled == passed <= Limit

(* "Wait a few minutes and try again": the throttle opens again, unless a   *)
(* request has died, or Redis gone, between the two calls that should have  *)
(* made the counter expire.                                                 *)
LockoutEnds == counter > Limit ~> counter <= Limit \/ faults > 0

=============================================================================
