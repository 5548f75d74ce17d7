---------------------------- MODULE LoginProofs -----------------------------
(***************************************************************************)
(* Proofs, for every limit and any number of requests, about the throttle  *)
(* of Login.                                                               *)
(***************************************************************************)
EXTENDS Login, TLAPS

Placed == pc \in [Requests -> Pcs]

(* Whoever was let past was counted, and at a count within the limit; the   *)
(* count goes down to zero only.                                            *)
Counted ==
  /\ counter \in 0..MaxCount /\ passed \in Nat /\ faults \in 0..MaxFaults
  /\ passed <= counter /\ passed <= Limit

Flags ==
  /\ user \in BOOLEAN /\ expires \in BOOLEAN /\ redis \in BOOLEAN
  /\ expires => counter > 0

Inv == Placed /\ Counted /\ Flags

LEMMA InitInv ==
  ASSUME Init
  PROVE  Inv
  <1>1. Placed
    BY DEF Init, Placed, Pcs
  <1>2. Counted
    BY LoginAssumption DEF Init, Counted
  <1>3. Flags
    <2>1. user = FALSE /\ expires = FALSE /\ redis = TRUE
      BY DEF Init
    <2> QED BY <2>1 DEF Flags
  <1> QED BY <1>1, <1>2, <1>3 DEF Inv

LEMMA StepPlaced ==
  ASSUME Placed, [Next]_vars
  PROVE  Placed'
  <1> USE DEF Placed, Pcs, Goto
  <1>1. ASSUME NEW r \in Requests, Signup(r) \/ SignIn(r) \/ RequestDies(r)
        PROVE  Placed'
    BY <1>1 DEF Signup, SignIn, RequestDies
  <1>2. ASSUME NEW r \in Requests, InsertUser(r) \/ VerifyPassword(r) \/ ClearAttempts(r)
        PROVE  Placed'
    BY <1>2 DEF InsertUser, VerifyPassword, ClearAttempts
  <1>3. ASSUME NEW r \in Requests, CountAttempt(r) \/ SetExpiry(r) \/ RateLimitUnavailable(r)
        PROVE  Placed'
    <2>1. \E l \in Pcs : pc' = [pc EXCEPT ![r] = l]
      BY <1>3 DEF CountAttempt, SetExpiry, RateLimitUnavailable
    <2> QED BY <2>1
  <1>4. CASE Expire \/ RedisGoes \/ RedisReturns \/ UNCHANGED vars
    BY <1>4 DEF Expire, RedisGoes, RedisReturns, vars
  <1> QED BY <1>1, <1>2, <1>3, <1>4 DEF Next, Serve

LEMMA StepCounted ==
  ASSUME Counted, [Next]_vars
  PROVE  Counted'
  <1> USE LoginAssumption DEF Counted, key
  <1>1. ASSUME NEW r \in Requests, CountAttempt(r)
        PROVE  Counted'
    <2>1. /\ counter < MaxCount /\ counter' = counter + 1 /\ UNCHANGED faults
          /\ \/ counter' <= Limit /\ passed' = passed + 1
             \/ UNCHANGED passed
      BY <1>1 DEF CountAttempt
    <2> QED BY <2>1
  <1>2. ASSUME NEW r \in Requests, ClearAttempts(r)
        PROVE  Counted'
    <2>1. /\ UNCHANGED faults
          /\ (counter' = 0 /\ passed' = 0) \/ UNCHANGED <<counter, passed>>
      BY <1>2 DEF ClearAttempts, KeyGone
    <2> QED BY <2>1
  <1>3. ASSUME NEW r \in Requests,
               \/ Signup(r) \/ SignIn(r) \/ InsertUser(r) \/ SetExpiry(r)
               \/ RateLimitUnavailable(r) \/ VerifyPassword(r)
        PROVE  Counted'
    <2>1. UNCHANGED <<counter, passed, faults>>
      BY <1>3 DEF Signup, SignIn, InsertUser, SetExpiry, RateLimitUnavailable, VerifyPassword
    <2> QED BY <2>1
  <1>4. CASE RedisGoes \/ \E r \in Requests : RequestDies(r)
    <2>1. UNCHANGED <<counter, passed>> /\ faults < MaxFaults /\ faults' = faults + 1
      BY <1>4 DEF RedisGoes, RequestDies
    <2> QED BY <2>1
  <1>5. CASE Expire
    <2>1. counter' = 0 /\ passed' = 0 /\ UNCHANGED faults
      BY <1>5 DEF Expire, KeyGone
    <2> QED BY <2>1
  <1>6. CASE RedisReturns \/ UNCHANGED vars
    <2>1. UNCHANGED <<counter, passed, faults>>
      BY <1>6 DEF RedisReturns, vars
    <2> QED BY <2>1
  <1> QED BY <1>1, <1>2, <1>3, <1>4, <1>5, <1>6 DEF Next, Serve

(* The key expires or not, is there or not, and only one that is there can  *)
(* expire.                                                                  *)
LEMMA StepFlags ==
  ASSUME Counted, Flags, [Next]_vars
  PROVE  Flags'
  <1> USE DEF Flags, key
  <1>c. counter \in Int
    BY LoginAssumption DEF Counted
  <1>1. ASSUME NEW r \in Requests, CountAttempt(r)
        PROVE  Flags'
    <2>1. counter' = counter + 1 /\ UNCHANGED <<user, expires, redis>>
      BY <1>1 DEF CountAttempt
    <2>2. counter > 0 => counter' > 0
      BY <1>c, <2>1
    <2> QED BY <2>1, <2>2
  <1>2. ASSUME NEW r \in Requests, SetExpiry(r)
        PROVE  Flags'
    <2>1. expires' = (counter > 0) /\ UNCHANGED <<user, counter, redis>>
      BY <1>2 DEF SetExpiry
    <2> QED BY <2>1
  <1>3. CASE Expire \/ \E r \in Requests : ClearAttempts(r)
    <2>1. UNCHANGED <<user, redis>> /\ (expires' = FALSE \/ UNCHANGED <<counter, expires>>)
      BY <1>3 DEF Expire, ClearAttempts, KeyGone
    <2>2. CASE expires' = FALSE
      BY <2>1, <2>2
    <2>3. CASE UNCHANGED <<counter, expires>>
      BY <2>1, <2>3
    <2> QED BY <2>1, <2>2, <2>3
  <1>4. CASE RedisGoes \/ RedisReturns
    <2>1. UNCHANGED <<user, counter, expires>> /\ (redis' = TRUE \/ redis' = FALSE)
      BY <1>4 DEF RedisGoes, RedisReturns
    <2> QED BY <2>1
  <1>5. ASSUME NEW r \in Requests, InsertUser(r)
        PROVE  Flags'
    <2>1. user' = TRUE /\ UNCHANGED <<counter, expires, redis>>
      BY <1>5 DEF InsertUser
    <2> QED BY <2>1
  <1>6. ASSUME NEW r \in Requests, Signup(r) \/ SignIn(r) \/ RequestDies(r)
                                   \/ RateLimitUnavailable(r) \/ VerifyPassword(r)
        PROVE  Flags'
    <2>1. UNCHANGED <<user, counter, expires, redis>>
      BY <1>6 DEF Signup, SignIn, RequestDies, RateLimitUnavailable, VerifyPassword
    <2> QED BY <2>1
  <1>7. CASE UNCHANGED vars
    BY <1>7 DEF vars
  <1> QED BY <1>1, <1>2, <1>3, <1>4, <1>5, <1>6, <1>7 DEF Next, Serve

LEMMA Invariant == Spec => []Inv
  <1>1. Inv /\ [Next]_vars => Inv'
    BY StepPlaced, StepCounted, StepFlags DEF Inv
  <1> QED BY <1>1, InitInv, PTL DEF Spec

(* The count, the expiry and the requests keep their types, and only a key  *)
(* that is there expires.                                                   *)
THEOREM TypeCorrect == Spec => []TypeOK
  <1>1. Inv => TypeOK
    BY LoginAssumption DEF Inv, Placed, Counted, Flags, TypeOK
  <1> QED BY <1>1, Invariant, PTL

(* However many sign-ins overlap, Limit of them at most get past the        *)
(* throttle for one life of the counter: INCR hands every number out once.  *)
THEOREM ThrottleHolds == Spec => []Throttled
  <1>1. Inv => Throttled
    BY DEF Inv, Counted, Throttled
  <1> QED BY <1>1, Invariant, PTL
=============================================================================
