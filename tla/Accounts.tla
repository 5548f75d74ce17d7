------------------------------ MODULE Accounts ------------------------------
(***************************************************************************)
(* The tokens of one creator's TikTok account: the OAuth callback and the  *)
(* manual registration write them (api/routers/creator_accounts.py), and   *)
(* every upload attempt reads and, when they are due, refreshes them       *)
(* (_get_valid_access_token of workers/upload.py).                         *)
(*                                                                         *)
(* TikTok's answers are numbered; the n-th one carries access token n and, *)
(* if any, refresh token n.  A refresh may retire the token it was asked   *)
(* with (rotation), a new consent retires none.  Encryption is left out.   *)
(***************************************************************************)
EXTENDS Naturals, FiniteSets

CONSTANTS
  Rows,       \* creator_accounts ids
  Callbacks,  \* requests to the OAuth callback
  Workers,    \* upload worker processes
  NoRow,
  MaxTokens,  \* bound on TikTok's answers
  MaxFaults   \* bound on interruptions and revocations

ASSUME AccountsAssumption ==
  NoRow \notin Rows /\ MaxTokens \in Nat /\ MaxFaults \in Nat

VARIABLES
  account,   \* [Rows]: the row, or the absence of one
  callback,  \* [Callbacks]: where it is, TikTok's answer and the row it found
  worker,    \* [Workers]: where its attempt is, and the tokens it works with
  issued,    \* how many answers TikTok has given
  honoured,  \* the refresh tokens TikTok still takes
  faults     \* interruptions and revocations so far

vars == <<account, callback, worker, issued, honoured, faults>>

(* token_expires_at: null, ahead, or within _TOKEN_REFRESH_SKEW.            *)
Expiries == {"unknown", "fresh", "due"}
NoAccount == [access |-> 0, refresh |-> 0, expiry |-> "unknown"]
Stored == {r \in Rows : account[r] # NoAccount}

NoAnswer == [access |-> 0, refresh |-> 0, expires |-> FALSE]
Answers(n) == [access : {n}, refresh : {0, n}, expires : BOOLEAN]
Expiry(answer) == IF answer.expires THEN "fresh" ELSE "unknown"

Idle == [pc |-> "idle", row |-> NoRow, refresh |-> 0, answer |-> NoAnswer]

Init ==
  /\ account = [r \in Rows |-> NoAccount]
  /\ callback = [c \in Callbacks |-> [pc |-> "consent", answer |-> NoAnswer, row |-> NoRow]]
  /\ worker = [w \in Workers |-> Idle]
  /\ issued = 0
  /\ honoured = {}
  /\ faults = 0

-----------------------------------------------------------------------------
(* uq_creator_account_identity: the insert of a second row is refused.      *)
Inserts_NotUnique(row) ==  \* mutant: without the constraint
  \E r \in Rows \ Stored : account' = [account EXCEPT ![r] = row]
Inserts(row) ==
  IF Stored = {} THEN \E r \in Rows : account' = [account EXCEPT ![r] = row]
  ELSE UNCHANGED account

(* An answer's tokens go into the row; a refresh token that is not in it    *)
(* leaves the stored one alone.                                             *)
Merged_AccessOnly(row, answer) ==  \* mutant: the rotated token is not stored
  [row EXCEPT !.access = answer.access, !.expiry = Expiry(answer)]
Merged(row, answer) ==
  [access |-> answer.access, expiry |-> Expiry(answer),
   refresh |-> IF answer.refresh # 0 THEN answer.refresh ELSE row.refresh]

(* create_creator_account: a token pasted by hand, whose expiry nobody      *)
(* knows; 409 when the account is there.                                    *)
CreateCreatorAccount ==
  /\ issued < MaxTokens
  /\ issued' = issued + 1
  /\ \E keeps \in BOOLEAN :
       /\ Inserts([access |-> issued', expiry |-> "unknown",
                   refresh |-> IF keeps THEN issued' ELSE 0])
       /\ honoured' = IF keeps THEN honoured \cup {issued'} ELSE honoured
  /\ UNCHANGED <<callback, worker, faults>>

(* tiktok_oauth_callback: TikTok exchanges the code ...                     *)
ExchangeCode(c) ==
  /\ callback[c].pc = "consent"
  /\ issued < MaxTokens
  /\ issued' = issued + 1
  /\ \E answer \in Answers(issued') :
       /\ callback' = [callback EXCEPT ![c].pc = "select", ![c].answer = answer]
       /\ honoured' = honoured \cup ({answer.refresh} \ {0})
  /\ UNCHANGED <<account, worker, faults>>

(* ... the account is looked up ...                                         *)
FindAccount(c) ==
  /\ callback[c].pc = "select"
  /\ \E r \in Stored \cup {NoRow} :
       /\ r = NoRow <=> Stored = {}
       /\ callback' = [callback EXCEPT ![c].pc = "write", ![c].row = r]
  /\ UNCHANGED <<account, worker, issued, honoured, faults>>

(* ... and updated in place, or inserted; an insert that loses a race       *)
(* raises an IntegrityError, and the answer is lost.                        *)
ConnectAccount(c) ==
  /\ callback[c].pc = "write"
  /\ IF callback[c].row # NoRow
     THEN account' = [account EXCEPT ![callback[c].row] = Merged(@, callback[c].answer)]
     ELSE Inserts(Merged(NoAccount, callback[c].answer))
  /\ callback' = [callback EXCEPT ![c].pc = "done"]
  /\ UNCHANGED <<worker, issued, honoured, faults>>

-----------------------------------------------------------------------------
(* _get_valid_access_token.  An attempt has an account: its task names it.  *)
(* One whose token is good, or cannot be refreshed, goes on with it.        *)
ReadToken_WithoutOne(w) ==  \* mutant: `or not refresh_token_encrypted` dropped
  /\ worker[w].pc = "idle"
  /\ \E r \in Stored :
       /\ account[r].expiry = "due"
       /\ worker' = [worker EXCEPT ![w].pc = "ask", ![w].row = r, ![w].refresh = account[r].refresh]
  /\ UNCHANGED <<account, callback, issued, honoured, faults>>
ReadToken(w) ==
  /\ worker[w].pc = "idle"
  /\ \E r \in Stored :
       /\ account[r].expiry = "due" /\ account[r].refresh # 0
       /\ worker' = [worker EXCEPT ![w].pc = "ask", ![w].row = r, ![w].refresh = account[r].refresh]
  /\ UNCHANGED <<account, callback, issued, honoured, faults>>

(* TikTok takes the refresh token, and retires it if it sends another ...   *)
RefreshAccessToken(w) ==
  /\ worker[w].pc = "ask"
  /\ worker[w].refresh \in honoured
  /\ issued < MaxTokens
  /\ issued' = issued + 1
  /\ \E answer \in Answers(issued') :
       /\ worker' = [worker EXCEPT ![w].pc = "write", ![w].answer = answer]
       /\ honoured' = IF answer.refresh = 0 THEN honoured
                      ELSE (honoured \ {worker[w].refresh}) \cup {answer.refresh}
  /\ UNCHANGED <<account, callback, faults>>

(* ... or does not: a 4xx, and the upload task has failed for good.         *)
RefreshRefused(w) ==
  /\ worker[w].pc = "ask"
  /\ worker[w].refresh \notin honoured
  /\ worker' = [worker EXCEPT ![w] = Idle]
  /\ UNCHANGED <<account, callback, issued, honoured, faults>>

StoreToken(w) ==
  /\ worker[w].pc = "write"
  /\ account' = [account EXCEPT ![worker[w].row] = Merged(@, worker[w].answer)]
  /\ worker' = [worker EXCEPT ![w] = Idle]
  /\ UNCHANGED <<callback, issued, honoured, faults>>

-----------------------------------------------------------------------------
(* The environment: time passes, an attempt or a request dies, the creator  *)
(* withdraws the consent.                                                   *)
Expire(r) ==
  /\ account[r].expiry = "fresh"
  /\ account' = [account EXCEPT ![r].expiry = "due"]
  /\ UNCHANGED <<callback, worker, issued, honoured, faults>>

Interrupted ==
  /\ faults < MaxFaults
  /\ faults' = faults + 1
  /\ \/ \E w \in Workers : worker[w] # Idle /\ worker' = [worker EXCEPT ![w] = Idle] /\ UNCHANGED callback
     \/ \E c \in Callbacks : /\ callback[c].pc \in {"select", "write"}
                             /\ callback' = [callback EXCEPT ![c].pc = "done"]
                             /\ UNCHANGED worker
  /\ UNCHANGED <<account, issued, honoured>>

Revoke ==
  /\ faults < MaxFaults
  /\ faults' = faults + 1
  /\ honoured' = {}
  /\ UNCHANGED <<account, callback, worker, issued>>

Next ==
  \/ CreateCreatorAccount \/ Interrupted \/ Revoke
  \/ \E c \in Callbacks : ExchangeCode(c) \/ FindAccount(c) \/ ConnectAccount(c)
  \/ \E w \in Workers : ReadToken(w) \/ RefreshAccessToken(w) \/ RefreshRefused(w) \/ StoreToken(w)
  \/ \E r \in Rows : Expire(r)

Spec == Init /\ [][Next]_vars

-----------------------------------------------------------------------------
TypeOK ==
  /\ account \in [Rows -> [access : 0..issued, refresh : 0..issued, expiry : Expiries]]
  /\ issued \in 0..MaxTokens /\ honoured \subseteq 1..issued /\ faults \in 0..MaxFaults
  /\ \A c \in Callbacks :
       /\ callback[c].pc \in {"consent", "select", "write", "done"}
       /\ callback[c].row \in Rows \cup {NoRow}
       /\ callback[c].pc # "consent" => callback[c].answer \in UNION {Answers(n) : n \in 1..issued}
  /\ \A w \in Workers :
       /\ worker[w].pc \in {"idle", "ask", "write"}
       /\ worker[w].pc = "idle" <=> worker[w] = Idle
       /\ worker[w].pc # "idle" => worker[w].row \in Stored /\ worker[w].refresh \in 1..issued

(* However connections and registrations overlap, between their look-ups    *)
(* and their writes, the creator's account has one row: uploads and their   *)
(* daily cap are counted by it.                                             *)
OneAccount == Cardinality(Stored) <= 1

(* With one upload worker, and as long as nothing dies and nothing is       *)
(* withdrawn, a connected account stays connected: TikTok takes the refresh *)
(* token that is stored, or a worker is about to store the one it does; and *)
(* no attempt is refused, whatever is connected again while it refreshes.   *)
StaysConnected ==
  faults = 0 /\ Cardinality(Workers) = 1 =>
    /\ \A r \in Stored : account[r].refresh = 0 \/ account[r].refresh \in honoured
         \/ \E w \in Workers : worker[w].pc = "write" /\ worker[w].row = r /\ worker[w].answer.refresh # 0
    /\ \A w \in Workers : worker[w].pc = "ask" => worker[w].refresh \in honoured

=============================================================================
