--------------------------- MODULE AccountsProofs ---------------------------
(***************************************************************************)
(* Proofs, for any number of rows, requests and workers, about the tokens  *)
(* of Accounts.                                                            *)
(***************************************************************************)
EXTENDS Accounts, FiniteSetTheorems, TLAPS

AnyAnswer == [access : Nat, refresh : Nat, expires : BOOLEAN]
Request == [pc : {"consent", "select", "write", "done"}, answer : AnyAnswer, row : Rows \cup {NoRow}]
Attempt == [pc : {"idle", "ask", "write"}, row : Rows \cup {NoRow}, refresh : Nat, answer : AnyAnswer]
Row == [access : Nat, refresh : Nat, expiry : Expiries]

Typed ==
  /\ account \in [Rows -> Row] /\ callback \in [Callbacks -> Request]
  /\ worker \in [Workers -> Attempt]
  /\ issued \in 0..MaxTokens /\ honoured \subseteq 1..issued /\ faults \in 0..MaxFaults

(* Every number in use is one of TikTok's answers, and a row that is stored *)
(* has an access token.                                                     *)
RowsKnown ==
  \A r \in Rows : /\ account[r].access \in 0..issued /\ account[r].refresh \in 0..issued
                  /\ r \in Stored => account[r].access > 0
RequestsKnown ==
  \A c \in Callbacks : callback[c].pc # "consent" =>
    /\ callback[c].answer.access \in 1..issued
    /\ callback[c].answer.refresh \in {0, callback[c].answer.access}
AttemptsKnown ==
  \A w \in Workers :
    /\ worker[w].pc = "idle" <=> worker[w] = Idle
    /\ worker[w].pc # "idle" => worker[w].row \in Stored /\ worker[w].refresh \in 1..issued
    /\ worker[w].pc = "write" => /\ worker[w].answer.access \in 1..issued
                                 /\ worker[w].answer.refresh \in 0..issued
Known == RowsKnown /\ RequestsKnown /\ AttemptsKnown

(* One row, and a request or attempt writes to a row that is there.         *)
Single ==
  /\ \A r, s \in Stored : r = s
  /\ \A c \in Callbacks : callback[c].pc = "write" /\ callback[c].row # NoRow
                            => callback[c].row \in Stored

-----------------------------------------------------------------------------
(* What each action does to the rows.                                       *)
LEMMA NoAccountFields ==
  /\ NoAccount \in Row /\ NoAccount.access = 0 /\ NoAccount.refresh = 0
  /\ Idle \in Attempt /\ Idle.pc = "idle"
  BY DEF NoAccount, Row, Expiries, Idle, Attempt, NoAnswer, AnyAnswer

LEMMA MergedFields ==
  ASSUME NEW row \in Row, NEW answer \in AnyAnswer
  PROVE  /\ Merged(row, answer) \in Row
         /\ Merged(row, answer).access = answer.access
         /\ answer.refresh # 0 => Merged(row, answer).refresh = answer.refresh
         /\ answer.refresh = 0 => Merged(row, answer).refresh = row.refresh
  BY DEF Merged, Expiry, Row, Expiries, AnyAnswer

(* A new row, where there was none.                                         *)
LEMMA InsertsEffect ==
  ASSUME account \in [Rows -> Row], NEW row \in Row, row.access > 0, Inserts(row)
  PROVE  \/ account' = account
         \/ /\ Stored = {}
            /\ \E r \in Rows : account' = [account EXCEPT ![r] = row] /\ Stored' = {r}
  <1>1. CASE Stored = {}
    <2>1. PICK r \in Rows : account' = [account EXCEPT ![r] = row]
      BY <1>1 DEF Inserts
    <2>2. row # NoAccount
      BY NoAccountFields
    <2>3. \A s \in Rows : account'[s] # NoAccount <=> s = r
      BY <1>1, <2>1, <2>2 DEF Stored
    <2>4. Stored' = {r}
      BY <2>3 DEF Stored
    <2> QED BY <1>1, <2>1, <2>4
  <1>2. CASE Stored # {}
    BY <1>2 DEF Inserts
  <1> QED BY <1>1, <1>2

(* A stored row is written over, and stays stored.                          *)
LEMMA UpdateEffect ==
  ASSUME account \in [Rows -> Row], NEW r \in Stored, NEW row \in Row, row.access > 0,
         account' = [account EXCEPT ![r] = row]
  PROVE  /\ Stored' = Stored /\ account' \in [Rows -> Row]
         /\ account'[r] = row
         /\ \A s \in Rows \ {r} : account'[s] = account[s]
  <1>1. row # NoAccount
    BY NoAccountFields
  <1>2. r \in Rows /\ account[r] # NoAccount
    BY DEF Stored
  <1>3. \A s \in Rows : account'[s] # NoAccount <=> account[s] # NoAccount
    BY <1>1, <1>2
  <1> QED BY <1>2, <1>3 DEF Stored

LEMMA AnswersFields ==
  ASSUME NEW n \in Nat, NEW answer \in Answers(n)
  PROVE  /\ answer \in AnyAnswer /\ answer.access = n
         /\ answer.refresh = 0 \/ answer.refresh = n
  BY DEF Answers, AnyAnswer

LEMMA CreateEffect ==
  ASSUME Typed, CreateCreatorAccount
  PROVE  /\ issued' = issued + 1 /\ issued' \in 0..MaxTokens
         /\ UNCHANGED <<callback, worker, faults>>
         /\ honoured \subseteq honoured' /\ honoured' \subseteq honoured \cup {issued'}
         /\ \/ account' = account
            \/ /\ Stored = {}
               /\ \E r \in Rows : /\ Stored' = {r}
                                  /\ \A s \in Rows \ {r} : account'[s] = account[s]
                                  /\ account'[r] \in Row /\ account'[r].access = issued'
                                  /\ \/ account'[r].refresh = 0
                                     \/ account'[r].refresh = issued' /\ issued' \in honoured'
         /\ account' \in [Rows -> Row]
  <1>1. PICK keeps \in BOOLEAN :
          /\ Inserts([access |-> issued', expiry |-> "unknown",
                      refresh |-> IF keeps THEN issued' ELSE 0])
          /\ honoured' = IF keeps THEN honoured \cup {issued'} ELSE honoured
    BY DEF CreateCreatorAccount
  <1>2. issued' = issued + 1 /\ issued' \in 0..MaxTokens /\ UNCHANGED <<callback, worker, faults>>
    BY AccountsAssumption DEF CreateCreatorAccount, Typed
  <1> DEFINE row == [access |-> issued', expiry |-> "unknown", refresh |-> IF keeps THEN issued' ELSE 0]
  <1>3. row \in Row /\ row.access = issued' /\ row.refresh = IF keeps THEN issued' ELSE 0
    BY <1>2 DEF Row, Expiries
  <1>4. account \in [Rows -> Row] /\ row.access > 0
    BY <1>2, <1>3 DEF Typed
  <1> HIDE DEF row
  <1>5. \/ account' = account
        \/ /\ Stored = {}
           /\ \E r \in Rows : account' = [account EXCEPT ![r] = row] /\ Stored' = {r}
    BY <1>1, <1>3, <1>4, InsertsEffect DEF row
  <1> QED BY <1>1, <1>2, <1>3, <1>4, <1>5

LEMMA ExchangeEffect ==
  ASSUME Typed, NEW c \in Callbacks, ExchangeCode(c)
  PROVE  /\ issued' = issued + 1 /\ issued' \in 0..MaxTokens
         /\ UNCHANGED <<account, worker, faults>>
         /\ callback' \in [Callbacks -> Request]
         /\ \A d \in Callbacks \ {c} : callback'[d] = callback[d]
         /\ callback'[c].pc = "select" /\ callback'[c].row = callback[c].row
         /\ callback'[c].answer.access = issued'
         /\ \/ callback'[c].answer.refresh = 0 /\ honoured' = honoured
            \/ callback'[c].answer.refresh = issued' /\ honoured' = honoured \cup {issued'}
  <1>1. issued' = issued + 1 /\ issued' \in 0..MaxTokens /\ UNCHANGED <<account, worker, faults>>
    BY AccountsAssumption DEF ExchangeCode, Typed
  <1>2. PICK answer \in Answers(issued') :
          /\ callback' = [callback EXCEPT ![c].pc = "select", ![c].answer = answer]
          /\ honoured' = honoured \cup ({answer.refresh} \ {0})
    BY DEF ExchangeCode
  <1>3. /\ answer \in AnyAnswer /\ answer.access = issued'
        /\ answer.refresh = 0 \/ answer.refresh = issued'
    BY <1>1, AnswersFields
  <1>4. /\ callback' \in [Callbacks -> Request]
        /\ \A d \in Callbacks \ {c} : callback'[d] = callback[d]
        /\ callback'[c].pc = "select" /\ callback'[c].row = callback[c].row
        /\ callback'[c].answer = answer
    BY <1>2, <1>3 DEF Typed, Request
  <1>5. issued' # 0
    BY <1>1 DEF Typed
  <1> QED BY <1>1, <1>2, <1>3, <1>4, <1>5

LEMMA FindEffect ==
  ASSUME Typed, NEW c \in Callbacks, FindAccount(c)
  PROVE  /\ callback[c].pc = "select"
         /\ UNCHANGED <<account, worker, issued, honoured, faults>>
         /\ callback' \in [Callbacks -> Request]
         /\ \A d \in Callbacks \ {c} : callback'[d] = callback[d]
         /\ callback'[c].pc = "write" /\ callback'[c].answer = callback[c].answer
         /\ callback'[c].row \in Stored \cup {NoRow}
  <1>1. PICK r \in Stored \cup {NoRow} :
          callback' = [callback EXCEPT ![c].pc = "write", ![c].row = r]
    BY DEF FindAccount
  <1>2. r \in Rows \cup {NoRow}
    BY DEF Stored
  <1> QED BY <1>1, <1>2 DEF FindAccount, Typed, Request

LEMMA ConnectEffect ==
  ASSUME Typed, Known, Single, NEW c \in Callbacks, ConnectAccount(c)
  PROVE  /\ callback[c].pc = "write"
         /\ UNCHANGED <<worker, issued, honoured, faults>>
         /\ callback' \in [Callbacks -> Request]
         /\ \A d \in Callbacks \ {c} : callback'[d] = callback[d]
         /\ callback'[c].pc = "done" /\ callback'[c].answer = callback[c].answer
         /\ account' \in [Rows -> Row]
         /\ \/ account' = account
            \/ \E r \in Rows :
                 /\ \/ Stored = {} /\ Stored' = {r}
                    \/ r \in Stored /\ Stored' = Stored
                 /\ \A s \in Rows \ {r} : account'[s] = account[s]
                 /\ account'[r].access = callback[c].answer.access
                 /\ \/ account'[r].refresh = callback[c].answer.refresh
                    \/ Stored' = Stored /\ account'[r].refresh = account[r].refresh
  <1>1. /\ callback[c].pc = "write" /\ UNCHANGED <<worker, issued, honoured, faults>>
        /\ callback' = [callback EXCEPT ![c].pc = "done"]
    BY DEF ConnectAccount
  <1>2. /\ callback' \in [Callbacks -> Request]
        /\ \A d \in Callbacks \ {c} : callback'[d] = callback[d]
        /\ callback'[c].pc = "done" /\ callback'[c].answer = callback[c].answer
    BY <1>1 DEF Typed, Request
  <1>3. /\ callback[c].answer \in AnyAnswer /\ account \in [Rows -> Row]
        /\ callback[c].answer.access > 0
    BY <1>1 DEF Typed, Known, RequestsKnown, Request, AnyAnswer
  <1>4. CASE callback[c].row # NoRow
    <2> DEFINE r == callback[c].row
               row == Merged(account[r], callback[c].answer)
    <2>1. r \in Stored /\ account[r] \in Row /\ account' = [account EXCEPT ![r] = row]
      BY <1>1, <1>3, <1>4 DEF ConnectAccount, Single, Stored
    <2>2. /\ row \in Row /\ row.access = callback[c].answer.access
          /\ row.refresh = callback[c].answer.refresh \/ row.refresh = account[r].refresh
      BY <1>3, <2>1, MergedFields
    <2> HIDE DEF r, row
    <2>3. /\ Stored' = Stored /\ account' \in [Rows -> Row] /\ account'[r] = row
          /\ \A s \in Rows \ {r} : account'[s] = account[s]
      BY <1>3, <2>1, <2>2, UpdateEffect
    <2>4. r \in Rows
      BY <2>1 DEF Stored
    <2> QED BY <1>1, <1>2, <2>1, <2>2, <2>3, <2>4
  <1>5. CASE callback[c].row = NoRow
    <2> DEFINE row == Merged(NoAccount, callback[c].answer)
    <2>1. /\ row \in Row /\ row.access = callback[c].answer.access
          /\ row.refresh = callback[c].answer.refresh
      BY <1>3, MergedFields, NoAccountFields DEF AnyAnswer
    <2>2. Inserts(row)
      BY <1>5 DEF ConnectAccount
    <2> HIDE DEF row
    <2>3. \/ account' = account
          \/ /\ Stored = {}
             /\ \E r \in Rows : account' = [account EXCEPT ![r] = row] /\ Stored' = {r}
      BY <1>3, <2>1, <2>2, InsertsEffect
    <2>4. CASE account' = account
      BY <1>1, <1>2, <1>3, <2>4
    <2>5. ASSUME Stored = {}, NEW r \in Rows, account' = [account EXCEPT ![r] = row], Stored' = {r}
          PROVE  /\ account' \in [Rows -> Row] /\ account'[r] = row
                 /\ \A s \in Rows \ {r} : account'[s] = account[s]
      BY <1>3, <2>1, <2>5
    <2> QED BY <1>1, <1>2, <2>1, <2>3, <2>4, <2>5
  <1> QED BY <1>4, <1>5

LEMMA ReadEffect ==
  ASSUME Typed, NEW w \in Workers, ReadToken(w)
  PROVE  /\ worker[w].pc = "idle"
         /\ UNCHANGED <<account, callback, issued, honoured, faults>>
         /\ worker' \in [Workers -> Attempt]
         /\ \A v \in Workers \ {w} : worker'[v] = worker[v]
         /\ worker'[w].pc = "ask" /\ worker'[w].answer = worker[w].answer
         /\ worker'[w].row \in Stored
         /\ worker'[w].refresh = account[worker'[w].row].refresh /\ worker'[w].refresh # 0
  <1>1. PICK r \in Stored :
          /\ account[r].refresh # 0
          /\ worker' = [worker EXCEPT ![w].pc = "ask", ![w].row = r, ![w].refresh = account[r].refresh]
    BY DEF ReadToken
  <1>2. r \in Rows /\ account[r].refresh \in Nat
    BY DEF Stored, Typed, Row
  <1> QED BY <1>1, <1>2 DEF ReadToken, Typed, Attempt

LEMMA RefreshEffect ==
  ASSUME Typed, NEW w \in Workers, RefreshAccessToken(w)
  PROVE  /\ worker[w].pc = "ask"
         /\ issued' = issued + 1 /\ issued' \in 0..MaxTokens
         /\ UNCHANGED <<account, callback, faults>>
         /\ worker' \in [Workers -> Attempt]
         /\ \A v \in Workers \ {w} : worker'[v] = worker[v]
         /\ worker'[w].pc = "write" /\ worker'[w].row = worker[w].row
         /\ worker'[w].refresh = worker[w].refresh
         /\ worker'[w].answer.access = issued'
         /\ \/ worker'[w].answer.refresh = 0 /\ honoured' = honoured
            \/ /\ worker'[w].answer.refresh = issued'
               /\ honoured' = (honoured \ {worker[w].refresh}) \cup {issued'}
  <1>1. issued' = issued + 1 /\ issued' \in 0..MaxTokens /\ UNCHANGED <<account, callback, faults>>
    BY AccountsAssumption DEF RefreshAccessToken, Typed
  <1>2. PICK answer \in Answers(issued') :
          /\ worker' = [worker EXCEPT ![w].pc = "write", ![w].answer = answer]
          /\ honoured' = IF answer.refresh = 0 THEN honoured
                         ELSE (honoured \ {worker[w].refresh}) \cup {answer.refresh}
    BY DEF RefreshAccessToken
  <1>3. /\ answer \in AnyAnswer /\ answer.access = issued'
        /\ answer.refresh = 0 \/ answer.refresh = issued'
    BY <1>1, AnswersFields
  <1>4. /\ worker' \in [Workers -> Attempt]
        /\ \A v \in Workers \ {w} : worker'[v] = worker[v]
        /\ worker'[w].pc = "write" /\ worker'[w].row = worker[w].row
        /\ worker'[w].refresh = worker[w].refresh /\ worker'[w].answer = answer
    BY <1>2, <1>3 DEF Typed, Attempt
  <1>5. worker[w].pc = "ask"
    BY DEF RefreshAccessToken
  <1>6. issued' # 0
    BY <1>1 DEF Typed
  <1> QED BY <1>1, <1>2, <1>3, <1>4, <1>5, <1>6

LEMMA StoreEffect ==
  ASSUME Typed, Known, NEW w \in Workers, StoreToken(w)
  PROVE  LET r == worker[w].row
         IN /\ worker[w].pc = "write" /\ r \in Stored /\ Stored' = Stored
            /\ UNCHANGED <<callback, issued, honoured, faults>>
            /\ worker' \in [Workers -> Attempt] /\ worker'[w] = Idle
            /\ \A v \in Workers \ {w} : worker'[v] = worker[v]
            /\ account' \in [Rows -> Row]
            /\ \A s \in Rows \ {r} : account'[s] = account[s]
            /\ account'[r].access = worker[w].answer.access
            /\ worker[w].answer.refresh # 0 => account'[r].refresh = worker[w].answer.refresh
            /\ worker[w].answer.refresh = 0 => account'[r].refresh = account[r].refresh
  <1> DEFINE r == worker[w].row
             row == Merged(account[r], worker[w].answer)
  <1>1. /\ worker[w].pc = "write" /\ UNCHANGED <<callback, issued, honoured, faults>>
        /\ account' = [account EXCEPT ![r] = row]
        /\ worker' = [worker EXCEPT ![w] = Idle]
    BY DEF StoreToken
  <1>2. /\ r \in Stored /\ account \in [Rows -> Row] /\ account[r] \in Row
        /\ worker[w].answer \in AnyAnswer /\ worker[w].answer.access > 0
    BY <1>1 DEF Typed, Known, AttemptsKnown, Attempt, Stored
  <1>3. /\ row \in Row /\ row.access = worker[w].answer.access
        /\ worker[w].answer.refresh # 0 => row.refresh = worker[w].answer.refresh
        /\ worker[w].answer.refresh = 0 => row.refresh = account[r].refresh
    BY <1>2, MergedFields
  <1>4. /\ worker' \in [Workers -> Attempt] /\ worker'[w] = Idle
        /\ \A v \in Workers \ {w} : worker'[v] = worker[v]
    BY <1>1, NoAccountFields DEF Typed
  <1> HIDE DEF r, row
  <1>5. /\ Stored' = Stored /\ account' \in [Rows -> Row] /\ account'[r] = row
        /\ \A s \in Rows \ {r} : account'[s] = account[s]
    BY <1>1, <1>2, <1>3, UpdateEffect
  <1> QED BY <1>1, <1>2, <1>3, <1>4, <1>5 DEF r

LEMMA ExpireEffect ==
  ASSUME Typed, Known, NEW r \in Rows, Expire(r)
  PROVE  /\ UNCHANGED <<callback, worker, issued, honoured, faults>>
         /\ account' \in [Rows -> Row] /\ Stored' = Stored
         /\ \A s \in Rows : /\ account'[s].access = account[s].access
                            /\ account'[s].refresh = account[s].refresh
  <1>1. /\ UNCHANGED <<callback, worker, issued, honoured, faults>>
        /\ account[r].expiry = "fresh" /\ account' = [account EXCEPT ![r].expiry = "due"]
    BY DEF Expire
  <1>2. /\ account' \in [Rows -> Row] /\ account'[r].expiry = "due"
        /\ \A s \in Rows : /\ account'[s].access = account[s].access
                           /\ account'[s].refresh = account[s].refresh
        /\ \A s \in Rows \ {r} : account'[s] = account[s]
    BY <1>1 DEF Typed, Row, Expiries
  <1>3. NoAccount.expiry = "unknown"
    BY DEF NoAccount
  <1>4. Stored' = Stored
    BY <1>1, <1>2, <1>3 DEF Stored
  <1> QED BY <1>1, <1>2, <1>4

LEMMA InterruptedEffect ==
  ASSUME Typed, Interrupted
  PROVE  /\ faults' = faults + 1 /\ faults' \in 0..MaxFaults
         /\ UNCHANGED <<account, issued, honoured>>
         /\ callback' \in [Callbacks -> Request] /\ worker' \in [Workers -> Attempt]
         /\ \A w \in Workers : worker'[w] = worker[w] \/ worker'[w] = Idle
         /\ \A c \in Callbacks :
              \/ callback'[c] = callback[c]
              \/ /\ callback[c].pc # "consent" /\ callback'[c].pc = "done"
                 /\ callback'[c].answer = callback[c].answer
  <1>1. faults' = faults + 1 /\ faults' \in 0..MaxFaults /\ UNCHANGED <<account, issued, honoured>>
    BY AccountsAssumption DEF Interrupted, Typed
  <1>2. CASE \E w \in Workers : worker' = [worker EXCEPT ![w] = Idle] /\ UNCHANGED callback
    BY <1>1, <1>2, NoAccountFields DEF Typed
  <1>3. CASE \E c \in Callbacks : /\ callback[c].pc \in {"select", "write"}
                                  /\ callback' = [callback EXCEPT ![c].pc = "done"]
                                  /\ UNCHANGED worker
    BY <1>1, <1>3 DEF Typed, Request
  <1> QED BY <1>2, <1>3 DEF Interrupted

LEMMA RefusedEffect ==
  ASSUME Typed, NEW w \in Workers, RefreshRefused(w)
  PROVE  /\ worker[w].pc = "ask" /\ worker[w].refresh \notin honoured
         /\ UNCHANGED <<account, callback, issued, honoured, faults>>
         /\ worker' \in [Workers -> Attempt] /\ worker'[w] = Idle
         /\ \A v \in Workers \ {w} : worker'[v] = worker[v]
  BY NoAccountFields DEF RefreshRefused, Typed

-----------------------------------------------------------------------------
(* A row that is stored stays stored, and only one is, ever.                *)
LEMMA StoredGrows ==
  ASSUME Typed, Known, Single, [Next]_vars
  PROVE  Stored' = Stored \/ (Stored = {} /\ \E r \in Rows : Stored' = {r})
  <1> DEFINE Goal == Stored' = Stored \/ (Stored = {} /\ \E r \in Rows : Stored' = {r})
  <1>1. UNCHANGED account => Goal
    BY DEF Stored
  <1>2. CASE CreateCreatorAccount
    BY <1>1, <1>2, CreateEffect
  <1>3. ASSUME NEW c \in Callbacks, ConnectAccount(c) PROVE Goal
    BY <1>1, <1>3, ConnectEffect
  <1>4. ASSUME NEW w \in Workers, StoreToken(w) PROVE Goal
    BY <1>4, StoreEffect
  <1>5. ASSUME NEW r \in Rows, Expire(r) PROVE Goal
    BY <1>5, ExpireEffect
  <1>6. CASE \/ Interrupted \/ Revoke \/ UNCHANGED vars
             \/ \E c \in Callbacks : ExchangeCode(c) \/ FindAccount(c)
             \/ \E w \in Workers : ReadToken(w) \/ RefreshAccessToken(w) \/ RefreshRefused(w)
    <2>1. UNCHANGED account
      BY <1>6
      DEF Interrupted, Revoke, vars, ExchangeCode, FindAccount, ReadToken, RefreshAccessToken,
          RefreshRefused
    <2> QED BY <1>1, <2>1
  <1> QED BY <1>2, <1>3, <1>4, <1>5, <1>6 DEF Next

(* Nothing is written that is not a token.                                  *)
LEMMA StepTyped ==
  ASSUME Typed, Known, Single, [Next]_vars
  PROVE  Typed'
  <1> USE AccountsAssumption, NoAccountFields
  <1>t. /\ account \in [Rows -> Row] /\ callback \in [Callbacks -> Request]
        /\ worker \in [Workers -> Attempt] /\ issued \in 0..MaxTokens
        /\ honoured \subseteq 1..issued /\ faults \in 0..MaxFaults
    BY DEF Typed
  <1>s. UNCHANGED account => Stored' = Stored
    BY DEF Stored
  <1>1. CASE CreateCreatorAccount
    <2>1. 1..issued \subseteq 1..issued' /\ issued' \in 1..issued'
      BY <1>t, <1>1, CreateEffect
    <2>2. honoured' \subseteq 1..issued'
      BY <1>t, <1>1, <2>1, CreateEffect
    <2> QED BY <1>t, <1>1, <2>2, CreateEffect DEF Typed
  <1>2. CASE Interrupted
    BY <1>t, <1>2, InterruptedEffect DEF Typed
  <1>3. CASE Revoke
    BY <1>t, <1>3 DEF Typed, Revoke
  <1>4. ASSUME NEW c \in Callbacks, ExchangeCode(c)
        PROVE  Typed'
    <2>1. 1..issued \subseteq 1..issued' /\ issued' \in 1..issued'
      BY <1>t, <1>4, ExchangeEffect
    <2>2. honoured' \subseteq 1..issued'
      BY <1>t, <1>4, <2>1, ExchangeEffect
    <2> QED BY <1>t, <1>4, <2>2, ExchangeEffect DEF Typed
  <1>5. ASSUME NEW c \in Callbacks, FindAccount(c)
        PROVE  Typed'
    BY <1>t, <1>5, FindEffect DEF Typed
  <1>6. ASSUME NEW c \in Callbacks, ConnectAccount(c)
        PROVE  Typed'
    BY <1>t, <1>6, ConnectEffect DEF Typed
  <1>7. ASSUME NEW w \in Workers, ReadToken(w)
        PROVE  Typed'
    BY <1>t, <1>7, ReadEffect DEF Typed
  <1>8. ASSUME NEW w \in Workers, RefreshAccessToken(w)
        PROVE  Typed'
    BY <1>t, <1>8, RefreshEffect DEF Typed
  <1>9. ASSUME NEW w \in Workers, RefreshRefused(w)
        PROVE  Typed'
    BY <1>t, <1>9, RefusedEffect DEF Typed
  <1>10. ASSUME NEW w \in Workers, StoreToken(w)
        PROVE  Typed'
    BY <1>t, <1>10, StoreEffect DEF Typed
  <1>11. ASSUME NEW r \in Rows, Expire(r)
        PROVE  Typed'
    BY <1>t, <1>11, ExpireEffect DEF Typed
  <1>12. CASE UNCHANGED vars
    BY <1>t, <1>12 DEF Typed, vars
  <1> QED
    BY <1>1, <1>2, <1>3, <1>4, <1>5, <1>6, <1>7, <1>8, <1>9, <1>10, <1>11, <1>12
       DEF Next

(* A number is used that TikTok has given.                                  *)
LEMMA StepRowsKnown ==
  ASSUME Typed, Known, Single, [Next]_vars
  PROVE  RowsKnown'
  <1> USE AccountsAssumption, NoAccountFields DEF Known, RowsKnown, RequestsKnown, AttemptsKnown
  <1>t. /\ account \in [Rows -> Row] /\ callback \in [Callbacks -> Request]
        /\ worker \in [Workers -> Attempt] /\ issued \in Nat
        /\ Stored \subseteq Rows /\ Stored \subseteq Stored'
    BY StoredGrows DEF Typed, Stored
  <1>s. UNCHANGED account => Stored' = Stored
    BY DEF Stored
  <1>1. CASE CreateCreatorAccount
    BY <1>t, <1>s, <1>1, CreateEffect
  <1>2. CASE Interrupted
    BY <1>t, <1>s, <1>2, InterruptedEffect
  <1>3. CASE Revoke
    BY <1>t, <1>s, <1>3 DEF Revoke
  <1>4. ASSUME NEW c \in Callbacks, ExchangeCode(c)
        PROVE  RowsKnown'
    BY <1>t, <1>s, <1>4, ExchangeEffect
  <1>5. ASSUME NEW c \in Callbacks, FindAccount(c)
        PROVE  RowsKnown'
    BY <1>t, <1>s, <1>5, FindEffect
  <1>6. ASSUME NEW c \in Callbacks, ConnectAccount(c)
        PROVE  RowsKnown'
    BY <1>t, <1>s, <1>6, ConnectEffect
  <1>7. ASSUME NEW w \in Workers, ReadToken(w)
        PROVE  RowsKnown'
    BY <1>t, <1>s, <1>7, ReadEffect
  <1>8. ASSUME NEW w \in Workers, RefreshAccessToken(w)
        PROVE  RowsKnown'
    BY <1>t, <1>s, <1>8, RefreshEffect
  <1>9. ASSUME NEW w \in Workers, RefreshRefused(w)
        PROVE  RowsKnown'
    BY <1>t, <1>s, <1>9, RefusedEffect
  <1>10. ASSUME NEW w \in Workers, StoreToken(w)
        PROVE  RowsKnown'
    BY <1>t, <1>s, <1>10, StoreEffect
  <1>11. ASSUME NEW r \in Rows, Expire(r)
        PROVE  RowsKnown'
    BY <1>t, <1>s, <1>11, ExpireEffect
  <1>12. CASE UNCHANGED vars
    BY <1>t, <1>s, <1>12 DEF vars
  <1> QED
    BY <1>1, <1>2, <1>3, <1>4, <1>5, <1>6, <1>7, <1>8, <1>9, <1>10, <1>11, <1>12
       DEF Next

(* A request has TikTok's answer from when it is given to it.              *)
LEMMA StepRequestsKnown ==
  ASSUME Typed, Known, Single, [Next]_vars
  PROVE  RequestsKnown'
  <1> USE AccountsAssumption, NoAccountFields DEF Known, RowsKnown, RequestsKnown, AttemptsKnown
  <1>t. /\ account \in [Rows -> Row] /\ callback \in [Callbacks -> Request]
        /\ worker \in [Workers -> Attempt] /\ issued \in Nat
        /\ Stored \subseteq Rows /\ Stored \subseteq Stored'
    BY StoredGrows DEF Typed, Stored
  <1>s. UNCHANGED account => Stored' = Stored
    BY DEF Stored
  <1>1. CASE CreateCreatorAccount
    BY <1>t, <1>s, <1>1, CreateEffect
  <1>2. CASE Interrupted
    BY <1>t, <1>s, <1>2, InterruptedEffect
  <1>3. CASE Revoke
    BY <1>t, <1>s, <1>3 DEF Revoke
  <1>4. ASSUME NEW c \in Callbacks, ExchangeCode(c)
        PROVE  RequestsKnown'
    BY <1>t, <1>s, <1>4, ExchangeEffect
  <1>5. ASSUME NEW c \in Callbacks, FindAccount(c)
        PROVE  RequestsKnown'
    BY <1>t, <1>s, <1>5, FindEffect
  <1>6. ASSUME NEW c \in Callbacks, ConnectAccount(c)
        PROVE  RequestsKnown'
    BY <1>t, <1>s, <1>6, ConnectEffect
  <1>7. ASSUME NEW w \in Workers, ReadToken(w)
        PROVE  RequestsKnown'
    BY <1>t, <1>s, <1>7, ReadEffect
  <1>8. ASSUME NEW w \in Workers, RefreshAccessToken(w)
        PROVE  RequestsKnown'
    BY <1>t, <1>s, <1>8, RefreshEffect
  <1>9. ASSUME NEW w \in Workers, RefreshRefused(w)
        PROVE  RequestsKnown'
    BY <1>t, <1>s, <1>9, RefusedEffect
  <1>10. ASSUME NEW w \in Workers, StoreToken(w)
        PROVE  RequestsKnown'
    BY <1>t, <1>s, <1>10, StoreEffect
  <1>11. ASSUME NEW r \in Rows, Expire(r)
        PROVE  RequestsKnown'
    BY <1>t, <1>s, <1>11, ExpireEffect
  <1>12. CASE UNCHANGED vars
    BY <1>t, <1>s, <1>12 DEF vars
  <1> QED
    BY <1>1, <1>2, <1>3, <1>4, <1>5, <1>6, <1>7, <1>8, <1>9, <1>10, <1>11, <1>12
       DEF Next

(* An attempt reads from a row that stays, and holds what it was answered. *)
LEMMA StepAttemptsKnown ==
  ASSUME Typed, Known, Single, [Next]_vars
  PROVE  AttemptsKnown'
  <1> USE AccountsAssumption, NoAccountFields DEF Known, RowsKnown, RequestsKnown, AttemptsKnown
  <1>t. /\ account \in [Rows -> Row] /\ callback \in [Callbacks -> Request]
        /\ worker \in [Workers -> Attempt] /\ issued \in Nat
        /\ Stored \subseteq Rows /\ Stored \subseteq Stored'
    BY StoredGrows DEF Typed, Stored
  <1>s. UNCHANGED account => Stored' = Stored
    BY DEF Stored
  <1>1. CASE CreateCreatorAccount
    BY <1>t, <1>s, <1>1, CreateEffect
  <1>2. CASE Interrupted
    BY <1>t, <1>s, <1>2, InterruptedEffect
  <1>3. CASE Revoke
    BY <1>t, <1>s, <1>3 DEF Revoke
  <1>4. ASSUME NEW c \in Callbacks, ExchangeCode(c)
        PROVE  AttemptsKnown'
    BY <1>t, <1>s, <1>4, ExchangeEffect
  <1>5. ASSUME NEW c \in Callbacks, FindAccount(c)
        PROVE  AttemptsKnown'
    BY <1>t, <1>s, <1>5, FindEffect
  <1>6. ASSUME NEW c \in Callbacks, ConnectAccount(c)
        PROVE  AttemptsKnown'
    BY <1>t, <1>s, <1>6, ConnectEffect
  <1>7. ASSUME NEW w \in Workers, ReadToken(w)
        PROVE  AttemptsKnown'
    BY <1>t, <1>s, <1>7, ReadEffect
  <1>8. ASSUME NEW w \in Workers, RefreshAccessToken(w)
        PROVE  AttemptsKnown'
    BY <1>t, <1>s, <1>8, RefreshEffect
  <1>9. ASSUME NEW w \in Workers, RefreshRefused(w)
        PROVE  AttemptsKnown'
    BY <1>t, <1>s, <1>9, RefusedEffect
  <1>10. ASSUME NEW w \in Workers, StoreToken(w)
        PROVE  AttemptsKnown'
    BY <1>t, <1>s, <1>10, StoreEffect
  <1>11. ASSUME NEW r \in Rows, Expire(r)
        PROVE  AttemptsKnown'
    BY <1>t, <1>s, <1>11, ExpireEffect
  <1>12. CASE UNCHANGED vars
    BY <1>t, <1>s, <1>12 DEF vars
  <1> QED
    BY <1>1, <1>2, <1>3, <1>4, <1>5, <1>6, <1>7, <1>8, <1>9, <1>10, <1>11, <1>12
       DEF Next

(* A request that found a row finds it when it writes.                      *)
LEMMA StepSingle ==
  ASSUME Typed, Known, Single, [Next]_vars
  PROVE  Single'
  <1> USE AccountsAssumption, NoAccountFields DEF Single
  <1>t. Stored' = Stored \/ (Stored = {} /\ \E r \in Rows : Stored' = {r})
    BY StoredGrows
  <1>s. UNCHANGED account => Stored' = Stored
    BY DEF Stored
  <1>1. CASE CreateCreatorAccount
    BY <1>t, <1>s, <1>1, CreateEffect
  <1>2. CASE Interrupted
    BY <1>t, <1>s, <1>2, InterruptedEffect
  <1>3. CASE Revoke
    BY <1>t, <1>s, <1>3 DEF Revoke
  <1>4. ASSUME NEW c \in Callbacks, ExchangeCode(c)
        PROVE  Single'
    BY <1>t, <1>s, <1>4, ExchangeEffect
  <1>5. ASSUME NEW c \in Callbacks, FindAccount(c)
        PROVE  Single'
    BY <1>t, <1>s, <1>5, FindEffect
  <1>6. ASSUME NEW c \in Callbacks, ConnectAccount(c)
        PROVE  Single'
    BY <1>t, <1>s, <1>6, ConnectEffect
  <1>7. ASSUME NEW w \in Workers, ReadToken(w)
        PROVE  Single'
    BY <1>t, <1>s, <1>7, ReadEffect
  <1>8. ASSUME NEW w \in Workers, RefreshAccessToken(w)
        PROVE  Single'
    BY <1>t, <1>s, <1>8, RefreshEffect
  <1>9. ASSUME NEW w \in Workers, RefreshRefused(w)
        PROVE  Single'
    BY <1>t, <1>s, <1>9, RefusedEffect
  <1>10. ASSUME NEW w \in Workers, StoreToken(w)
        PROVE  Single'
    BY <1>t, <1>s, <1>10, StoreEffect
  <1>11. ASSUME NEW r \in Rows, Expire(r)
        PROVE  Single'
    BY <1>t, <1>s, <1>11, ExpireEffect
  <1>12. CASE UNCHANGED vars
    BY <1>t, <1>s, <1>12 DEF vars
  <1> QED
    BY <1>1, <1>2, <1>3, <1>4, <1>5, <1>6, <1>7, <1>8, <1>9, <1>10, <1>11, <1>12
       DEF Next

-----------------------------------------------------------------------------
(* Without faults and with one worker: a request holds a refresh token that *)
(* is honoured, and nobody else has it; what is stored is honoured, or the  *)
(* worker is about to replace it.                                           *)
Pending(c) == callback[c].pc \in {"select", "write"} /\ callback[c].answer.refresh # 0

RequestsApart ==
  \A c \in Callbacks : Pending(c) =>
    /\ callback[c].answer.refresh \in honoured
    /\ \A r \in Stored : account[r].refresh # callback[c].answer.refresh
    /\ \A d \in Callbacks : Pending(d) /\ callback[d].answer.refresh = callback[c].answer.refresh => c = d
AttemptsApart ==
  \A c \in Callbacks, w \in Workers : Pending(c) =>
    /\ worker[w].pc = "ask" => worker[w].refresh # callback[c].answer.refresh
    /\ worker[w].pc = "write" => worker[w].answer.refresh # callback[c].answer.refresh
AttemptsHonoured ==
  \A w \in Workers :
    /\ worker[w].pc = "ask" => worker[w].refresh \in honoured
    /\ worker[w].pc = "write" => worker[w].answer.refresh \in honoured \cup {0}
RowsHonoured ==
  \A r \in Stored : account[r].refresh = 0 \/ account[r].refresh \in honoured
     \/ \E w \in Workers : worker[w].pc = "write" /\ worker[w].row = r /\ worker[w].answer.refresh # 0

LEMMA AttemptNumbers ==
  ASSUME Typed, Known, NEW w \in Workers
  PROVE  /\ worker[w].pc = "ask" => worker[w].row \in Stored /\ worker[w].refresh \in 1..issued
         /\ worker[w].pc = "write" => worker[w].answer.refresh \in 0..issued
  BY DEF Known, AttemptsKnown

LEMMA NotNew ==
  ASSUME Typed, Known, NEW w \in Workers, issued' = issued + 1
  PROVE  /\ worker[w].pc = "ask" => worker[w].refresh # issued'
         /\ worker[w].pc = "write" => worker[w].answer.refresh # issued'
  <1>1. issued \in Nat
    BY AccountsAssumption DEF Typed
  <1> QED BY <1>1, AttemptNumbers

(* A new token is no one else's, and a used one is not a request's.         *)
LEMMA StepRequestsApart ==
  ASSUME Typed, Known, Single, NEW only, Workers = {only},
         faults' = 0, AttemptsApart, RequestsApart, [Next]_vars
  PROVE  RequestsApart'
  <1> USE AccountsAssumption, NoAccountFields DEF RequestsApart, AttemptsApart, Pending
  <1>t. /\ faults \in Nat /\ issued \in Nat /\ honoured \subseteq 1..issued
        /\ Stored' = Stored \/ (Stored = {} /\ \E r \in Rows : Stored' = {r})
        /\ Stored \subseteq Rows /\ Stored \subseteq Stored'
        /\ \A r, s \in Stored' : r = s
    BY StoredGrows DEF Typed, Stored, Single
  <1>s. UNCHANGED account => Stored' = Stored
    BY DEF Stored
  <1>k. /\ \A r \in Rows : account[r].refresh \in 0..issued
        /\ \A c \in Callbacks : Pending(c) => callback[c].answer.refresh \in 1..issued
        /\ \A w \in Workers : /\ worker[w].pc = "ask" => worker[w].refresh \in 1..issued
                              /\ worker[w].pc = "write" => worker[w].answer.refresh \in 0..issued
                              /\ worker[w].pc # "idle" => worker[w].row \in Stored
                              /\ worker[w].row # NoRow => worker[w].row \in Rows
    BY DEF Known, RowsKnown, RequestsKnown, AttemptsKnown, Pending, Typed, Attempt
  <1>1. CASE CreateCreatorAccount
    BY <1>t, <1>s, <1>k, <1>1, CreateEffect
  <1>2. CASE Interrupted
    BY <1>t, <1>s, <1>k, <1>2, InterruptedEffect
  <1>3. CASE Revoke
    BY <1>t, <1>s, <1>k, <1>3 DEF Revoke
  <1>4. ASSUME NEW c \in Callbacks, ExchangeCode(c)
        PROVE  RequestsApart'
    BY <1>t, <1>s, <1>k, <1>4, ExchangeEffect
  <1>5. ASSUME NEW c \in Callbacks, FindAccount(c)
        PROVE  RequestsApart'
    BY <1>t, <1>s, <1>k, <1>5, FindEffect
  <1>6. ASSUME NEW c \in Callbacks, ConnectAccount(c)
        PROVE  RequestsApart'
    BY <1>t, <1>s, <1>k, <1>6, ConnectEffect
  <1>7. ASSUME NEW w \in Workers, ReadToken(w)
        PROVE  RequestsApart'
    BY <1>t, <1>s, <1>k, <1>7, ReadEffect
  <1>8. ASSUME NEW w \in Workers, RefreshAccessToken(w)
        PROVE  RequestsApart'
    BY <1>t, <1>s, <1>k, <1>8, RefreshEffect
  <1>9. ASSUME NEW w \in Workers, RefreshRefused(w)
        PROVE  RequestsApart'
    BY <1>t, <1>s, <1>k, <1>9, RefusedEffect
  <1>10. ASSUME NEW w \in Workers, StoreToken(w)
        PROVE  RequestsApart'
    BY <1>t, <1>s, <1>k, <1>10, StoreEffect
  <1>11. ASSUME NEW r \in Rows, Expire(r)
        PROVE  RequestsApart'
    BY <1>t, <1>s, <1>k, <1>11, ExpireEffect
  <1>12. CASE UNCHANGED vars
    BY <1>t, <1>s, <1>k, <1>12 DEF vars
  <1> QED
    BY <1>1, <1>2, <1>3, <1>4, <1>5, <1>6, <1>7, <1>8, <1>9, <1>10, <1>11, <1>12
       DEF Next

(* What a worker asks with is out of the row, and no request has it.       *)
LEMMA StepAttemptsApart ==
  ASSUME Typed, Known, Single, NEW only, Workers = {only},
         faults' = 0, RequestsApart, AttemptsApart, [Next]_vars
  PROVE  AttemptsApart'
  <1> USE AccountsAssumption, NoAccountFields DEF AttemptsApart, RequestsApart, Pending
  <1>t. /\ faults \in Nat /\ issued \in Nat /\ honoured \subseteq 1..issued
        /\ Stored' = Stored \/ (Stored = {} /\ \E r \in Rows : Stored' = {r})
        /\ Stored \subseteq Rows /\ Stored \subseteq Stored'
        /\ \A r, s \in Stored' : r = s
    BY StoredGrows DEF Typed, Stored, Single
  <1>s. UNCHANGED account => Stored' = Stored
    BY DEF Stored
  <1>k. /\ \A r \in Rows : account[r].refresh \in 0..issued
        /\ \A c \in Callbacks : Pending(c) => callback[c].answer.refresh \in 1..issued
        /\ \A w \in Workers : /\ worker[w].pc = "ask" => worker[w].refresh \in 1..issued
                              /\ worker[w].pc = "write" => worker[w].answer.refresh \in 0..issued
                              /\ worker[w].pc # "idle" => worker[w].row \in Stored
                              /\ worker[w].row # NoRow => worker[w].row \in Rows
    BY DEF Known, RowsKnown, RequestsKnown, AttemptsKnown, Pending, Typed, Attempt
  <1>1. CASE CreateCreatorAccount
    BY <1>t, <1>s, <1>k, <1>1, CreateEffect
  <1>2. CASE Interrupted
    BY <1>t, <1>s, <1>k, <1>2, InterruptedEffect
  <1>3. CASE Revoke
    BY <1>t, <1>s, <1>k, <1>3 DEF Revoke
  <1>4. ASSUME NEW c \in Callbacks, ExchangeCode(c)
        PROVE  AttemptsApart'
    <2>1. /\ issued' = issued + 1 /\ UNCHANGED worker
          /\ \A d \in Callbacks \ {c} : callback'[d] = callback[d]
          /\ callback'[c].answer.refresh \in {0, issued'}
      BY <1>4, ExchangeEffect
    <2>2. ASSUME NEW w \in Workers
          PROVE  /\ worker[w].pc = "ask" => worker[w].refresh # issued'
                 /\ worker[w].pc = "write" => worker[w].answer.refresh # issued'
      BY <2>1, NotNew
    <2> QED BY <2>1, <2>2
  <1>5. ASSUME NEW c \in Callbacks, FindAccount(c)
        PROVE  AttemptsApart'
    BY <1>t, <1>s, <1>k, <1>5, FindEffect
  <1>6. ASSUME NEW c \in Callbacks, ConnectAccount(c)
        PROVE  AttemptsApart'
    BY <1>t, <1>s, <1>k, <1>6, ConnectEffect
  <1>7. ASSUME NEW w \in Workers, ReadToken(w)
        PROVE  AttemptsApart'
    BY <1>t, <1>s, <1>k, <1>7, ReadEffect
  <1>8. ASSUME NEW w \in Workers, RefreshAccessToken(w)
        PROVE  AttemptsApart'
    BY <1>t, <1>s, <1>k, <1>8, RefreshEffect
  <1>9. ASSUME NEW w \in Workers, RefreshRefused(w)
        PROVE  AttemptsApart'
    BY <1>t, <1>s, <1>k, <1>9, RefusedEffect
  <1>10. ASSUME NEW w \in Workers, StoreToken(w)
        PROVE  AttemptsApart'
    BY <1>t, <1>s, <1>k, <1>10, StoreEffect
  <1>11. ASSUME NEW r \in Rows, Expire(r)
        PROVE  AttemptsApart'
    BY <1>t, <1>s, <1>k, <1>11, ExpireEffect
  <1>12. CASE UNCHANGED vars
    BY <1>t, <1>s, <1>k, <1>12 DEF vars
  <1> QED
    BY <1>1, <1>2, <1>3, <1>4, <1>5, <1>6, <1>7, <1>8, <1>9, <1>10, <1>11, <1>12
       DEF Next

(* The one worker asks with a token that nobody else retires.              *)
LEMMA StepAttemptsHonoured ==
  ASSUME Typed, Known, Single, NEW only, Workers = {only},
         faults' = 0, RowsHonoured, AttemptsHonoured, [Next]_vars
  PROVE  AttemptsHonoured'
  <1> USE AccountsAssumption, NoAccountFields DEF AttemptsHonoured, RowsHonoured
  <1>t. /\ faults \in Nat /\ issued \in Nat /\ honoured \subseteq 1..issued
        /\ Stored' = Stored \/ (Stored = {} /\ \E r \in Rows : Stored' = {r})
        /\ Stored \subseteq Rows /\ Stored \subseteq Stored'
        /\ \A r, s \in Stored' : r = s
    BY StoredGrows DEF Typed, Stored, Single
  <1>s. UNCHANGED account => Stored' = Stored
    BY DEF Stored
  <1>k. /\ \A r \in Rows : account[r].refresh \in 0..issued
        /\ \A c \in Callbacks : Pending(c) => callback[c].answer.refresh \in 1..issued
        /\ \A w \in Workers : /\ worker[w].pc = "ask" => worker[w].refresh \in 1..issued
                              /\ worker[w].pc = "write" => worker[w].answer.refresh \in 0..issued
                              /\ worker[w].pc # "idle" => worker[w].row \in Stored
                              /\ worker[w].row # NoRow => worker[w].row \in Rows
    BY DEF Known, RowsKnown, RequestsKnown, AttemptsKnown, Pending, Typed, Attempt
  <1>1. CASE CreateCreatorAccount
    BY <1>t, <1>s, <1>k, <1>1, CreateEffect
  <1>2. CASE Interrupted
    BY <1>t, <1>s, <1>k, <1>2, InterruptedEffect
  <1>3. CASE Revoke
    BY <1>t, <1>s, <1>k, <1>3 DEF Revoke
  <1>4. ASSUME NEW c \in Callbacks, ExchangeCode(c)
        PROVE  AttemptsHonoured'
    BY <1>t, <1>s, <1>k, <1>4, ExchangeEffect
  <1>5. ASSUME NEW c \in Callbacks, FindAccount(c)
        PROVE  AttemptsHonoured'
    BY <1>t, <1>s, <1>k, <1>5, FindEffect
  <1>6. ASSUME NEW c \in Callbacks, ConnectAccount(c)
        PROVE  AttemptsHonoured'
    BY <1>t, <1>s, <1>k, <1>6, ConnectEffect
  <1>7. ASSUME NEW w \in Workers, ReadToken(w)
        PROVE  AttemptsHonoured'
    BY <1>t, <1>s, <1>k, <1>7, ReadEffect
  <1>8. ASSUME NEW w \in Workers, RefreshAccessToken(w)
        PROVE  AttemptsHonoured'
    BY <1>t, <1>s, <1>k, <1>8, RefreshEffect
  <1>9. ASSUME NEW w \in Workers, RefreshRefused(w)
        PROVE  AttemptsHonoured'
    BY <1>t, <1>s, <1>k, <1>9, RefusedEffect
  <1>10. ASSUME NEW w \in Workers, StoreToken(w)
        PROVE  AttemptsHonoured'
    BY <1>t, <1>s, <1>k, <1>10, StoreEffect
  <1>11. ASSUME NEW r \in Rows, Expire(r)
        PROVE  AttemptsHonoured'
    BY <1>t, <1>s, <1>k, <1>11, ExpireEffect
  <1>12. CASE UNCHANGED vars
    BY <1>t, <1>s, <1>k, <1>12 DEF vars
  <1> QED
    BY <1>1, <1>2, <1>3, <1>4, <1>5, <1>6, <1>7, <1>8, <1>9, <1>10, <1>11, <1>12
       DEF Next

(* A stored token is retired by the worker that will replace it.           *)
LEMMA StepRowsHonoured ==
  ASSUME Typed, Known, Single, NEW only, Workers = {only},
         faults' = 0, RequestsApart, AttemptsHonoured, RowsHonoured, [Next]_vars
  PROVE  RowsHonoured'
  <1> USE AccountsAssumption, NoAccountFields DEF RowsHonoured, AttemptsHonoured, RequestsApart, Pending
  <1>t. /\ faults \in Nat /\ issued \in Nat /\ honoured \subseteq 1..issued
        /\ Stored' = Stored \/ (Stored = {} /\ \E r \in Rows : Stored' = {r})
        /\ Stored \subseteq Rows /\ Stored \subseteq Stored'
        /\ \A r, s \in Stored' : r = s
    BY StoredGrows DEF Typed, Stored, Single
  <1>s. UNCHANGED account => Stored' = Stored
    BY DEF Stored
  <1>k. /\ \A r \in Rows : account[r].refresh \in 0..issued
        /\ \A c \in Callbacks : Pending(c) => callback[c].answer.refresh \in 1..issued
        /\ \A w \in Workers : /\ worker[w].pc = "ask" => worker[w].refresh \in 1..issued
                              /\ worker[w].pc = "write" => worker[w].answer.refresh \in 0..issued
                              /\ worker[w].pc # "idle" => worker[w].row \in Stored
                              /\ worker[w].row # NoRow => worker[w].row \in Rows
    BY DEF Known, RowsKnown, RequestsKnown, AttemptsKnown, Pending, Typed, Attempt
  <1>1. CASE CreateCreatorAccount
    BY <1>t, <1>s, <1>k, <1>1, CreateEffect
  <1>2. CASE Interrupted
    BY <1>t, <1>s, <1>k, <1>2, InterruptedEffect
  <1>3. CASE Revoke
    BY <1>t, <1>s, <1>k, <1>3 DEF Revoke
  <1>4. ASSUME NEW c \in Callbacks, ExchangeCode(c)
        PROVE  RowsHonoured'
    BY <1>t, <1>s, <1>k, <1>4, ExchangeEffect
  <1>5. ASSUME NEW c \in Callbacks, FindAccount(c)
        PROVE  RowsHonoured'
    BY <1>t, <1>s, <1>k, <1>5, FindEffect
  <1>6. ASSUME NEW c \in Callbacks, ConnectAccount(c)
        PROVE  RowsHonoured'
    BY <1>t, <1>s, <1>k, <1>6, ConnectEffect
  <1>7. ASSUME NEW w \in Workers, ReadToken(w)
        PROVE  RowsHonoured'
    BY <1>t, <1>s, <1>k, <1>7, ReadEffect
  <1>8. ASSUME NEW w \in Workers, RefreshAccessToken(w)
        PROVE  RowsHonoured'
    <2>1. /\ worker[w].pc = "ask" /\ worker[w].row \in Stored /\ UNCHANGED account
          /\ worker'[w].pc = "write" /\ worker'[w].row = worker[w].row
          /\ \/ honoured' = honoured
             \/ /\ worker'[w].answer.refresh # 0
                /\ honoured' = (honoured \ {worker[w].refresh}) \cup {issued'}
      <3>1. issued' # 0
        BY <1>t, <1>8, RefreshEffect
      <3>2. worker[w].pc = "ask" /\ worker[w].row \in Stored
        BY <1>8, RefreshEffect, AttemptNumbers
      <3> QED BY <1>8, <3>1, <3>2, RefreshEffect
    <2>2. \A r \in Stored : account[r].refresh = 0 \/ account[r].refresh \in honoured
      BY <2>1
    <2> QED BY <1>t, <1>s, <1>k, <2>1, <2>2
  <1>9. ASSUME NEW w \in Workers, RefreshRefused(w)
        PROVE  RowsHonoured'
    BY <1>t, <1>s, <1>k, <1>9, RefusedEffect
  <1>10. ASSUME NEW w \in Workers, StoreToken(w)
        PROVE  RowsHonoured'
    BY <1>t, <1>s, <1>k, <1>10, StoreEffect
  <1>11. ASSUME NEW r \in Rows, Expire(r)
        PROVE  RowsHonoured'
    BY <1>t, <1>s, <1>k, <1>11, ExpireEffect
  <1>12. CASE UNCHANGED vars
    BY <1>t, <1>s, <1>k, <1>12 DEF vars
  <1> QED
    BY <1>1, <1>2, <1>3, <1>4, <1>5, <1>6, <1>7, <1>8, <1>9, <1>10, <1>11, <1>12
       DEF Next

-----------------------------------------------------------------------------
Inv == Typed /\ Known /\ Single
Kept == RequestsApart /\ AttemptsApart /\ AttemptsHonoured /\ RowsHonoured

LEMMA InitInv ==
  ASSUME Init
  PROVE  Inv /\ Kept
  <1>1. /\ account \in [Rows -> {NoAccount}] /\ worker \in [Workers -> {Idle}]
        /\ callback \in [Callbacks -> Request]
        /\ \A c \in Callbacks : callback[c].pc = "consent"
        /\ issued = 0 /\ honoured = {} /\ faults = 0
    BY DEF Init, Request, NoAnswer, AnyAnswer
  <1>2. Typed
    BY <1>1, NoAccountFields, AccountsAssumption DEF Typed
  <1>3. Stored = {}
    BY <1>1 DEF Stored
  <1>4. Known /\ Single
    BY <1>1, <1>3, NoAccountFields DEF Known, RowsKnown, RequestsKnown, AttemptsKnown, Single
  <1>5. Kept
    BY <1>1, <1>3, NoAccountFields
    DEF Kept, RequestsApart, AttemptsApart, AttemptsHonoured, RowsHonoured, Pending
  <1> QED BY <1>2, <1>4, <1>5 DEF Inv

LEMMA StepInv ==
  ASSUME Inv, [Next]_vars
  PROVE  Inv'
  <1> QED
    BY StepTyped, StepRowsKnown, StepRequestsKnown, StepAttemptsKnown, StepSingle DEF Inv, Known

LEMMA Invariant == Spec => []Inv
  <1>1. Init => Inv
    BY InitInv
  <1>2. Inv /\ [Next]_vars => Inv'
    BY StepInv
  <1> QED BY <1>1, <1>2, PTL DEF Spec

(* Every token that a row, a request or an attempt holds is one of TikTok's *)
(* answers, and an attempt works on a row that is there.                    *)
THEOREM TypeCorrect == Spec => []TypeOK
  <1>1. Inv => TypeOK
    <2> SUFFICES ASSUME Inv PROVE TypeOK
      OBVIOUS
    <2>t. /\ account \in [Rows -> Row] /\ callback \in [Callbacks -> Request]
          /\ worker \in [Workers -> Attempt] /\ issued \in 0..MaxTokens
          /\ honoured \subseteq 1..issued /\ faults \in 0..MaxFaults
      BY DEF Inv, Typed
    <2>1. account \in [Rows -> [access : 0..issued, refresh : 0..issued, expiry : Expiries]]
      BY <2>t DEF Inv, Known, RowsKnown, Row
    <2>2. ASSUME NEW c \in Callbacks, callback[c].pc # "consent"
          PROVE  callback[c].answer \in UNION {Answers(n) : n \in 1..issued}
      <3>1. /\ callback[c].answer.access \in 1..issued
            /\ callback[c].answer.refresh \in {0, callback[c].answer.access}
            /\ callback[c].answer \in AnyAnswer
        BY <2>t, <2>2 DEF Inv, Known, RequestsKnown, Request
      <3>2. callback[c].answer \in Answers(callback[c].answer.access)
        BY <3>1 DEF Answers, AnyAnswer
      <3> QED BY <3>1, <3>2
    <2>3. \A c \in Callbacks : /\ callback[c].pc \in {"consent", "select", "write", "done"}
                               /\ callback[c].row \in Rows \cup {NoRow}
      BY <2>t DEF Request
    <2>4. \A w \in Workers :
            /\ worker[w].pc \in {"idle", "ask", "write"}
            /\ worker[w].pc = "idle" <=> worker[w] = Idle
            /\ worker[w].pc # "idle" => worker[w].row \in Stored /\ worker[w].refresh \in 1..issued
      BY <2>t DEF Inv, Known, AttemptsKnown, Attempt
    <2> QED BY <2>t, <2>1, <2>2, <2>3, <2>4 DEF TypeOK
  <1> QED BY <1>1, Invariant, PTL

(* A creator's account has one row, whatever look-ups and inserts overlap:  *)
(* of two requests that found none the slower is refused.                   *)
THEOREM AccountIsOne == Spec => []OneAccount
  <1>1. Inv => OneAccount
    <2> SUFFICES ASSUME Inv PROVE OneAccount
      OBVIOUS
    <2>1. \A r, s \in Stored : r = s
      BY DEF Inv, Single
    <2>2. CASE Stored = {}
      BY <2>2, FS_EmptySet DEF OneAccount
    <2>3. CASE Stored # {}
      <3>1. PICK r \in Stored : TRUE
        BY <2>3
      <3>2. Stored = {r}
        BY <2>1, <3>1
      <3>3. Cardinality({r}) = 1
        BY FS_Singleton
      <3> QED BY <3>2, <3>3 DEF OneAccount
    <2> QED BY <2>2, <2>3
  <1> QED BY <1>1, Invariant, PTL

(* With one upload worker a connected account stays connected while nothing *)
(* dies and nothing is withdrawn, whatever is connected again meanwhile and *)
(* whether refreshing rotates the token or not.                             *)
THEOREM ConnectionIsKept ==
  ASSUME IsFiniteSet(Workers)
  PROVE  Spec => []StaysConnected
  <1> DEFINE Undisturbed == faults = 0 /\ Cardinality(Workers) = 1
             I == Inv /\ (Undisturbed => Kept)
  <1>1. Init => I
    BY InitInv
  <1>2. I /\ [Next]_vars => I'
    <2> SUFFICES ASSUME I, [Next]_vars PROVE I'
      OBVIOUS
    <2>1. Inv'
      BY StepInv
    <2>2. ASSUME faults' = 0, Cardinality(Workers) = 1
          PROVE  Kept'
      <3>1. PICK only : Workers = {only}
        BY <2>2, FS_Singleton
      <3>2. faults = 0
        <4>1. faults \in Nat
          BY DEF Inv, Typed
        <4>2. faults' = faults \/ faults' = faults + 1
          BY DEF Next, vars, CreateCreatorAccount, Interrupted, Revoke, ExchangeCode,
                 FindAccount, ConnectAccount, ReadToken, RefreshAccessToken, RefreshRefused,
                 StoreToken, Expire
        <4> QED BY <2>2, <4>1, <4>2
      <3>3. Typed /\ Known /\ Single /\ Kept
        BY <2>2, <3>2 DEF Inv
      <3> QED
        BY <2>2, <3>1, <3>3, StepRequestsApart, StepAttemptsApart, StepAttemptsHonoured,
           StepRowsHonoured DEF Kept
    <2> QED BY <2>1, <2>2
  <1>3. I => StaysConnected
    <2> SUFFICES ASSUME I, Undisturbed PROVE StaysConnected
      BY DEF StaysConnected
    <2> QED BY DEF Kept, RowsHonoured, AttemptsHonoured, StaysConnected
  <1> QED BY <1>1, <1>2, <1>3, PTL DEF Spec
=============================================================================
