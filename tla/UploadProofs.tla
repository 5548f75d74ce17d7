---------------------------- MODULE UploadProofs ----------------------------
(***************************************************************************)
(* Proofs, for every value of the constants, of invariants of Upload and   *)
(* of its implementing DraftDelivery.                                      *)
(***************************************************************************)
EXTENDS Upload, FiniteSetTheorems, TLAPS

RunRecord == [pc : Pcs, left : Nat, draft : Nat]

(* TypeOK, with the types of TikTok's side in full.                         *)
TikTokOK == sent \in [Tasks -> SUBSET Nat] /\ inbox \in [Tasks -> SUBSET Nat]
              /\ refused \in [Tasks -> SUBSET Nat]
Typed == TypeOK /\ TikTokOK

(* An attempt that has a draft works on one that was opened.                *)
WithDraft == {"persist", "send", "poll", "success"}
DraftKnown == \A t \in Tasks : run[t].pc \in WithDraft => run[t].draft > 0

-----------------------------------------------------------------------------
LEMMA GotoEffect ==
  ASSUME run \in [Tasks -> RunRecord], NEW t \in Tasks, NEW pc, Goto(t, pc)
  PROVE  /\ run'[t].pc = pc
         /\ run'[t].draft = run[t].draft
         /\ \A u \in Tasks \ {t} : run'[u] = run[u]
  BY DEF Goto, RunRecord

LEMMA GotoTyped ==
  ASSUME run \in [Tasks -> RunRecord], NEW t \in Tasks, NEW pc \in Pcs, Goto(t, pc)
  PROVE  /\ run' \in [Tasks -> RunRecord]
         /\ \A u \in Tasks : run'[u].draft = run[u].draft
  BY DEF Goto, RunRecord

LEMMA FinishTyped ==
  ASSUME run \in [Tasks -> RunRecord], NEW t \in Tasks, Finish(t)
  PROVE  /\ run' \in [Tasks -> RunRecord]
         /\ run'[t] = Idle
         /\ \A u \in Tasks \ {t} : run'[u] = run[u]
  BY DEF Finish, RunRecord, Idle, Pcs

LEMMA MarkFailedTyped ==
  ASSUME Typed, NEW t \in Tasks, MarkFailed(t)
  PROVE  /\ status' \in [Tasks -> Statuses] /\ audit' \in [Tasks -> SUBSET Events]
         /\ \A u \in Tasks \ {t} : status'[u] = status[u] /\ audit'[u] = audit[u]
         /\ IF Exists(t) THEN status'[t] = "failed" /\ audit'[t] = audit[t] \cup {"failure"}
                         ELSE status'[t] = status[t] /\ audit'[t] = audit[t]
  <1>1. status \in [Tasks -> Statuses] /\ audit \in [Tasks -> SUBSET Events]
    BY DEF Typed, TypeOK
  <1>2. "failed" \in Statuses /\ "failure" \in Events
    BY DEF Statuses, Terminal, Events
  <1>3. CASE Exists(t)
    <2>1. /\ status' = [status EXCEPT ![t] = "failed"]
          /\ audit' = [audit EXCEPT ![t] = @ \cup {"failure"}]
      BY <1>3 DEF MarkFailed
    <2> QED BY <1>1, <1>2, <1>3, <2>1
  <1>4. CASE ~Exists(t)
    BY <1>1, <1>4 DEF MarkFailed
  <1> QED BY <1>3, <1>4

LEMMA NewRun ==
  LET new == [Idle EXCEPT !.pc = "queued", !.left = Retries]
  IN new \in RunRecord /\ new.pc = "queued" /\ new.draft = 0
  BY UploadAssumption DEF Idle, RunRecord, Pcs

(* What is to be shown of a step that leaves TikTok and the clips alone.    *)
LEMMA WorkerTyped ==
  ASSUME Typed, UNCHANGED <<rows, tiktok>>, faults' \in 0..MaxFaults,
         status' \in [Tasks -> Statuses], audit' \in [Tasks -> SUBSET Events],
         publish' \in [Tasks -> Nat], run' \in [Tasks -> RunRecord],
         \A u \in Tasks : publish'[u] \in 0..inits[u] /\ run'[u].draft \in 0..inits[u]
  PROVE  Typed'
  <1>1. UNCHANGED <<latest, approved, clip, of, posting, inits, sent, inbox, refused>>
    BY DEF rows, tiktok
  <1> QED BY <1>1 DEF Typed, TypeOK, TikTokOK, RunRecord

(* What an attempt that dies leaves: a retry, or none and a failed task.    *)
LEMMA RaiseTyped ==
  ASSUME Typed, NEW t \in Tasks, Raise(t)
  PROVE  /\ run' \in [Tasks -> RunRecord]
         /\ \A u \in Tasks \ {t} : run'[u] = run[u] /\ status'[u] = status[u] /\ audit'[u] = audit[u]
         /\ run'[t].draft = 0
         /\ run'[t].pc = IF run[t].left > 0 THEN "parked" ELSE "free"
         /\ status' \in [Tasks -> Statuses] /\ audit' \in [Tasks -> SUBSET Events]
         /\ IF (run[t].left = 0 \/ EagerCallback) /\ Exists(t)
            THEN status'[t] = "failed" /\ audit'[t] = audit[t] \cup {"failure"}
            ELSE status'[t] = status[t] /\ audit'[t] = audit[t]
  <1>1. run[t].left \in Nat /\ run \in [Tasks -> RunRecord]
    BY DEF Typed, TypeOK, RunRecord
  <1>2. /\ run' \in [Tasks -> RunRecord]
        /\ \A u \in Tasks \ {t} : run'[u] = run[u]
        /\ run'[t].draft = 0
        /\ run'[t].pc = IF run[t].left > 0 THEN "parked" ELSE "free"
    BY <1>1, FinishTyped DEF Raise, RunRecord, Idle, Pcs
  <1>3. /\ status \in [Tasks -> Statuses]
        /\ audit \in [Tasks -> SUBSET Events]
    BY DEF Typed, TypeOK
  <1>4. CASE run[t].left = 0 \/ EagerCallback
    BY <1>2, <1>4, MarkFailedTyped DEF Raise
  <1>5. CASE ~(run[t].left = 0 \/ EagerCallback)
    BY <1>2, <1>3, <1>5 DEF Raise
  <1> QED BY <1>4, <1>5

-----------------------------------------------------------------------------
LEMMA InitTyped == Init => Typed
  BY UploadAssumption DEF Init, Typed, TypeOK, TikTokOK, Statuses, Terminal, Events, Pcs, Idle

LEMMA StepTyped == Typed /\ DraftKnown /\ [Next]_vars => Typed'
  <1> SUFFICES ASSUME Typed, DraftKnown, [Next]_vars PROVE Typed'
    OBVIOUS
  <1> USE UploadAssumption
  <1>t. /\ run \in [Tasks -> RunRecord] /\ status \in [Tasks -> Statuses]
        /\ audit \in [Tasks -> SUBSET Events] /\ inits \in [Tasks -> Nat]
        /\ publish \in [Tasks -> Nat] /\ faults \in 0..MaxFaults
    BY DEF Typed, TypeOK, RunRecord
  <1>1. ASSUME NEW c \in Clips, ReviewClip(c) \/ DeleteObject(c)
        PROVE  Typed'
    <2>1. /\ latest' \in [Clips -> {"none", "approved", "rejected"}]
          /\ approved' \subseteq Clips
          /\ clip' \in [Clips -> {"rendered", "fileless", "deleted"}]
      <3>1. CASE ReviewClip(c)
        <4>1. PICK d \in {"approved", "rejected"} :
                /\ latest' = [latest EXCEPT ![c] = d]
                /\ approved' = IF d = "approved" THEN approved \cup {c} ELSE approved
          BY <3>1 DEF ReviewClip
        <4> QED BY <3>1, <4>1 DEF ReviewClip, Typed, TypeOK
      <3>2. CASE DeleteObject(c)
        BY <3>2 DEF DeleteObject, Typed, TypeOK
      <3> QED BY <1>1, <3>1, <3>2
    <2>2. UNCHANGED <<of, posting, status, publish, audit, run, inits, sent, inbox, refused, faults>>
      BY <1>1 DEF ReviewClip, DeleteObject, tiktok
    <2> QED BY <2>1, <2>2 DEF Typed, TypeOK, TikTokOK
  <1>2. ASSUME NEW c \in Clips, DeleteClip(c)
        PROVE  Typed'
    BY <1>2 DEF DeleteClip, Typed, TypeOK, TikTokOK, tiktok, Statuses
  <1>3. ASSUME NEW t \in Tasks, UploadClip(t)
        PROVE  Typed'
    BY <1>3 DEF UploadClip, CreateTask, Typed, TypeOK, TikTokOK, tiktok, Statuses
  <1>4. ASSUME NEW t \in Tasks, EnqueueUpload(t)
        PROVE  Typed'
    <2>1. run' \in [Tasks -> RunRecord] /\ \A u \in Tasks : run'[u].draft \in {run[u].draft, 0}
      BY <1>t, <1>4, NewRun DEF EnqueueUpload
    <2>2. /\ UNCHANGED <<latest, approved, clip, of, status, publish, audit>>
          /\ UNCHANGED <<inits, sent, inbox, refused, faults>>
          /\ posting' \subseteq Tasks
      BY <1>4 DEF EnqueueUpload, tiktok, Typed, TypeOK
    <2> QED BY <1>t, <2>1, <2>2 DEF Typed, TypeOK, TikTokOK, RunRecord
  <1>5. ASSUME NEW t \in Tasks, RequestDies(t)
        PROVE  Typed'
    BY <1>5 DEF RequestDies, Typed, TypeOK, TikTokOK, tiktok
  <1>6. ASSUME NEW t \in Tasks, RunRetry(t) \/ Ack(t) \/ GetToken(t) \/ Rejected(t) \/ PollStatus(t)
        PROVE  Typed'
    <2>1. \/ \E pc \in Pcs : Goto(t, pc)
          \/ Finish(t)
      BY <1>6 DEF RunRetry, Ack, GetToken, Rejected, PollStatus, Pcs, Working, Calling
    <2>2. /\ run' \in [Tasks -> RunRecord]
          /\ \A u \in Tasks : run'[u].draft \in {run[u].draft, 0}
      BY <1>t, <2>1, GotoTyped, FinishTyped DEF Idle
    <2>3. UNCHANGED <<rows, status, publish, audit, tiktok, faults>>
      BY <1>6 DEF RunRetry, Ack, GetToken, Rejected, PollStatus
    <2>4. \A u \in Tasks : publish[u] \in 0..inits[u] /\ run'[u].draft \in 0..inits[u]
      BY <1>t, <2>2 DEF Typed, TypeOK
    <2> QED BY <1>t, <2>2, <2>3, <2>4, WorkerTyped
  <1>7. ASSUME NEW t \in Tasks, Begin(t)
        PROVE  Typed'
    <2>1. /\ run' \in [Tasks -> RunRecord]
          /\ \A u \in Tasks : run'[u].draft \in {run[u].draft, publish[u], 0}
      <3>1. CASE Finish(t)
        BY <1>t, <3>1, FinishTyped DEF Idle
      <3>2. CASE Goto(t, "ack")
        BY <1>t, <3>2, GotoTyped DEF Pcs, Working
      <3>3. CASE run' = [run EXCEPT ![t].pc = "token", ![t].draft = publish[t]]
        BY <1>t, <3>3 DEF RunRecord, Pcs, Working, Calling
      <3> QED BY <1>7, <3>1, <3>2, <3>3 DEF Begin
    <2>2. status' \in [Tasks -> Statuses] /\ audit' \in [Tasks -> SUBSET Events]
      BY <1>t, <1>7 DEF Begin, Statuses, Terminal, Events
    <2>3. UNCHANGED <<rows, publish, tiktok, faults>>
      BY <1>7 DEF Begin
    <2>4. \A u \in Tasks : publish[u] \in 0..inits[u] /\ run'[u].draft \in 0..inits[u]
      BY <1>t, <2>1 DEF Typed, TypeOK
    <2> QED BY <1>t, <2>1, <2>2, <2>3, <2>4, WorkerTyped
  <1>8. ASSUME NEW t \in Tasks, InitUpload(t)
        PROVE  Typed'
    <2>1. /\ run' = [run EXCEPT ![t].pc = "persist", ![t].draft = inits[t] + 1]
          /\ inits[t] + 1 \in Nat /\ "persist" \in Pcs
      BY <1>t, <1>8 DEF InitUpload, Pcs, Working
    <2>2. run' \in [Tasks -> RunRecord]
      BY <1>t, <2>1 DEF RunRecord
    <2> QED
      BY <1>t, <1>8, <2>1, <2>2 DEF InitUpload, Typed, TypeOK, TikTokOK, rows, RunRecord
  <1>9. ASSUME NEW t \in Tasks, InitReplyLost(t)
        PROVE  Typed'
    <2>1. Raise(t) BY <1>9 DEF InitReplyLost
    <2> QED
      BY <1>t, <1>9, <2>1, RaiseTyped DEF InitReplyLost, Typed, TypeOK, TikTokOK, rows, RunRecord
  <1>10. ASSUME NEW t \in Tasks, Interrupted(t) \/ FileGone(t) \/ Unavailable(t)
         PROVE  Typed'
    <2>1. /\ Raise(t) /\ UNCHANGED <<rows, publish, tiktok>>
          /\ faults' \in 0..MaxFaults
      BY <1>t, <1>10 DEF Interrupted, FileGone, Unavailable
    <2>2. \A u \in Tasks : run'[u].draft \in {run[u].draft, 0}
      BY <2>1, RaiseTyped
    <2>3. \A u \in Tasks : publish[u] \in 0..inits[u] /\ run'[u].draft \in 0..inits[u]
      BY <1>t, <2>2 DEF Typed, TypeOK
    <2> QED BY <1>t, <2>1, <2>3, RaiseTyped, WorkerTyped
  <1>11. ASSUME NEW t \in Tasks, PersistPublishId(t)
         PROVE  Typed'
    <2>1. Goto(t, "send") /\ "send" \in Pcs
      BY <1>11 DEF PersistPublishId, Pcs, Working, Calling
    <2>2. publish' \in [Tasks -> Nat] /\ \A u \in Tasks : publish'[u] \in 0..inits[u]
      BY <1>t, <1>11 DEF PersistPublishId, Typed, TypeOK
    <2> QED
      BY <1>t, <1>11, <2>1, <2>2, GotoTyped
      DEF PersistPublishId, Typed, TypeOK, TikTokOK, rows, tiktok, RunRecord
  <1>12. ASSUME NEW t \in Tasks, SendChunks(t)
         PROVE  Typed'
    <2>1. Goto(t, "poll") /\ "poll" \in Pcs
      BY <1>12 DEF SendChunks, Pcs, Working, Calling
    <2>2. run[t].draft \in 1..inits[t]
      BY <1>t, <1>12 DEF SendChunks, DraftKnown, WithDraft, Typed, TypeOK, RunRecord
    <2> QED
      BY <1>t, <1>12, <2>1, <2>2, GotoTyped
      DEF SendChunks, Typed, TypeOK, TikTokOK, rows, RunRecord
  <1>13. ASSUME NEW t \in Tasks, Succeed(t) \/ GiveUp(t)
         PROVE  Typed'
    <2>1. Goto(t, "ack") /\ "ack" \in Pcs
      BY <1>13 DEF Succeed, GiveUp, Pcs, Working
    <2>2. status' \in [Tasks -> Statuses] /\ audit' \in [Tasks -> SUBSET Events]
      BY <1>t, <1>13, MarkFailedTyped DEF Succeed, GiveUp, Statuses, Terminal, Events
    <2>3. UNCHANGED <<rows, publish, tiktok, faults>>
      BY <1>13 DEF Succeed, GiveUp
    <2>4. \A u \in Tasks : publish[u] \in 0..inits[u] /\ run'[u].draft \in 0..inits[u]
      BY <1>t, <2>1, GotoTyped DEF Typed, TypeOK
    <2> QED BY <1>t, <2>1, <2>2, <2>3, <2>4, GotoTyped, WorkerTyped
  <1>14. ASSUME NEW t \in Tasks, Process(t)
         PROVE  Typed'
    <2>1. PICK d \in (1..inits[t]) \ (inbox[t] \cup refused[t]) :
            /\ \/ d \in sent[t] /\ inbox' = [inbox EXCEPT ![t] = @ \cup {d}] /\ UNCHANGED refused
               \/ refused' = [refused EXCEPT ![t] = @ \cup {d}] /\ UNCHANGED inbox
            /\ UNCHANGED <<rows, status, publish, audit, run, inits, sent, faults>>
      BY <1>14 DEF Process
    <2>2. d \in Nat
      BY <1>t
    <2>3. /\ inbox' \in [Tasks -> SUBSET Nat] /\ refused' \in [Tasks -> SUBSET Nat]
          /\ \A u \in Tasks : /\ refused'[u] \subseteq 1..inits[u]
                              /\ inbox'[u] \subseteq sent[u]
                              /\ inbox'[u] \cap refused'[u] = {}
      <3>1. CASE d \in sent[t] /\ inbox' = [inbox EXCEPT ![t] = @ \cup {d}] /\ UNCHANGED refused
        BY <2>1, <2>2, <3>1 DEF Typed, TypeOK, TikTokOK
      <3>2. CASE refused' = [refused EXCEPT ![t] = @ \cup {d}] /\ UNCHANGED inbox
        BY <2>1, <2>2, <3>2 DEF Typed, TypeOK, TikTokOK
      <3> QED BY <2>1, <3>1, <3>2
    <2> QED
      BY <2>1, <2>3 DEF Typed, TypeOK, TikTokOK, rows
  <1>15. CASE UNCHANGED vars
    BY <1>15 DEF vars, rows, tiktok, Typed, TypeOK, TikTokOK
  <1> QED
    BY <1>1, <1>2, <1>3, <1>4, <1>5, <1>6, <1>7, <1>8, <1>9, <1>10, <1>11, <1>12, <1>13,
       <1>14, <1>15 DEF Next, WorkerStep

(* The API's actions, row by row.                                           *)
LEMMA ReviewEffect ==
  ASSUME Typed, NEW c \in Clips, ReviewClip(c) \/ DeleteObject(c)
  PROVE  /\ approved \subseteq approved'
         /\ \A d \in Clips : latest'[d] = "approved" /\ d \notin approved' => latest[d] = "approved"
         /\ UNCHANGED <<of, posting, status, publish, audit, run, inits, sent, inbox, refused, faults>>
  <1>1. CASE ReviewClip(c)
    <2>1. PICK d \in {"approved", "rejected"} :
            /\ latest' = [latest EXCEPT ![c] = d]
            /\ approved' = IF d = "approved" THEN approved \cup {c} ELSE approved
      BY <1>1 DEF ReviewClip
    <2> QED BY <1>1, <2>1 DEF ReviewClip, tiktok, Typed, TypeOK
  <1>2. CASE DeleteObject(c)
    BY <1>2 DEF DeleteObject, tiktok
  <1> QED BY <1>1, <1>2

LEMMA DeleteEffect ==
  ASSUME Typed, NEW c \in Clips, DeleteClip(c)
  PROVE  /\ \A d \in Clips : latest'[d] = "approved" => latest[d] = "approved"
         /\ \A t \in Tasks :
              IF of[t] = c THEN status'[t] = "deleted" /\ publish'[t] = 0 /\ audit'[t] = {}
                           ELSE /\ status'[t] = status[t] /\ publish'[t] = publish[t]
                                /\ audit'[t] = audit[t]
         /\ UNCHANGED <<approved, of, posting, run, inits, sent, inbox, refused, faults>>
  BY DEF DeleteClip, tiktok, Typed, TypeOK

LEMMA UploadClipEffect ==
  ASSUME Typed, NEW t \in Tasks, UploadClip(t)
  PROVE  /\ status[t] = "absent" /\ status'[t] = "queued"
         /\ of'[t] \in Clips /\ latest[of'[t]] = "approved"
         /\ \A u \in Tasks \ {t} : status'[u] = status[u] /\ of'[u] = of[u]
         /\ posting' = posting \cup {t}
         /\ UNCHANGED <<latest, approved, clip, publish, audit, run, inits, sent, inbox, refused, faults>>
  <1>1. PICK c \in Clips : latest[c] = "approved" /\ CreateTask(t, c)
    BY DEF UploadClip
  <1> QED BY <1>1 DEF CreateTask, tiktok, Typed, TypeOK

LEMMA EnqueueEffect ==
  ASSUME Typed, NEW t \in Tasks, EnqueueUpload(t)
  PROVE  /\ t \in posting /\ posting' = posting \ {t}
         /\ run'[t].pc = "queued" /\ run'[t].draft = 0
         /\ \A u \in Tasks \ {t} : run'[u] = run[u]
         /\ UNCHANGED <<latest, approved, clip, of, status, publish, audit>>
         /\ UNCHANGED <<inits, sent, inbox, refused, faults>>
  <1>1. run \in [Tasks -> RunRecord]
    BY DEF Typed, TypeOK, RunRecord
  <1>2. run' = [run EXCEPT ![t] = [Idle EXCEPT !.pc = "queued", !.left = Retries]]
    BY DEF EnqueueUpload
  <1>3. run'[t].pc = "queued" /\ run'[t].draft = 0 /\ \A u \in Tasks \ {t} : run'[u] = run[u]
    BY <1>1, <1>2, NewRun
  <1> QED BY <1>3 DEF EnqueueUpload, tiktok

(* What is in the inbox stays there.                                        *)
LEMMA ProcessEffect ==
  ASSUME Typed, NEW t \in Tasks, Process(t)
  PROVE  /\ \A u \in Tasks : inbox[u] \subseteq inbox'[u]
         /\ UNCHANGED <<rows, status, publish, audit, run, inits, sent, faults>>
  BY DEF Process, Typed, TikTokOK

(* An attempt has a draft from an earlier one, or opens one.                *)
LEMMA GetTokenEffect ==
  ASSUME Typed, NEW t \in Tasks, GetToken(t)
  PROVE  /\ run[t].pc = "token"
         /\ \/ run[t].draft = 0 /\ run'[t].pc = "init"
            \/ run[t].draft # 0 /\ run'[t].pc = "poll"
         /\ run'[t].draft = run[t].draft
         /\ \A u \in Tasks \ {t} : run'[u] = run[u]
         /\ UNCHANGED <<rows, status, publish, audit, tiktok, faults>>
  <1>t. run \in [Tasks -> RunRecord]
    BY DEF Typed, TypeOK, RunRecord
  <1>1. CASE run[t].draft = 0 /\ Goto(t, "init")
    BY <1>t, <1>1, GotoEffect DEF GetToken
  <1>2. CASE run[t].draft # 0 /\ Goto(t, "poll")
    BY <1>t, <1>2, GotoEffect DEF GetToken
  <1> QED BY <1>1, <1>2 DEF GetToken

(* The first transaction of an attempt: no task, no place, or an upload.    *)
LEMMA BeginEffect ==
  ASSUME Typed, NEW t \in Tasks, Begin(t)
  PROVE  /\ run[t].pc = "queued"
         /\ UNCHANGED <<rows, publish, tiktok, faults>>
         /\ \A u \in Tasks \ {t} : run'[u] = run[u] /\ status'[u] = status[u] /\ audit'[u] = audit[u]
         /\ \/ /\ ~Exists(t) /\ run'[t].pc = "free" /\ run'[t].draft = 0
               /\ UNCHANGED <<status, audit>>
            \/ /\ Exists(t) /\ DailyCapReached
               /\ status'[t] = "blocked"
               /\ audit'[t] = audit[t] \cup {"attempt", "blocked"}
               /\ run'[t].pc = "ack" /\ run'[t].draft = run[t].draft
            \/ /\ Exists(t) /\ ~DailyCapReached
               /\ status'[t] = "uploading"
               /\ audit'[t] = audit[t] \cup {"attempt"}
               /\ run'[t].pc = "token" /\ run'[t].draft = publish[t]
  <1>t. /\ run \in [Tasks -> RunRecord] /\ status \in [Tasks -> Statuses]
        /\ audit \in [Tasks -> SUBSET Events]
    BY DEF Typed, TypeOK, RunRecord
  <1>1. CASE ~Exists(t) /\ Finish(t) /\ UNCHANGED <<status, audit>>
    BY <1>t, <1>1, FinishTyped DEF Begin, Idle
  <1>2. CASE /\ Exists(t) /\ DailyCapReached
             /\ status' = [status EXCEPT ![t] = "blocked"]
             /\ audit' = [audit EXCEPT ![t] = @ \cup {"attempt", "blocked"}]
             /\ Goto(t, "ack")
    BY <1>t, <1>2, GotoEffect DEF Begin
  <1>3. CASE /\ Exists(t) /\ ~DailyCapReached
             /\ status' = [status EXCEPT ![t] = "uploading"]
             /\ audit' = [audit EXCEPT ![t] = @ \cup {"attempt"}]
             /\ run' = [run EXCEPT ![t].pc = "token", ![t].draft = publish[t]]
    BY <1>t, <1>3 DEF Begin, RunRecord
  <1> QED BY <1>1, <1>2, <1>3 DEF Begin

-----------------------------------------------------------------------------
(* ReviewedFirst, of every task and not only of those TikTok has heard of:  *)
(* a task is created for an approved clip, and no run or request is there   *)
(* without a task.                                                          *)
Reviewed ==
  /\ \A c \in Clips : latest[c] = "approved" => c \in approved
  /\ \A t \in Tasks : IF status[t] = "absent" THEN of[t] = NoClip ELSE of[t] \in approved
  /\ \A t \in Tasks : t \in posting \/ Live(t) \/ inits[t] > 0 => status[t] # "absent"

(* Of a task that is posted no attempt has been made.                       *)
Posted ==
  \A t \in Tasks : t \in posting => ~Live(t) /\ status[t] \in {"queued", "deleted"}

(* An attempt has said so in the status and in the audit log.               *)
Attempting == Working \ {"ack"}
Begun ==
  \A t \in Tasks :
    /\ run[t].pc \in Attempting /\ Exists(t) => status[t] = "uploading"
    /\ run[t].pc = "ack" => status[t] # "uploading"
    /\ run[t].pc \in Working \/ inits[t] > 0 => (Exists(t) => "attempt" \in audit[t])

(* The draft at hand is the one in the row, and one that was found in the   *)
(* inbox stays there.                                                       *)
Resumable == {"token", "send", "poll", "success"}
Named ==
  \A t \in Tasks :
    /\ run[t].pc \in Resumable /\ Exists(t) => publish[t] = run[t].draft
    /\ run[t].pc = "success" => run[t].draft \in inbox[t]
    /\ status[t] = "uploaded" => publish[t] \in inbox[t]

(* Every draft but one is owed to a fault, or the last one is not forgotten:*)
(* its task is gone, or the row has it, or is about to.                     *)
OneDraft ==
  \A t \in Tasks :
    /\ inits[t] <= faults + 1
    /\ inits[t] <= faults \/ status[t] = "deleted" \/ publish[t] # 0 \/ run[t].pc = "persist"
    /\ run[t].pc = "init" \/ (run[t].pc = "token" /\ run[t].draft = 0) => inits[t] <= faults

(* A task with an outcome is not tried again, but after a fault.            *)
Final ==
  \A t \in Tasks :
    run[t].pc \in {"queued", "parked"} /\ status[t] \in Terminal => faults > 0

-----------------------------------------------------------------------------

(* A run reaches these places with a draft only.                            *)
LEMMA StepDraft ==
  ASSUME Typed, Typed', Named, DraftKnown, [Next]_vars
  PROVE  DraftKnown'
  <1> USE UploadAssumption DEF DraftKnown, WithDraft, Live, Idle
  <1>t. /\ run \in [Tasks -> RunRecord] /\ run' \in [Tasks -> RunRecord]
        /\ status \in [Tasks -> Statuses] /\ audit \in [Tasks -> SUBSET Events]
        /\ inits \in [Tasks -> Nat] /\ publish \in [Tasks -> Nat] /\ faults \in Nat
        /\ \A u \in Tasks : run[u].draft \in Nat
    BY DEF Typed, TypeOK, RunRecord
  <1>1. ASSUME NEW c \in Clips, ReviewClip(c) \/ DeleteObject(c)
        PROVE  DraftKnown'
    BY <1>t, <1>1, ReviewEffect
       DEF rows, tiktok
  <1>2. ASSUME NEW c \in Clips, DeleteClip(c)
        PROVE  DraftKnown'
    BY <1>t, <1>2, DeleteEffect
       DEF rows, tiktok
  <1>3. ASSUME NEW t \in Tasks, UploadClip(t)
        PROVE  DraftKnown'
    BY <1>t, <1>3, UploadClipEffect
       DEF rows, tiktok
  <1>4. ASSUME NEW t \in Tasks, EnqueueUpload(t)
        PROVE  DraftKnown'
    BY <1>t, <1>4, EnqueueEffect
       DEF rows, tiktok
  <1>5. ASSUME NEW t \in Tasks, RequestDies(t)
        PROVE  DraftKnown'
    BY <1>t, <1>5
       DEF RequestDies, tiktok
  <1>6. ASSUME NEW t \in Tasks, RunRetry(t)
        PROVE  DraftKnown'
    BY <1>t, <1>6, GotoEffect
       DEF RunRetry, rows, tiktok
  <1>7. ASSUME NEW t \in Tasks, Ack(t)
        PROVE  DraftKnown'
    BY <1>t, <1>7, FinishTyped
       DEF Ack, rows, tiktok
  <1>8. ASSUME NEW t \in Tasks, GetToken(t)
        PROVE  DraftKnown'
    BY <1>t, <1>8, GetTokenEffect
       DEF rows, tiktok
  <1>9. ASSUME NEW t \in Tasks, Rejected(t)
        PROVE  DraftKnown'
    BY <1>t, <1>9, GotoEffect
       DEF Rejected, Calling, rows, tiktok
  <1>10. ASSUME NEW t \in Tasks, PollStatus(t)
        PROVE  DraftKnown'
    BY <1>t, <1>10, GotoEffect
       DEF PollStatus, rows, tiktok
  <1>11. ASSUME NEW t \in Tasks, Begin(t)
        PROVE  DraftKnown'
    BY <1>t, <1>11, BeginEffect
       DEF rows, tiktok
  <1>12. ASSUME NEW t \in Tasks, InitUpload(t)
        PROVE  DraftKnown'
    BY <1>t, <1>12
       DEF InitUpload, rows
  <1>13. ASSUME NEW t \in Tasks, InitReplyLost(t)
        PROVE  DraftKnown'
    BY <1>t, <1>13, RaiseTyped
       DEF InitReplyLost, rows
  <1>14. ASSUME NEW t \in Tasks, Interrupted(t) \/ FileGone(t) \/ Unavailable(t)
        PROVE  DraftKnown'
    BY <1>t, <1>14, RaiseTyped
       DEF Interrupted, FileGone, Unavailable, Calling, rows, tiktok
  <1>15. ASSUME NEW t \in Tasks, PersistPublishId(t)
        PROVE  DraftKnown'
    BY <1>t, <1>15, GotoEffect
       DEF PersistPublishId, rows, tiktok
  <1>16. ASSUME NEW t \in Tasks, SendChunks(t)
        PROVE  DraftKnown'
    BY <1>t, <1>16, GotoEffect
       DEF SendChunks, rows
  <1>17. ASSUME NEW t \in Tasks, Succeed(t)
        PROVE  DraftKnown'
    BY <1>t, <1>17, GotoEffect
       DEF Succeed, rows, tiktok
  <1>18. ASSUME NEW t \in Tasks, GiveUp(t)
        PROVE  DraftKnown'
    BY <1>t, <1>18, GotoEffect, MarkFailedTyped
       DEF GiveUp, rows, tiktok
  <1>19. ASSUME NEW t \in Tasks, Process(t)
        PROVE  DraftKnown'
    BY <1>t, <1>19, ProcessEffect
       DEF rows, tiktok
  <1>20. CASE UNCHANGED vars
    BY <1>20 DEF vars, rows, tiktok
  <1> QED
    BY <1>1, <1>2, <1>3, <1>4, <1>5, <1>6, <1>7, <1>8, <1>9, <1>10, <1>11, <1>12,
       <1>13, <1>14, <1>15, <1>16, <1>17, <1>18, <1>19, <1>20
       DEF Next, WorkerStep

(* Nothing takes an approval back that was ever given.                      *)
LEMMA StepReviewed ==
  ASSUME Typed, Typed', Named, Reviewed, [Next]_vars
  PROVE  Reviewed'
  <1> USE UploadAssumption DEF Reviewed, Live, Exists, Idle
  <1>t. /\ run \in [Tasks -> RunRecord] /\ run' \in [Tasks -> RunRecord]
        /\ status \in [Tasks -> Statuses] /\ audit \in [Tasks -> SUBSET Events]
        /\ inits \in [Tasks -> Nat] /\ publish \in [Tasks -> Nat] /\ faults \in Nat
        /\ \A u \in Tasks : run[u].draft \in Nat
    BY DEF Typed, TypeOK, RunRecord
  <1>1. ASSUME NEW c \in Clips, ReviewClip(c) \/ DeleteObject(c)
        PROVE  Reviewed'
    BY <1>t, <1>1, ReviewEffect
       DEF rows, tiktok
  <1>2. ASSUME NEW c \in Clips, DeleteClip(c)
        PROVE  Reviewed'
    BY <1>t, <1>2, DeleteEffect
       DEF rows, tiktok
  <1>3. ASSUME NEW t \in Tasks, UploadClip(t)
        PROVE  Reviewed'
    BY <1>t, <1>3, UploadClipEffect
       DEF rows, tiktok
  <1>4. ASSUME NEW t \in Tasks, EnqueueUpload(t)
        PROVE  Reviewed'
    BY <1>t, <1>4, EnqueueEffect
       DEF rows, tiktok
  <1>5. ASSUME NEW t \in Tasks, RequestDies(t)
        PROVE  Reviewed'
    BY <1>t, <1>5
       DEF RequestDies, tiktok
  <1>6. ASSUME NEW t \in Tasks, RunRetry(t)
        PROVE  Reviewed'
    BY <1>t, <1>6, GotoEffect
       DEF RunRetry, rows, tiktok
  <1>7. ASSUME NEW t \in Tasks, Ack(t)
        PROVE  Reviewed'
    BY <1>t, <1>7, FinishTyped
       DEF Ack, rows, tiktok
  <1>8. ASSUME NEW t \in Tasks, GetToken(t)
        PROVE  Reviewed'
    BY <1>t, <1>8, GetTokenEffect
       DEF rows, tiktok
  <1>9. ASSUME NEW t \in Tasks, Rejected(t)
        PROVE  Reviewed'
    BY <1>t, <1>9, GotoEffect
       DEF Rejected, Calling, rows, tiktok
  <1>10. ASSUME NEW t \in Tasks, PollStatus(t)
        PROVE  Reviewed'
    BY <1>t, <1>10, GotoEffect
       DEF PollStatus, rows, tiktok
  <1>11. ASSUME NEW t \in Tasks, Begin(t)
        PROVE  Reviewed'
    BY <1>t, <1>11, BeginEffect
       DEF rows, tiktok
  <1>12. ASSUME NEW t \in Tasks, InitUpload(t)
        PROVE  Reviewed'
    BY <1>t, <1>12
       DEF InitUpload, rows
  <1>13. ASSUME NEW t \in Tasks, InitReplyLost(t)
        PROVE  Reviewed'
    BY <1>t, <1>13, RaiseTyped
       DEF InitReplyLost, rows
  <1>14. ASSUME NEW t \in Tasks, Interrupted(t) \/ FileGone(t) \/ Unavailable(t)
        PROVE  Reviewed'
    BY <1>t, <1>14, RaiseTyped
       DEF Interrupted, FileGone, Unavailable, Calling, rows, tiktok
  <1>15. ASSUME NEW t \in Tasks, PersistPublishId(t)
        PROVE  Reviewed'
    BY <1>t, <1>15, GotoEffect
       DEF PersistPublishId, rows, tiktok
  <1>16. ASSUME NEW t \in Tasks, SendChunks(t)
        PROVE  Reviewed'
    BY <1>t, <1>16, GotoEffect
       DEF SendChunks, rows
  <1>17. ASSUME NEW t \in Tasks, Succeed(t)
        PROVE  Reviewed'
    BY <1>t, <1>17, GotoEffect
       DEF Succeed, rows, tiktok
  <1>18. ASSUME NEW t \in Tasks, GiveUp(t)
        PROVE  Reviewed'
    BY <1>t, <1>18, GotoEffect, MarkFailedTyped
       DEF GiveUp, rows, tiktok
  <1>19. ASSUME NEW t \in Tasks, Process(t)
        PROVE  Reviewed'
    BY <1>t, <1>19, ProcessEffect
       DEF rows, tiktok
  <1>20. CASE UNCHANGED vars
    BY <1>20 DEF vars, rows, tiktok
  <1> QED
    BY <1>1, <1>2, <1>3, <1>4, <1>5, <1>6, <1>7, <1>8, <1>9, <1>10, <1>11, <1>12,
       <1>13, <1>14, <1>15, <1>16, <1>17, <1>18, <1>19, <1>20
       DEF Next, WorkerStep

(* A task is posted once, when it is created.                               *)
LEMMA StepPosted ==
  ASSUME Typed, Typed', Reviewed, Posted, [Next]_vars
  PROVE  Posted'
  <1> USE UploadAssumption DEF Posted, Reviewed, Live, Exists, Idle
  <1>t. /\ run \in [Tasks -> RunRecord] /\ run' \in [Tasks -> RunRecord]
        /\ status \in [Tasks -> Statuses] /\ audit \in [Tasks -> SUBSET Events]
        /\ inits \in [Tasks -> Nat] /\ publish \in [Tasks -> Nat] /\ faults \in Nat
        /\ \A u \in Tasks : run[u].draft \in Nat
    BY DEF Typed, TypeOK, RunRecord
  <1>1. ASSUME NEW c \in Clips, ReviewClip(c) \/ DeleteObject(c)
        PROVE  Posted'
    BY <1>t, <1>1, ReviewEffect
       DEF rows, tiktok
  <1>2. ASSUME NEW c \in Clips, DeleteClip(c)
        PROVE  Posted'
    BY <1>t, <1>2, DeleteEffect
       DEF rows, tiktok
  <1>3. ASSUME NEW t \in Tasks, UploadClip(t)
        PROVE  Posted'
    BY <1>t, <1>3, UploadClipEffect
       DEF rows, tiktok
  <1>4. ASSUME NEW t \in Tasks, EnqueueUpload(t)
        PROVE  Posted'
    BY <1>t, <1>4, EnqueueEffect
       DEF rows, tiktok
  <1>5. ASSUME NEW t \in Tasks, RequestDies(t)
        PROVE  Posted'
    BY <1>t, <1>5
       DEF RequestDies, tiktok
  <1>6. ASSUME NEW t \in Tasks, RunRetry(t)
        PROVE  Posted'
    BY <1>t, <1>6, GotoEffect
       DEF RunRetry, rows, tiktok
  <1>7. ASSUME NEW t \in Tasks, Ack(t)
        PROVE  Posted'
    BY <1>t, <1>7, FinishTyped
       DEF Ack, rows, tiktok
  <1>8. ASSUME NEW t \in Tasks, GetToken(t)
        PROVE  Posted'
    BY <1>t, <1>8, GetTokenEffect
       DEF rows, tiktok
  <1>9. ASSUME NEW t \in Tasks, Rejected(t)
        PROVE  Posted'
    BY <1>t, <1>9, GotoEffect
       DEF Rejected, Calling, rows, tiktok
  <1>10. ASSUME NEW t \in Tasks, PollStatus(t)
        PROVE  Posted'
    BY <1>t, <1>10, GotoEffect
       DEF PollStatus, rows, tiktok
  <1>11. ASSUME NEW t \in Tasks, Begin(t)
        PROVE  Posted'
    BY <1>t, <1>11, BeginEffect
       DEF rows, tiktok
  <1>12. ASSUME NEW t \in Tasks, InitUpload(t)
        PROVE  Posted'
    BY <1>t, <1>12
       DEF InitUpload, rows
  <1>13. ASSUME NEW t \in Tasks, InitReplyLost(t)
        PROVE  Posted'
    BY <1>t, <1>13, RaiseTyped
       DEF InitReplyLost, rows
  <1>14. ASSUME NEW t \in Tasks, Interrupted(t) \/ FileGone(t) \/ Unavailable(t)
        PROVE  Posted'
    BY <1>t, <1>14, RaiseTyped
       DEF Interrupted, FileGone, Unavailable, Calling, rows, tiktok
  <1>15. ASSUME NEW t \in Tasks, PersistPublishId(t)
        PROVE  Posted'
    BY <1>t, <1>15, GotoEffect
       DEF PersistPublishId, rows, tiktok
  <1>16. ASSUME NEW t \in Tasks, SendChunks(t)
        PROVE  Posted'
    BY <1>t, <1>16, GotoEffect
       DEF SendChunks, rows
  <1>17. ASSUME NEW t \in Tasks, Succeed(t)
        PROVE  Posted'
    BY <1>t, <1>17, GotoEffect
       DEF Succeed, rows, tiktok
  <1>18. ASSUME NEW t \in Tasks, GiveUp(t)
        PROVE  Posted'
    BY <1>t, <1>18, GotoEffect, MarkFailedTyped
       DEF GiveUp, rows, tiktok
  <1>19. ASSUME NEW t \in Tasks, Process(t)
        PROVE  Posted'
    BY <1>t, <1>19, ProcessEffect
       DEF rows, tiktok
  <1>20. CASE UNCHANGED vars
    BY <1>20 DEF vars, rows, tiktok
  <1> QED
    BY <1>1, <1>2, <1>3, <1>4, <1>5, <1>6, <1>7, <1>8, <1>9, <1>10, <1>11, <1>12,
       <1>13, <1>14, <1>15, <1>16, <1>17, <1>18, <1>19, <1>20
       DEF Next, WorkerStep

(* Every attempt passes through Begin, and its end through the status.      *)
LEMMA StepBegun ==
  ASSUME Typed, Typed', Reviewed, Posted, Begun, [Next]_vars
  PROVE  Begun'
  <1> USE UploadAssumption DEF Begun, Attempting, Working, Calling, Live, Exists, Idle
  <1>t. /\ run \in [Tasks -> RunRecord] /\ run' \in [Tasks -> RunRecord]
        /\ status \in [Tasks -> Statuses] /\ audit \in [Tasks -> SUBSET Events]
        /\ inits \in [Tasks -> Nat] /\ publish \in [Tasks -> Nat] /\ faults \in Nat
        /\ \A u \in Tasks : run[u].draft \in Nat
    BY DEF Typed, TypeOK, RunRecord
  <1>1. ASSUME NEW c \in Clips, ReviewClip(c) \/ DeleteObject(c)
        PROVE  Begun'
    BY <1>t, <1>1, ReviewEffect
       DEF rows, tiktok
  <1>2. ASSUME NEW c \in Clips, DeleteClip(c)
        PROVE  Begun'
    BY <1>t, <1>2, DeleteEffect
       DEF rows, tiktok
  <1>3. ASSUME NEW t \in Tasks, UploadClip(t)
        PROVE  Begun'
    <2>1. run[t].pc = "free" /\ inits[t] = 0
      BY <1>t, <1>3, UploadClipEffect DEF Reviewed, Live
    <2> QED
      BY <1>t, <1>3, <2>1, UploadClipEffect DEF rows, tiktok
  <1>4. ASSUME NEW t \in Tasks, EnqueueUpload(t)
        PROVE  Begun'
    BY <1>t, <1>4, EnqueueEffect
       DEF rows, tiktok
  <1>5. ASSUME NEW t \in Tasks, RequestDies(t)
        PROVE  Begun'
    BY <1>t, <1>5
       DEF RequestDies, tiktok
  <1>6. ASSUME NEW t \in Tasks, RunRetry(t)
        PROVE  Begun'
    BY <1>t, <1>6, GotoEffect
       DEF RunRetry, rows, tiktok
  <1>7. ASSUME NEW t \in Tasks, Ack(t)
        PROVE  Begun'
    BY <1>t, <1>7, FinishTyped
       DEF Ack, rows, tiktok
  <1>8. ASSUME NEW t \in Tasks, GetToken(t)
        PROVE  Begun'
    BY <1>t, <1>8, GetTokenEffect
       DEF rows, tiktok
  <1>9. ASSUME NEW t \in Tasks, Rejected(t)
        PROVE  Begun'
    BY <1>t, <1>9, GotoEffect
       DEF Rejected, Calling, rows, tiktok
  <1>10. ASSUME NEW t \in Tasks, PollStatus(t)
        PROVE  Begun'
    BY <1>t, <1>10, GotoEffect
       DEF PollStatus, rows, tiktok
  <1>11. ASSUME NEW t \in Tasks, Begin(t)
        PROVE  Begun'
    BY <1>t, <1>11, BeginEffect
       DEF rows, tiktok
  <1>12. ASSUME NEW t \in Tasks, InitUpload(t)
        PROVE  Begun'
    BY <1>t, <1>12
       DEF InitUpload, rows
  <1>13. ASSUME NEW t \in Tasks, InitReplyLost(t)
        PROVE  Begun'
    BY <1>t, <1>13, RaiseTyped
       DEF InitReplyLost, rows
  <1>14. ASSUME NEW t \in Tasks, Interrupted(t) \/ FileGone(t) \/ Unavailable(t)
        PROVE  Begun'
    BY <1>t, <1>14, RaiseTyped
       DEF Interrupted, FileGone, Unavailable, Calling, rows, tiktok
  <1>15. ASSUME NEW t \in Tasks, PersistPublishId(t)
        PROVE  Begun'
    BY <1>t, <1>15, GotoEffect
       DEF PersistPublishId, rows, tiktok
  <1>16. ASSUME NEW t \in Tasks, SendChunks(t)
        PROVE  Begun'
    BY <1>t, <1>16, GotoEffect
       DEF SendChunks, rows
  <1>17. ASSUME NEW t \in Tasks, Succeed(t)
        PROVE  Begun'
    BY <1>t, <1>17, GotoEffect
       DEF Succeed, rows, tiktok
  <1>18. ASSUME NEW t \in Tasks, GiveUp(t)
        PROVE  Begun'
    BY <1>t, <1>18, GotoEffect, MarkFailedTyped
       DEF GiveUp, rows, tiktok
  <1>19. ASSUME NEW t \in Tasks, Process(t)
        PROVE  Begun'
    BY <1>t, <1>19, ProcessEffect
       DEF rows, tiktok
  <1>20. CASE UNCHANGED vars
    BY <1>20 DEF vars, rows, tiktok
  <1> QED
    BY <1>1, <1>2, <1>3, <1>4, <1>5, <1>6, <1>7, <1>8, <1>9, <1>10, <1>11, <1>12,
       <1>13, <1>14, <1>15, <1>16, <1>17, <1>18, <1>19, <1>20
       DEF Next, WorkerStep

(* Only an attempt at a task writes its draft.                              *)
LEMMA StepNamed ==
  ASSUME Typed, Typed', Reviewed, Begun, Named, [Next]_vars
  PROVE  Named'
  <1> USE UploadAssumption DEF Named, Begun, Attempting, Working, Calling, Resumable, Live, Exists, Idle
  <1>t. /\ run \in [Tasks -> RunRecord] /\ run' \in [Tasks -> RunRecord]
        /\ status \in [Tasks -> Statuses] /\ audit \in [Tasks -> SUBSET Events]
        /\ inits \in [Tasks -> Nat] /\ publish \in [Tasks -> Nat] /\ faults \in Nat
        /\ \A u \in Tasks : run[u].draft \in Nat
    BY DEF Typed, TypeOK, RunRecord
  <1>1. ASSUME NEW c \in Clips, ReviewClip(c) \/ DeleteObject(c)
        PROVE  Named'
    BY <1>t, <1>1, ReviewEffect
       DEF rows, tiktok
  <1>2. ASSUME NEW c \in Clips, DeleteClip(c)
        PROVE  Named'
    BY <1>t, <1>2, DeleteEffect
       DEF rows, tiktok
  <1>3. ASSUME NEW t \in Tasks, UploadClip(t)
        PROVE  Named'
    <2>1. run[t].pc = "free" /\ inits[t] = 0
      BY <1>t, <1>3, UploadClipEffect DEF Reviewed, Live
    <2> QED
      BY <1>t, <1>3, <2>1, UploadClipEffect DEF rows, tiktok
  <1>4. ASSUME NEW t \in Tasks, EnqueueUpload(t)
        PROVE  Named'
    BY <1>t, <1>4, EnqueueEffect
       DEF rows, tiktok
  <1>5. ASSUME NEW t \in Tasks, RequestDies(t)
        PROVE  Named'
    BY <1>t, <1>5
       DEF RequestDies, tiktok
  <1>6. ASSUME NEW t \in Tasks, RunRetry(t)
        PROVE  Named'
    BY <1>t, <1>6, GotoEffect
       DEF RunRetry, rows, tiktok
  <1>7. ASSUME NEW t \in Tasks, Ack(t)
        PROVE  Named'
    BY <1>t, <1>7, FinishTyped
       DEF Ack, rows, tiktok
  <1>8. ASSUME NEW t \in Tasks, GetToken(t)
        PROVE  Named'
    BY <1>t, <1>8, GetTokenEffect
       DEF rows, tiktok
  <1>9. ASSUME NEW t \in Tasks, Rejected(t)
        PROVE  Named'
    BY <1>t, <1>9, GotoEffect
       DEF Rejected, Calling, rows, tiktok
  <1>10. ASSUME NEW t \in Tasks, PollStatus(t)
        PROVE  Named'
    BY <1>t, <1>10, GotoEffect
       DEF PollStatus, rows, tiktok
  <1>11. ASSUME NEW t \in Tasks, Begin(t)
        PROVE  Named'
    BY <1>t, <1>11, BeginEffect
       DEF rows, tiktok
  <1>12. ASSUME NEW t \in Tasks, InitUpload(t)
        PROVE  Named'
    BY <1>t, <1>12
       DEF InitUpload, rows
  <1>13. ASSUME NEW t \in Tasks, InitReplyLost(t)
        PROVE  Named'
    BY <1>t, <1>13, RaiseTyped
       DEF InitReplyLost, rows
  <1>14. ASSUME NEW t \in Tasks, Interrupted(t) \/ FileGone(t) \/ Unavailable(t)
        PROVE  Named'
    BY <1>t, <1>14, RaiseTyped
       DEF Interrupted, FileGone, Unavailable, Calling, rows, tiktok
  <1>15. ASSUME NEW t \in Tasks, PersistPublishId(t)
        PROVE  Named'
    BY <1>t, <1>15, GotoEffect
       DEF PersistPublishId, rows, tiktok
  <1>16. ASSUME NEW t \in Tasks, SendChunks(t)
        PROVE  Named'
    BY <1>t, <1>16, GotoEffect
       DEF SendChunks, rows
  <1>17. ASSUME NEW t \in Tasks, Succeed(t)
        PROVE  Named'
    BY <1>t, <1>17, GotoEffect
       DEF Succeed, rows, tiktok
  <1>18. ASSUME NEW t \in Tasks, GiveUp(t)
        PROVE  Named'
    BY <1>t, <1>18, GotoEffect, MarkFailedTyped
       DEF GiveUp, rows, tiktok
  <1>19. ASSUME NEW t \in Tasks, Process(t)
        PROVE  Named'
    BY <1>t, <1>19, ProcessEffect
       DEF rows, tiktok
  <1>20. CASE UNCHANGED vars
    BY <1>20 DEF vars, rows, tiktok
  <1> QED
    BY <1>1, <1>2, <1>3, <1>4, <1>5, <1>6, <1>7, <1>8, <1>9, <1>10, <1>11, <1>12,
       <1>13, <1>14, <1>15, <1>16, <1>17, <1>18, <1>19, <1>20
       DEF Next, WorkerStep

(* A second draft is opened when the first attempt is gone without trace.   *)
LEMMA StepOneDraft ==
  ASSUME Typed, Typed', Reviewed, Posted, DraftKnown, OneDraft, [Next]_vars
  PROVE  OneDraft'
  <1> USE UploadAssumption DEF OneDraft, Live, Exists, Idle
  <1>t. /\ run \in [Tasks -> RunRecord] /\ run' \in [Tasks -> RunRecord]
        /\ status \in [Tasks -> Statuses] /\ audit \in [Tasks -> SUBSET Events]
        /\ inits \in [Tasks -> Nat] /\ publish \in [Tasks -> Nat] /\ faults \in Nat
        /\ \A u \in Tasks : run[u].draft \in Nat
    BY DEF Typed, TypeOK, RunRecord
  <1>1. ASSUME NEW c \in Clips, ReviewClip(c) \/ DeleteObject(c)
        PROVE  OneDraft'
    BY <1>t, <1>1, ReviewEffect
       DEF rows, tiktok
  <1>2. ASSUME NEW c \in Clips, DeleteClip(c)
        PROVE  OneDraft'
    BY <1>t, <1>2, DeleteEffect
       DEF rows, tiktok
  <1>3. ASSUME NEW t \in Tasks, UploadClip(t)
        PROVE  OneDraft'
    BY <1>t, <1>3, UploadClipEffect
       DEF rows, tiktok
  <1>4. ASSUME NEW t \in Tasks, EnqueueUpload(t)
        PROVE  OneDraft'
    <2>1. t \in posting /\ run[t].pc = "free" /\ status[t] \in {"queued", "deleted"}
      BY <1>4, EnqueueEffect DEF Posted, Live
    <2> QED
      BY <1>t, <1>4, <2>1, EnqueueEffect DEF rows, tiktok
  <1>5. ASSUME NEW t \in Tasks, RequestDies(t)
        PROVE  OneDraft'
    BY <1>t, <1>5
       DEF RequestDies, tiktok
  <1>6. ASSUME NEW t \in Tasks, RunRetry(t)
        PROVE  OneDraft'
    BY <1>t, <1>6, GotoEffect
       DEF RunRetry, rows, tiktok
  <1>7. ASSUME NEW t \in Tasks, Ack(t)
        PROVE  OneDraft'
    BY <1>t, <1>7, FinishTyped
       DEF Ack, rows, tiktok
  <1>8. ASSUME NEW t \in Tasks, GetToken(t)
        PROVE  OneDraft'
    BY <1>t, <1>8, GetTokenEffect
       DEF rows, tiktok
  <1>9. ASSUME NEW t \in Tasks, Rejected(t)
        PROVE  OneDraft'
    BY <1>t, <1>9, GotoEffect
       DEF Rejected, Calling, rows, tiktok
  <1>10. ASSUME NEW t \in Tasks, PollStatus(t)
        PROVE  OneDraft'
    BY <1>t, <1>10, GotoEffect
       DEF PollStatus, rows, tiktok
  <1>11. ASSUME NEW t \in Tasks, Begin(t)
        PROVE  OneDraft'
    BY <1>t, <1>11, BeginEffect
       DEF rows, tiktok
  <1>12. ASSUME NEW t \in Tasks, InitUpload(t)
        PROVE  OneDraft'
    BY <1>t, <1>12
       DEF InitUpload, rows
  <1>13. ASSUME NEW t \in Tasks, InitReplyLost(t)
        PROVE  OneDraft'
    BY <1>t, <1>13, RaiseTyped
       DEF InitReplyLost, rows
  <1>14. ASSUME NEW t \in Tasks, Interrupted(t) \/ FileGone(t) \/ Unavailable(t)
        PROVE  OneDraft'
    BY <1>t, <1>14, RaiseTyped
       DEF Interrupted, FileGone, Unavailable, Calling, rows, tiktok
  <1>15. ASSUME NEW t \in Tasks, PersistPublishId(t)
        PROVE  OneDraft'
    <2>1. /\ run[t].pc = "persist" /\ run[t].draft > 0
      BY <1>15 DEF PersistPublishId, DraftKnown, WithDraft
    <2>2. status[t] # "absent"
      BY <2>1 DEF Reviewed, Live
    <2>3. status[t] # "deleted" => publish'[t] = run[t].draft
      BY <1>t, <1>15, <2>2 DEF PersistPublishId
    <2> QED
      BY <1>t, <1>15, <2>1, <2>3, GotoEffect DEF PersistPublishId, rows, tiktok
  <1>16. ASSUME NEW t \in Tasks, SendChunks(t)
        PROVE  OneDraft'
    BY <1>t, <1>16, GotoEffect
       DEF SendChunks, rows
  <1>17. ASSUME NEW t \in Tasks, Succeed(t)
        PROVE  OneDraft'
    BY <1>t, <1>17, GotoEffect
       DEF Succeed, rows, tiktok
  <1>18. ASSUME NEW t \in Tasks, GiveUp(t)
        PROVE  OneDraft'
    BY <1>t, <1>18, GotoEffect, MarkFailedTyped
       DEF GiveUp, rows, tiktok
  <1>19. ASSUME NEW t \in Tasks, Process(t)
        PROVE  OneDraft'
    BY <1>t, <1>19, ProcessEffect
       DEF rows, tiktok
  <1>20. CASE UNCHANGED vars
    BY <1>20 DEF vars, rows, tiktok
  <1> QED
    BY <1>1, <1>2, <1>3, <1>4, <1>5, <1>6, <1>7, <1>8, <1>9, <1>10, <1>11, <1>12,
       <1>13, <1>14, <1>15, <1>16, <1>17, <1>18, <1>19, <1>20
       DEF Next, WorkerStep

(* Without a fault only an attempt that has no outcome is tried again.      *)
LEMMA StepFinal ==
  ASSUME Typed, Typed', Reviewed, Posted, Begun, ~EagerCallback, Final, [Next]_vars
  PROVE  Final'
  <1> USE UploadAssumption DEF Final, Attempting, Terminal, Live, Exists, Idle
  <1>t. /\ run \in [Tasks -> RunRecord] /\ run' \in [Tasks -> RunRecord]
        /\ status \in [Tasks -> Statuses] /\ audit \in [Tasks -> SUBSET Events]
        /\ inits \in [Tasks -> Nat] /\ publish \in [Tasks -> Nat] /\ faults \in Nat
        /\ \A u \in Tasks : run[u].draft \in Nat
    BY DEF Typed, TypeOK, RunRecord
  <1>1. ASSUME NEW c \in Clips, ReviewClip(c) \/ DeleteObject(c)
        PROVE  Final'
    BY <1>t, <1>1, ReviewEffect
       DEF rows, tiktok
  <1>2. ASSUME NEW c \in Clips, DeleteClip(c)
        PROVE  Final'
    BY <1>t, <1>2, DeleteEffect
       DEF rows, tiktok
  <1>3. ASSUME NEW t \in Tasks, UploadClip(t)
        PROVE  Final'
    BY <1>t, <1>3, UploadClipEffect
       DEF rows, tiktok
  <1>4. ASSUME NEW t \in Tasks, EnqueueUpload(t)
        PROVE  Final'
    <2>1. t \in posting /\ run[t].pc = "free" /\ status[t] \in {"queued", "deleted"}
      BY <1>4, EnqueueEffect DEF Posted, Live
    <2> QED
      BY <1>t, <1>4, <2>1, EnqueueEffect DEF rows, tiktok
  <1>5. ASSUME NEW t \in Tasks, RequestDies(t)
        PROVE  Final'
    BY <1>t, <1>5
       DEF RequestDies, tiktok
  <1>6. ASSUME NEW t \in Tasks, RunRetry(t)
        PROVE  Final'
    BY <1>t, <1>6, GotoEffect
       DEF RunRetry, rows, tiktok
  <1>7. ASSUME NEW t \in Tasks, Ack(t)
        PROVE  Final'
    BY <1>t, <1>7, FinishTyped
       DEF Ack, rows, tiktok
  <1>8. ASSUME NEW t \in Tasks, GetToken(t)
        PROVE  Final'
    BY <1>t, <1>8, GetTokenEffect
       DEF rows, tiktok
  <1>9. ASSUME NEW t \in Tasks, Rejected(t)
        PROVE  Final'
    BY <1>t, <1>9, GotoEffect
       DEF Rejected, Calling, rows, tiktok
  <1>10. ASSUME NEW t \in Tasks, PollStatus(t)
        PROVE  Final'
    BY <1>t, <1>10, GotoEffect
       DEF PollStatus, rows, tiktok
  <1>11. ASSUME NEW t \in Tasks, Begin(t)
        PROVE  Final'
    BY <1>t, <1>11, BeginEffect
       DEF rows, tiktok
  <1>12. ASSUME NEW t \in Tasks, InitUpload(t)
        PROVE  Final'
    BY <1>t, <1>12
       DEF InitUpload, rows
  <1>13. ASSUME NEW t \in Tasks, InitReplyLost(t)
        PROVE  Final'
    BY <1>t, <1>13, RaiseTyped
       DEF InitReplyLost, rows
  <1>14. ASSUME NEW t \in Tasks, Interrupted(t) \/ FileGone(t) \/ Unavailable(t)
        PROVE  Final'
    <2>1. Raise(t) /\ UNCHANGED rows
      BY <1>14 DEF Interrupted, FileGone, Unavailable
    <2>2. \A u \in Tasks \ {t} : run'[u] = run[u] /\ status'[u] = status[u]
      BY <2>1, RaiseTyped
    <2>3. faults' \in Nat /\ faults' >= faults
      BY <1>t, <1>14 DEF Interrupted, FileGone, Unavailable
    <2>4. ASSUME run'[t].pc \in {"queued", "parked"}, status'[t] \in Terminal
          PROVE  faults' > 0
      <3>1. run[t].left > 0 /\ status'[t] = status[t]
        BY <1>t, <2>1, <2>4, RaiseTyped DEF Typed, TypeOK
      <3>2. CASE Interrupted(t)
        BY <1>t, <3>2 DEF Interrupted
      <3>3. CASE FileGone(t) \/ Unavailable(t)
        BY <2>4, <3>1, <3>3 DEF FileGone, Unavailable, Calling, Begun, Working
      <3> QED BY <1>14, <3>2, <3>3
    <2> QED
      BY <1>t, <2>2, <2>3, <2>4
  <1>15. ASSUME NEW t \in Tasks, PersistPublishId(t)
        PROVE  Final'
    BY <1>t, <1>15, GotoEffect
       DEF PersistPublishId, rows, tiktok
  <1>16. ASSUME NEW t \in Tasks, SendChunks(t)
        PROVE  Final'
    BY <1>t, <1>16, GotoEffect
       DEF SendChunks, rows
  <1>17. ASSUME NEW t \in Tasks, Succeed(t)
        PROVE  Final'
    BY <1>t, <1>17, GotoEffect
       DEF Succeed, rows, tiktok
  <1>18. ASSUME NEW t \in Tasks, GiveUp(t)
        PROVE  Final'
    BY <1>t, <1>18, GotoEffect, MarkFailedTyped
       DEF GiveUp, rows, tiktok
  <1>19. ASSUME NEW t \in Tasks, Process(t)
        PROVE  Final'
    BY <1>t, <1>19, ProcessEffect
       DEF rows, tiktok
  <1>20. CASE UNCHANGED vars
    BY <1>20 DEF vars, rows, tiktok
  <1> QED
    BY <1>1, <1>2, <1>3, <1>4, <1>5, <1>6, <1>7, <1>8, <1>9, <1>10, <1>11, <1>12,
       <1>13, <1>14, <1>15, <1>16, <1>17, <1>18, <1>19, <1>20
       DEF Next, WorkerStep

-----------------------------------------------------------------------------
(* What a task has come to is in the audit log.                             *)
Logged == \A t \in Tasks : status[t] \in Terminal => Outcome[status[t]] \in audit[t]

LEMMA Outcomes ==
  /\ Outcome["uploaded"] = "success"
  /\ Outcome["failed"] = "failure"
  /\ Outcome["blocked"] = "blocked"
  BY DEF Outcome

(* An outcome and its audit row are one commit.                             *)
LEMMA StepLogged ==
  ASSUME Typed, Typed', Logged, [Next]_vars
  PROVE  Logged'
  <1> USE UploadAssumption DEF Logged, Terminal, Exists
  <1>t. /\ run \in [Tasks -> RunRecord] /\ run' \in [Tasks -> RunRecord]
        /\ status \in [Tasks -> Statuses] /\ audit \in [Tasks -> SUBSET Events]
        /\ inits \in [Tasks -> Nat] /\ publish \in [Tasks -> Nat] /\ faults \in Nat
        /\ \A u \in Tasks : run[u].draft \in Nat
    BY DEF Typed, TypeOK, RunRecord
  <1>1. ASSUME NEW c \in Clips, ReviewClip(c) \/ DeleteObject(c)
        PROVE  Logged'
    BY <1>t, <1>1, ReviewEffect
       DEF rows, tiktok
  <1>2. ASSUME NEW c \in Clips, DeleteClip(c)
        PROVE  Logged'
    BY <1>t, <1>2, DeleteEffect
       DEF rows, tiktok
  <1>3. ASSUME NEW t \in Tasks, UploadClip(t)
        PROVE  Logged'
    BY <1>t, <1>3, UploadClipEffect
       DEF rows, tiktok
  <1>4. ASSUME NEW t \in Tasks, EnqueueUpload(t)
        PROVE  Logged'
    BY <1>t, <1>4, EnqueueEffect
       DEF rows, tiktok
  <1>5. ASSUME NEW t \in Tasks, RequestDies(t)
        PROVE  Logged'
    BY <1>t, <1>5
       DEF RequestDies, tiktok
  <1>6. ASSUME NEW t \in Tasks, RunRetry(t)
        PROVE  Logged'
    BY <1>t, <1>6, GotoEffect
       DEF RunRetry, rows, tiktok
  <1>7. ASSUME NEW t \in Tasks, Ack(t)
        PROVE  Logged'
    BY <1>t, <1>7, FinishTyped
       DEF Ack, rows, tiktok
  <1>8. ASSUME NEW t \in Tasks, GetToken(t)
        PROVE  Logged'
    BY <1>t, <1>8, GetTokenEffect
       DEF rows, tiktok
  <1>9. ASSUME NEW t \in Tasks, Rejected(t)
        PROVE  Logged'
    BY <1>t, <1>9, GotoEffect
       DEF Rejected, Calling, rows, tiktok
  <1>10. ASSUME NEW t \in Tasks, PollStatus(t)
        PROVE  Logged'
    BY <1>t, <1>10, GotoEffect
       DEF PollStatus, rows, tiktok
  <1>11. ASSUME NEW t \in Tasks, Begin(t)
        PROVE  Logged'
    BY <1>t, <1>11, BeginEffect, Outcomes DEF rows, tiktok
  <1>12. ASSUME NEW t \in Tasks, InitUpload(t)
        PROVE  Logged'
    BY <1>t, <1>12
       DEF InitUpload, rows
  <1>13. ASSUME NEW t \in Tasks, InitReplyLost(t)
        PROVE  Logged'
    BY <1>t, <1>13, RaiseTyped, Outcomes DEF InitReplyLost, rows
  <1>14. ASSUME NEW t \in Tasks, Interrupted(t) \/ FileGone(t) \/ Unavailable(t)
        PROVE  Logged'
    BY <1>t, <1>14, RaiseTyped, Outcomes DEF Interrupted, FileGone, Unavailable, rows, tiktok
  <1>15. ASSUME NEW t \in Tasks, PersistPublishId(t)
        PROVE  Logged'
    BY <1>t, <1>15, GotoEffect
       DEF PersistPublishId, rows, tiktok
  <1>16. ASSUME NEW t \in Tasks, SendChunks(t)
        PROVE  Logged'
    BY <1>t, <1>16, GotoEffect
       DEF SendChunks, rows
  <1>17. ASSUME NEW t \in Tasks, Succeed(t)
        PROVE  Logged'
    BY <1>t, <1>17, GotoEffect, Outcomes DEF Succeed, rows, tiktok
  <1>18. ASSUME NEW t \in Tasks, GiveUp(t)
        PROVE  Logged'
    BY <1>t, <1>18, GotoEffect, MarkFailedTyped, Outcomes DEF GiveUp, rows, tiktok
  <1>19. ASSUME NEW t \in Tasks, Process(t)
        PROVE  Logged'
    BY <1>t, <1>19, ProcessEffect
       DEF rows, tiktok
  <1>20. CASE UNCHANGED vars
    BY <1>20 DEF vars, rows, tiktok
  <1> QED
    BY <1>1, <1>2, <1>3, <1>4, <1>5, <1>6, <1>7, <1>8, <1>9, <1>10, <1>11, <1>12,
       <1>13, <1>14, <1>15, <1>16, <1>17, <1>18, <1>19, <1>20
       DEF Next, WorkerStep

(* A run that ends, or is parked for ever, has changed the status.          *)
LEMMA StepNotStuck ==
  ASSUME Typed, Typed', Reviewed, Posted, Begun, EagerCallback \/ Scheduler, NotStuckUploading, [Next]_vars
  PROVE  NotStuckUploading'
  <1> USE UploadAssumption DEF NotStuckUploading, Begun, Attempting, Working, Calling, Live, Exists, Idle
  <1>t. /\ run \in [Tasks -> RunRecord] /\ run' \in [Tasks -> RunRecord]
        /\ status \in [Tasks -> Statuses] /\ audit \in [Tasks -> SUBSET Events]
        /\ inits \in [Tasks -> Nat] /\ publish \in [Tasks -> Nat] /\ faults \in Nat
        /\ \A u \in Tasks : run[u].draft \in Nat
    BY DEF Typed, TypeOK, RunRecord
  <1>1. ASSUME NEW c \in Clips, ReviewClip(c) \/ DeleteObject(c)
        PROVE  NotStuckUploading'
    BY <1>t, <1>1, ReviewEffect
       DEF rows, tiktok
  <1>2. ASSUME NEW c \in Clips, DeleteClip(c)
        PROVE  NotStuckUploading'
    BY <1>t, <1>2, DeleteEffect
       DEF rows, tiktok
  <1>3. ASSUME NEW t \in Tasks, UploadClip(t)
        PROVE  NotStuckUploading'
    BY <1>t, <1>3, UploadClipEffect DEF rows, tiktok
  <1>4. ASSUME NEW t \in Tasks, EnqueueUpload(t)
        PROVE  NotStuckUploading'
    <2>1. t \in posting /\ run[t].pc = "free" /\ status[t] \in {"queued", "deleted"}
      BY <1>4, EnqueueEffect DEF Posted, Live
    <2> QED
      BY <1>t, <1>4, <2>1, EnqueueEffect DEF rows, tiktok
  <1>5. ASSUME NEW t \in Tasks, RequestDies(t)
        PROVE  NotStuckUploading'
    BY <1>t, <1>5
       DEF RequestDies, tiktok
  <1>6. ASSUME NEW t \in Tasks, RunRetry(t)
        PROVE  NotStuckUploading'
    BY <1>t, <1>6, GotoEffect
       DEF RunRetry, rows, tiktok
  <1>7. ASSUME NEW t \in Tasks, Ack(t)
        PROVE  NotStuckUploading'
    BY <1>t, <1>7, FinishTyped
       DEF Ack, rows, tiktok
  <1>8. ASSUME NEW t \in Tasks, GetToken(t)
        PROVE  NotStuckUploading'
    BY <1>t, <1>8, GetTokenEffect
       DEF rows, tiktok
  <1>9. ASSUME NEW t \in Tasks, Rejected(t)
        PROVE  NotStuckUploading'
    BY <1>t, <1>9, GotoEffect
       DEF Rejected, Calling, rows, tiktok
  <1>10. ASSUME NEW t \in Tasks, PollStatus(t)
        PROVE  NotStuckUploading'
    BY <1>t, <1>10, GotoEffect
       DEF PollStatus, rows, tiktok
  <1>11. ASSUME NEW t \in Tasks, Begin(t)
        PROVE  NotStuckUploading'
    BY <1>t, <1>11, BeginEffect
       DEF rows, tiktok
  <1>12. ASSUME NEW t \in Tasks, InitUpload(t)
        PROVE  NotStuckUploading'
    BY <1>t, <1>12
       DEF InitUpload, rows
  <1>13. ASSUME NEW t \in Tasks, InitReplyLost(t)
        PROVE  NotStuckUploading'
    <2>1. Raise(t) /\ run[t].left \in Nat
      BY <1>13 DEF InitReplyLost, Interrupted, FileGone, Unavailable, Typed, TypeOK
    <2>2. \A u \in Tasks \ {t} : run'[u] = run[u] /\ status'[u] = status[u]
      BY <2>1, RaiseTyped
    <2>3. status'[t] = "uploading" => ~EagerCallback /\ run'[t].pc = "parked"
      BY <1>t, <2>1, RaiseTyped
    <2> QED
      BY <1>t, <2>2, <2>3
  <1>14. ASSUME NEW t \in Tasks, Interrupted(t) \/ FileGone(t) \/ Unavailable(t)
        PROVE  NotStuckUploading'
    <2>1. Raise(t) /\ run[t].left \in Nat
      BY <1>14 DEF InitReplyLost, Interrupted, FileGone, Unavailable, Typed, TypeOK
    <2>2. \A u \in Tasks \ {t} : run'[u] = run[u] /\ status'[u] = status[u]
      BY <2>1, RaiseTyped
    <2>3. status'[t] = "uploading" => ~EagerCallback /\ run'[t].pc = "parked"
      BY <1>t, <2>1, RaiseTyped
    <2> QED
      BY <1>t, <2>2, <2>3
  <1>15. ASSUME NEW t \in Tasks, PersistPublishId(t)
        PROVE  NotStuckUploading'
    BY <1>t, <1>15, GotoEffect
       DEF PersistPublishId, rows, tiktok
  <1>16. ASSUME NEW t \in Tasks, SendChunks(t)
        PROVE  NotStuckUploading'
    BY <1>t, <1>16, GotoEffect
       DEF SendChunks, rows
  <1>17. ASSUME NEW t \in Tasks, Succeed(t)
        PROVE  NotStuckUploading'
    BY <1>t, <1>17, GotoEffect
       DEF Succeed, rows, tiktok
  <1>18. ASSUME NEW t \in Tasks, GiveUp(t)
        PROVE  NotStuckUploading'
    BY <1>t, <1>18, GotoEffect, MarkFailedTyped
       DEF GiveUp, rows, tiktok
  <1>19. ASSUME NEW t \in Tasks, Process(t)
        PROVE  NotStuckUploading'
    BY <1>t, <1>19, ProcessEffect
       DEF rows, tiktok
  <1>20. CASE UNCHANGED vars
    BY <1>20 DEF vars, rows, tiktok
  <1> QED
    BY <1>1, <1>2, <1>3, <1>4, <1>5, <1>6, <1>7, <1>8, <1>9, <1>10, <1>11, <1>12,
       <1>13, <1>14, <1>15, <1>16, <1>17, <1>18, <1>19, <1>20
       DEF Next, WorkerStep

-----------------------------------------------------------------------------
(* With one worker process one task is worked on at a time.                 *)
OneAtATime ==
  \A t, u \in Tasks : run[t].pc \in Working /\ run[u].pc \in Working => t = u

(* ... and an attempt that found a place keeps it.                          *)
Room ==
  /\ Cardinality(Uploaded) <= Cap
  /\ \A t \in Tasks : run[t].pc \in Attempting => Cardinality(Uploaded) < Cap

LEMMA NoneWorking ==
  ASSUME IsFiniteSet(Tasks), Workers = 1, NEW t \in Tasks, Begin(t)
  PROVE  \A u \in Tasks : run[u].pc \notin Working
  <1> DEFINE busy == {u \in Tasks : run[u].pc \in Working}
  <1>1. IsFiniteSet(busy)
    BY FS_Subset
  <1>2. Cardinality(busy) \in Nat /\ Cardinality(busy) < 1
    BY <1>1, FS_CardinalityType DEF Begin
  <1>3. busy = {}
    BY <1>1, <1>2, FS_EmptySet
  <1> QED BY <1>3

LEMMA OneMore ==
  ASSUME NEW S, IsFiniteSet(S), NEW x
  PROVE  IsFiniteSet(S \cup {x}) /\ Cardinality(S \cup {x}) <= Cardinality(S) + 1
  <1>1. Cardinality(S) \in Nat
    BY FS_CardinalityType
  <1>2. /\ IsFiniteSet(S \cup {x})
        /\ Cardinality(S \cup {x}) = IF x \in S THEN Cardinality(S) ELSE Cardinality(S) + 1
    BY FS_AddElement
  <1> QED BY <1>1, <1>2

(* A step that uploads nothing and finds no place takes none.               *)
LEMMA Fewer ==
  ASSUME IsFiniteSet(Tasks), Room, Uploaded' \subseteq Uploaded,
         (\E t \in Tasks : run'[t].pc \in Attempting)
           => \/ \E t \in Tasks : run[t].pc \in Attempting
              \/ Cardinality(Uploaded) < Cap
  PROVE  Room'
  <1>1. IsFiniteSet(Uploaded) /\ IsFiniteSet(Uploaded')
    BY FS_Subset DEF Uploaded
  <1>2. /\ Cardinality(Uploaded') <= Cardinality(Uploaded)
        /\ Cardinality(Uploaded) \in Nat /\ Cardinality(Uploaded') \in Nat
    BY <1>1, FS_Subset, FS_CardinalityType
  <1> QED BY <1>2, UploadAssumption DEF Room

(* An attempt begins when no other is under way.                            *)
LEMMA StepOneAtATime ==
  ASSUME Typed, Typed', IsFiniteSet(Tasks), Workers = 1, Reviewed, Posted, OneAtATime, [Next]_vars
  PROVE  OneAtATime'
  <1> USE UploadAssumption DEF OneAtATime, Working, Calling, Live, Exists, Idle
  <1>t. /\ run \in [Tasks -> RunRecord] /\ run' \in [Tasks -> RunRecord]
        /\ status \in [Tasks -> Statuses] /\ audit \in [Tasks -> SUBSET Events]
        /\ inits \in [Tasks -> Nat] /\ publish \in [Tasks -> Nat] /\ faults \in Nat
        /\ \A u \in Tasks : run[u].draft \in Nat
    BY DEF Typed, TypeOK, RunRecord
  <1>1. ASSUME NEW c \in Clips, ReviewClip(c) \/ DeleteObject(c)
        PROVE  OneAtATime'
    BY <1>t, <1>1, ReviewEffect
       DEF rows, tiktok
  <1>2. ASSUME NEW c \in Clips, DeleteClip(c)
        PROVE  OneAtATime'
    BY <1>t, <1>2, DeleteEffect
       DEF rows, tiktok
  <1>3. ASSUME NEW t \in Tasks, UploadClip(t)
        PROVE  OneAtATime'
    BY <1>t, <1>3, UploadClipEffect
       DEF rows, tiktok
  <1>4. ASSUME NEW t \in Tasks, EnqueueUpload(t)
        PROVE  OneAtATime'
    BY <1>t, <1>4, EnqueueEffect
       DEF rows, tiktok
  <1>5. ASSUME NEW t \in Tasks, RequestDies(t)
        PROVE  OneAtATime'
    BY <1>t, <1>5
       DEF RequestDies, tiktok
  <1>6. ASSUME NEW t \in Tasks, RunRetry(t)
        PROVE  OneAtATime'
    BY <1>t, <1>6, GotoEffect
       DEF RunRetry, rows, tiktok
  <1>7. ASSUME NEW t \in Tasks, Ack(t)
        PROVE  OneAtATime'
    BY <1>t, <1>7, FinishTyped
       DEF Ack, rows, tiktok
  <1>8. ASSUME NEW t \in Tasks, GetToken(t)
        PROVE  OneAtATime'
    BY <1>t, <1>8, GetTokenEffect
       DEF rows, tiktok
  <1>9. ASSUME NEW t \in Tasks, Rejected(t)
        PROVE  OneAtATime'
    BY <1>t, <1>9, GotoEffect
       DEF Rejected, Calling, rows, tiktok
  <1>10. ASSUME NEW t \in Tasks, PollStatus(t)
        PROVE  OneAtATime'
    BY <1>t, <1>10, GotoEffect
       DEF PollStatus, rows, tiktok
  <1>11. ASSUME NEW t \in Tasks, Begin(t)
        PROVE  OneAtATime'
    BY <1>t, <1>11, BeginEffect, NoneWorking
  <1>12. ASSUME NEW t \in Tasks, InitUpload(t)
        PROVE  OneAtATime'
    BY <1>t, <1>12
       DEF InitUpload, rows
  <1>13. ASSUME NEW t \in Tasks, InitReplyLost(t)
        PROVE  OneAtATime'
    BY <1>t, <1>13, RaiseTyped
       DEF InitReplyLost, rows
  <1>14. ASSUME NEW t \in Tasks, Interrupted(t) \/ FileGone(t) \/ Unavailable(t)
        PROVE  OneAtATime'
    BY <1>t, <1>14, RaiseTyped
       DEF Interrupted, FileGone, Unavailable, Calling, rows, tiktok
  <1>15. ASSUME NEW t \in Tasks, PersistPublishId(t)
        PROVE  OneAtATime'
    BY <1>t, <1>15, GotoEffect
       DEF PersistPublishId, rows, tiktok
  <1>16. ASSUME NEW t \in Tasks, SendChunks(t)
        PROVE  OneAtATime'
    BY <1>t, <1>16, GotoEffect
       DEF SendChunks, rows
  <1>17. ASSUME NEW t \in Tasks, Succeed(t)
        PROVE  OneAtATime'
    BY <1>t, <1>17, GotoEffect
       DEF Succeed, rows, tiktok
  <1>18. ASSUME NEW t \in Tasks, GiveUp(t)
        PROVE  OneAtATime'
    BY <1>t, <1>18, GotoEffect, MarkFailedTyped
       DEF GiveUp, rows, tiktok
  <1>19. ASSUME NEW t \in Tasks, Process(t)
        PROVE  OneAtATime'
    BY <1>t, <1>19, ProcessEffect
       DEF rows, tiktok
  <1>20. CASE UNCHANGED vars
    BY <1>20 DEF vars, rows, tiktok
  <1> QED
    BY <1>1, <1>2, <1>3, <1>4, <1>5, <1>6, <1>7, <1>8, <1>9, <1>10, <1>11, <1>12,
       <1>13, <1>14, <1>15, <1>16, <1>17, <1>18, <1>19, <1>20
       DEF Next, WorkerStep

(* A task is uploaded by the attempt that found a place.                    *)
LEMMA StepRoom ==
  ASSUME Typed, Typed', IsFiniteSet(Tasks), Workers = 1, OneAtATime, Reviewed, Posted, Room, [Next]_vars
  PROVE  Room'
  <1> USE UploadAssumption DEF Attempting, Uploaded, Working, Calling, Live, Exists, Idle
  <1>t. /\ run \in [Tasks -> RunRecord] /\ run' \in [Tasks -> RunRecord]
        /\ status \in [Tasks -> Statuses] /\ audit \in [Tasks -> SUBSET Events]
        /\ inits \in [Tasks -> Nat] /\ publish \in [Tasks -> Nat] /\ faults \in Nat
        /\ \A u \in Tasks : run[u].draft \in Nat
    BY DEF Typed, TypeOK, RunRecord
  <1>1. ASSUME NEW c \in Clips, ReviewClip(c) \/ DeleteObject(c)
        PROVE  Room'
    <2>1. Uploaded' \subseteq Uploaded
      BY <1>t, <1>1, ReviewEffect DEF rows, tiktok
    <2>2. (\E u \in Tasks : run'[u].pc \in Attempting) => \E u \in Tasks : run[u].pc \in Attempting
      BY <1>t, <1>1, ReviewEffect DEF rows, tiktok
    <2> QED BY <2>1, <2>2, Fewer
  <1>2. ASSUME NEW c \in Clips, DeleteClip(c)
        PROVE  Room'
    <2>1. Uploaded' \subseteq Uploaded
      BY <1>t, <1>2, DeleteEffect DEF rows, tiktok
    <2>2. (\E u \in Tasks : run'[u].pc \in Attempting) => \E u \in Tasks : run[u].pc \in Attempting
      BY <1>t, <1>2, DeleteEffect DEF rows, tiktok
    <2> QED BY <2>1, <2>2, Fewer
  <1>3. ASSUME NEW t \in Tasks, UploadClip(t)
        PROVE  Room'
    <2>1. Uploaded' \subseteq Uploaded
      BY <1>t, <1>3, UploadClipEffect DEF rows, tiktok
    <2>2. (\E u \in Tasks : run'[u].pc \in Attempting) => \E u \in Tasks : run[u].pc \in Attempting
      BY <1>t, <1>3, UploadClipEffect DEF rows, tiktok
    <2> QED BY <2>1, <2>2, Fewer
  <1>4. ASSUME NEW t \in Tasks, EnqueueUpload(t)
        PROVE  Room'
    <2>1. Uploaded' \subseteq Uploaded
      BY <1>t, <1>4, EnqueueEffect DEF rows, tiktok
    <2>2. (\E u \in Tasks : run'[u].pc \in Attempting) => \E u \in Tasks : run[u].pc \in Attempting
      BY <1>t, <1>4, EnqueueEffect DEF rows, tiktok
    <2> QED BY <2>1, <2>2, Fewer
  <1>5. ASSUME NEW t \in Tasks, RequestDies(t)
        PROVE  Room'
    <2>1. Uploaded' \subseteq Uploaded
      BY <1>t, <1>5 DEF RequestDies, tiktok
    <2>2. (\E u \in Tasks : run'[u].pc \in Attempting) => \E u \in Tasks : run[u].pc \in Attempting
      BY <1>t, <1>5 DEF RequestDies, tiktok
    <2> QED BY <2>1, <2>2, Fewer
  <1>6. ASSUME NEW t \in Tasks, RunRetry(t)
        PROVE  Room'
    <2>1. Uploaded' \subseteq Uploaded
      BY <1>t, <1>6, GotoEffect DEF RunRetry, rows, tiktok
    <2>2. (\E u \in Tasks : run'[u].pc \in Attempting) => \E u \in Tasks : run[u].pc \in Attempting
      BY <1>t, <1>6, GotoEffect DEF RunRetry, rows, tiktok
    <2> QED BY <2>1, <2>2, Fewer
  <1>7. ASSUME NEW t \in Tasks, Ack(t)
        PROVE  Room'
    <2>1. Uploaded' \subseteq Uploaded
      BY <1>t, <1>7, FinishTyped DEF Ack, rows, tiktok
    <2>2. (\E u \in Tasks : run'[u].pc \in Attempting) => \E u \in Tasks : run[u].pc \in Attempting
      BY <1>t, <1>7, FinishTyped DEF Ack, rows, tiktok
    <2> QED BY <2>1, <2>2, Fewer
  <1>8. ASSUME NEW t \in Tasks, GetToken(t)
        PROVE  Room'
    <2>1. Uploaded' \subseteq Uploaded
      BY <1>t, <1>8, GetTokenEffect DEF rows, tiktok
    <2>2. (\E u \in Tasks : run'[u].pc \in Attempting) => \E u \in Tasks : run[u].pc \in Attempting
      BY <1>t, <1>8, GetTokenEffect DEF rows, tiktok
    <2> QED BY <2>1, <2>2, Fewer
  <1>9. ASSUME NEW t \in Tasks, Rejected(t)
        PROVE  Room'
    <2>1. Uploaded' \subseteq Uploaded
      BY <1>t, <1>9, GotoEffect DEF Rejected, Calling, rows, tiktok
    <2>2. (\E u \in Tasks : run'[u].pc \in Attempting) => \E u \in Tasks : run[u].pc \in Attempting
      BY <1>t, <1>9, GotoEffect DEF Rejected, Calling, rows, tiktok
    <2> QED BY <2>1, <2>2, Fewer
  <1>10. ASSUME NEW t \in Tasks, PollStatus(t)
        PROVE  Room'
    <2>1. Uploaded' \subseteq Uploaded
      BY <1>t, <1>10, GotoEffect DEF PollStatus, rows, tiktok
    <2>2. (\E u \in Tasks : run'[u].pc \in Attempting) => \E u \in Tasks : run[u].pc \in Attempting
      BY <1>t, <1>10, GotoEffect DEF PollStatus, rows, tiktok
    <2> QED BY <2>1, <2>2, Fewer
  <1>11. ASSUME NEW t \in Tasks, Begin(t)
        PROVE  Room'
    <2>1. Uploaded' \subseteq Uploaded
      BY <1>t, <1>11, BeginEffect
    <2>2. (\E u \in Tasks : run'[u].pc \in Attempting) => Cardinality(Uploaded) < Cap
      <3>1. \A u \in Tasks : run[u].pc \notin Working
        BY <1>11, NoneWorking
      <3>2. run'[t].pc \in Attempting => ~DailyCapReached
        BY <1>11, BeginEffect
      <3>3. IsFiniteSet(Uploaded)
        BY FS_Subset
      <3>4. Cardinality(Uploaded) \in Nat
        BY <3>3, FS_CardinalityType
      <3> QED BY <1>11, <3>1, <3>2, <3>4, BeginEffect DEF DailyCapReached
    <2> QED BY <2>1, <2>2, Fewer
  <1>12. ASSUME NEW t \in Tasks, InitUpload(t)
        PROVE  Room'
    <2>1. Uploaded' \subseteq Uploaded
      BY <1>t, <1>12 DEF InitUpload, rows
    <2>2. (\E u \in Tasks : run'[u].pc \in Attempting) => \E u \in Tasks : run[u].pc \in Attempting
      BY <1>t, <1>12 DEF InitUpload, rows
    <2> QED BY <2>1, <2>2, Fewer
  <1>13. ASSUME NEW t \in Tasks, InitReplyLost(t)
        PROVE  Room'
    <2>1. Uploaded' \subseteq Uploaded
      BY <1>t, <1>13, RaiseTyped DEF InitReplyLost, rows
    <2>2. (\E u \in Tasks : run'[u].pc \in Attempting) => \E u \in Tasks : run[u].pc \in Attempting
      BY <1>t, <1>13, RaiseTyped DEF InitReplyLost, rows
    <2> QED BY <2>1, <2>2, Fewer
  <1>14. ASSUME NEW t \in Tasks, Interrupted(t) \/ FileGone(t) \/ Unavailable(t)
        PROVE  Room'
    <2>1. Uploaded' \subseteq Uploaded
      BY <1>t, <1>14, RaiseTyped DEF Interrupted, FileGone, Unavailable, Calling, rows, tiktok
    <2>2. (\E u \in Tasks : run'[u].pc \in Attempting) => \E u \in Tasks : run[u].pc \in Attempting
      BY <1>t, <1>14, RaiseTyped DEF Interrupted, FileGone, Unavailable, Calling, rows, tiktok
    <2> QED BY <2>1, <2>2, Fewer
  <1>15. ASSUME NEW t \in Tasks, PersistPublishId(t)
        PROVE  Room'
    <2>1. Uploaded' \subseteq Uploaded
      BY <1>t, <1>15, GotoEffect DEF PersistPublishId, rows, tiktok
    <2>2. (\E u \in Tasks : run'[u].pc \in Attempting) => \E u \in Tasks : run[u].pc \in Attempting
      BY <1>t, <1>15, GotoEffect DEF PersistPublishId, rows, tiktok
    <2> QED BY <2>1, <2>2, Fewer
  <1>16. ASSUME NEW t \in Tasks, SendChunks(t)
        PROVE  Room'
    <2>1. Uploaded' \subseteq Uploaded
      BY <1>t, <1>16, GotoEffect DEF SendChunks, rows
    <2>2. (\E u \in Tasks : run'[u].pc \in Attempting) => \E u \in Tasks : run[u].pc \in Attempting
      BY <1>t, <1>16, GotoEffect DEF SendChunks, rows
    <2> QED BY <2>1, <2>2, Fewer
  <1>17. ASSUME NEW t \in Tasks, Succeed(t)
        PROVE  Room'
    <2>1. Uploaded' \subseteq Uploaded \cup {t}
      BY <1>t, <1>17 DEF Succeed
    <2>2. \A u \in Tasks : run'[u].pc \notin Attempting
      <3>1. run[t].pc \in Working /\ run'[t].pc = "ack" /\ \A u \in Tasks \ {t} : run'[u] = run[u]
        BY <1>t, <1>17, GotoEffect DEF Succeed
      <3> QED BY <3>1 DEF OneAtATime
    <2>3. IsFiniteSet(Uploaded) /\ Cardinality(Uploaded) < Cap
      BY <1>17, FS_Subset DEF Succeed, Room
    <2>4. /\ IsFiniteSet(Uploaded \cup {t})
          /\ Cardinality(Uploaded \cup {t}) <= Cardinality(Uploaded) + 1
      BY <2>3, OneMore
    <2>5. Cardinality(Uploaded') <= Cardinality(Uploaded \cup {t})
      BY <2>1, <2>4, FS_Subset
    <2>6. /\ Cardinality(Uploaded') \in Nat /\ Cardinality(Uploaded) \in Nat
          /\ Cardinality(Uploaded \cup {t}) \in Nat
      BY <2>1, <2>3, <2>4, FS_Subset, FS_CardinalityType
    <2>7. Cardinality(Uploaded') <= Cap
      BY <2>3, <2>4, <2>5, <2>6
    <2> QED BY <2>2, <2>7 DEF Room
  <1>18. ASSUME NEW t \in Tasks, GiveUp(t)
        PROVE  Room'
    <2>1. Uploaded' \subseteq Uploaded
      BY <1>t, <1>18, GotoEffect, MarkFailedTyped DEF GiveUp, rows, tiktok
    <2>2. (\E u \in Tasks : run'[u].pc \in Attempting) => \E u \in Tasks : run[u].pc \in Attempting
      BY <1>t, <1>18, GotoEffect, MarkFailedTyped DEF GiveUp, rows, tiktok
    <2> QED BY <2>1, <2>2, Fewer
  <1>19. ASSUME NEW t \in Tasks, Process(t)
        PROVE  Room'
    <2>1. Uploaded' \subseteq Uploaded
      BY <1>t, <1>19, ProcessEffect DEF rows, tiktok
    <2>2. (\E u \in Tasks : run'[u].pc \in Attempting) => \E u \in Tasks : run[u].pc \in Attempting
      BY <1>t, <1>19, ProcessEffect DEF rows, tiktok
    <2> QED BY <2>1, <2>2, Fewer
  <1>20. CASE UNCHANGED vars
    <2>1. Uploaded' = Uploaded /\ run' = run
      BY <1>20 DEF vars
    <2> QED BY <2>1, Fewer
  <1> QED
    BY <1>1, <1>2, <1>3, <1>4, <1>5, <1>6, <1>7, <1>8, <1>9, <1>10, <1>11, <1>12,
       <1>13, <1>14, <1>15, <1>16, <1>17, <1>18, <1>19, <1>20
       DEF Next, WorkerStep

-----------------------------------------------------------------------------
(* Every step is one that DraftDelivery allows, or none.                    *)
Reports == [t \in Tasks |-> Report(status[t])]
Same == Reports' = Reports /\ UNCHANGED <<inits, inbox, faults>>

LEMMA ReportOf ==
  /\ Report("absent") = "none"
  /\ Report("queued") = "pending" /\ Report("uploading") = "pending"
  /\ Report("uploaded") = "uploaded"
  /\ Report("failed") = "given up" /\ Report("blocked") = "given up"
  /\ Report("deleted") = "forgotten"
  BY DEF Report

(* A step that touches the status of one task reports of that task only.    *)
LEMMA Told ==
  ASSUME NEW t \in Tasks, \A u \in Tasks \ {t} : status'[u] = status[u]
  PROVE  /\ status'[t] = status[t] => Reports' = Reports
         /\ status'[t] \in {"queued", "uploading"} => Reports' = [Reports EXCEPT ![t] = "pending"]
         /\ status'[t] = "uploaded" => Reports' = [Reports EXCEPT ![t] = "uploaded"]
         /\ status'[t] \in {"failed", "blocked"} => Reports' = [Reports EXCEPT ![t] = "given up"]
  BY ReportOf DEF Reports

LEMMA ClipDelivers ==
  ASSUME Typed, Reviewed, NEW c \in Clips, ReviewClip(c) \/ DeleteObject(c) \/ DeleteClip(c)
  PROVE  Same \/ Delivery!Forget
  <1>1. CASE ReviewClip(c) \/ DeleteObject(c)
    BY <1>1, ReviewEffect DEF Same, Reports
  <1>2. CASE DeleteClip(c)
    <2> DEFINE gone == {u \in Tasks : of[u] = c}
    <2>1. \A u \in Tasks : /\ status'[u] = IF u \in gone THEN "deleted" ELSE status[u]
                           /\ u \in gone => Reports[u] # "none"
      <3>1. \A u \in gone : status[u] \in Statuses \ {"absent"}
        BY UploadAssumption DEF Reviewed, Typed, TypeOK
      <3> QED BY <1>2, <3>1, DeleteEffect, ReportOf DEF Reports, Statuses, Terminal
    <2>2. Reports' = [u \in Tasks |-> IF u \in gone THEN "forgotten" ELSE Reports[u]]
      BY <2>1, ReportOf DEF Reports
    <2>3. UNCHANGED <<inits, inbox, faults>> /\ gone \in SUBSET {u \in Tasks : Reports[u] # "none"}
      BY <1>2, <2>1, DeleteEffect
    <2>4. Delivery!Forget
      BY <2>2, <2>3 DEF Delivery!Forget, Reports
    <2> QED BY <2>4
  <1> QED BY <1>1, <1>2

LEMMA RequestDelivers ==
  ASSUME Typed, Reviewed, NEW t \in Tasks, UploadClip(t) \/ EnqueueUpload(t) \/ RequestDies(t)
  PROVE  Same \/ Delivery!Ask(t) \/ Delivery!Lose
  <1>1. CASE UploadClip(t)
    <2>1. /\ status[t] = "absent" /\ status'[t] = "queued"
          /\ \A u \in Tasks \ {t} : status'[u] = status[u]
          /\ UNCHANGED <<inits, inbox, faults>>
      BY <1>1, UploadClipEffect
    <2>2. Reports[t] = "none"
      BY <2>1, ReportOf DEF Reports
    <2>3. Reports' = [Reports EXCEPT ![t] = "pending"]
      BY <2>1, Told
    <2> QED BY <2>1, <2>2, <2>3 DEF Delivery!Ask, Delivery!Becomes, Reports
  <1>2. CASE EnqueueUpload(t)
    BY <1>2, EnqueueEffect DEF Same, Reports
  <1>3. CASE RequestDies(t)
    <2>1. Reports' = Reports /\ faults' = faults + 1 /\ UNCHANGED <<inits, inbox>>
      BY <1>3 DEF RequestDies, Reports, tiktok
    <2> QED BY <2>1 DEF Delivery!Lose, Reports
  <1> QED BY <1>1, <1>2, <1>3

(* An attempt that dies reports nothing, or that the task is given up.      *)
LEMMA RaiseReports ==
  ASSUME Typed, NEW t \in Tasks, Raise(t)
  PROVE  \/ Reports' = Reports
         \/ /\ Exists(t) /\ Reports' = [Reports EXCEPT ![t] = "given up"]
            /\ Reports[t] \in {"uploaded", "given up", "pending"}
  <1>1. \A u \in Tasks \ {t} : status'[u] = status[u]
    BY RaiseTyped
  <1>2. CASE status'[t] = status[t]
    BY <1>1, <1>2, Told
  <1>3. CASE Exists(t) /\ status'[t] = "failed"
    <2>1. status[t] \in {"queued", "uploading", "uploaded", "failed", "blocked"}
      BY <1>3 DEF Exists, Typed, TypeOK, Statuses, Terminal
    <2>2. Reports[t] \in {"uploaded", "given up", "pending"}
      BY <2>1, ReportOf DEF Reports
    <2> QED BY <1>1, <1>3, <2>2, Told
  <1> QED BY <1>2, <1>3, RaiseTyped

LEMMA DyingDelivers ==
  ASSUME Typed, Reviewed, Begun, OneDraft, NEW t \in Tasks,
         InitReplyLost(t) \/ Interrupted(t) \/ FileGone(t) \/ Unavailable(t)
  PROVE  Same \/ Delivery!Lose \/ Delivery!OpenAndLose(t) \/ Delivery!Settle(t)
  <1>1. CASE InitReplyLost(t)
    <2>1. /\ Raise(t) /\ run[t].pc = "init" /\ faults' = faults + 1
          /\ inits' = [inits EXCEPT ![t] = @ + 1] /\ UNCHANGED inbox
      BY <1>1 DEF InitReplyLost
    <2>2. status[t] # "absent" /\ inits[t] <= faults
      BY <2>1 DEF Reviewed, Live, OneDraft
    <2>3. Reports[t] # "none"
      BY <2>2, ReportOf DEF Reports, Typed, TypeOK, Statuses, Terminal
    <2>4. Exists(t) => Reports[t] = "pending"
      BY <2>1, ReportOf DEF Begun, Attempting, Working, Calling, Reports
    <2> QED
      BY <2>1, <2>2, <2>3, <2>4, RaiseReports
      DEF Delivery!OpenAndLose, Delivery!MayOpen, Delivery!Becomes, Reports
  <1>2. CASE Interrupted(t)
    <2>1. Raise(t) /\ faults' = faults + 1 /\ UNCHANGED <<inits, inbox>>
      BY <1>2 DEF Interrupted, tiktok
    <2> QED
      BY <2>1, RaiseReports DEF Delivery!Lose, Delivery!Settled, Delivery!Becomes, Reports
  <1>3. CASE FileGone(t) \/ Unavailable(t)
    <2>1. Raise(t) /\ run[t].pc \in Calling /\ UNCHANGED <<inits, inbox, faults>>
      BY <1>3 DEF FileGone, Unavailable, Calling, tiktok
    <2>2. Exists(t) => Reports[t] = "pending"
      BY <2>1, ReportOf DEF Begun, Attempting, Working, Calling, Reports
    <2> QED
      BY <2>1, <2>2, RaiseReports DEF Same, Delivery!Settle, Delivery!Becomes, Reports
  <1> QED BY <1>1, <1>2, <1>3

LEMMA BeginDelivers ==
  ASSUME Typed, Final, NEW t \in Tasks, Begin(t)
  PROVE  Same \/ Delivery!Settle(t) \/ Delivery!Retract(t)
  <1>1. /\ run[t].pc = "queued" /\ UNCHANGED <<inits, inbox, faults>>
        /\ \A u \in Tasks \ {t} : status'[u] = status[u]
        /\ \/ status'[t] = status[t]
           \/ Exists(t) /\ status'[t] \in {"blocked", "uploading"}
    BY BeginEffect DEF tiktok
  <1>2. CASE status'[t] = status[t]
    BY <1>1, <1>2, Told DEF Same
  <1>3. CASE Exists(t) /\ status'[t] \in {"blocked", "uploading"}
    <2>1. Reports' = [Reports EXCEPT ![t] = "given up"] \/ Reports' = [Reports EXCEPT ![t] = "pending"]
      BY <1>1, <1>3, Told
    <2>2. CASE status[t] \in Terminal
      <3>1. faults > 0 /\ Reports[t] \in {"uploaded", "given up"}
        BY <1>1, <2>2, ReportOf DEF Final, Terminal, Reports
      <3> QED
        BY <1>1, <2>1, <3>1
        DEF Delivery!Retract, Delivery!Settled, Delivery!Becomes, Reports
    <2>3. CASE status[t] \in {"queued", "uploading"}
      <3>1. Reports[t] = "pending"
        BY <2>3, ReportOf DEF Reports
      <3>2. Reports' = [Reports EXCEPT ![t] = "given up"] \/ Reports' = Reports
        BY <2>1, <3>1 DEF Reports
      <3> QED BY <1>1, <3>1, <3>2 DEF Same, Delivery!Settle, Delivery!Becomes, Reports
    <2> QED BY <1>3, <2>2, <2>3 DEF Exists, Typed, TypeOK, Statuses
  <1> QED BY <1>1, <1>2, <1>3

LEMMA OutcomeDelivers ==
  ASSUME Typed, Begun, Named, NEW t \in Tasks, Succeed(t) \/ GiveUp(t)
  PROVE  Same \/ Delivery!Settle(t)
  <1>1. /\ UNCHANGED <<inits, inbox, faults>> /\ run[t].pc \in {"success", "giveup"}
        /\ \A u \in Tasks \ {t} : status'[u] = status[u]
    BY MarkFailedTyped DEF Succeed, GiveUp, tiktok, Typed, TypeOK
  <1>2. Exists(t) => Reports[t] = "pending"
    BY <1>1, ReportOf DEF Begun, Attempting, Working, Calling, Reports
  <1>3. CASE Succeed(t) /\ Exists(t)
    <2>1. status'[t] = "uploaded" /\ inbox[t] # {}
      BY <1>3 DEF Succeed, Named, Typed, TypeOK
    <2>2. Reports' = [Reports EXCEPT ![t] = "uploaded"]
      BY <1>1, <2>1, Told
    <2> QED
      BY <1>1, <1>2, <1>3, <2>1, <2>2 DEF Delivery!Settle, Delivery!Becomes, Reports
  <1>4. CASE GiveUp(t) /\ Exists(t)
    <2>1. status'[t] = "failed"
      BY <1>4, MarkFailedTyped DEF GiveUp
    <2>2. Reports' = [Reports EXCEPT ![t] = "given up"]
      BY <1>1, <2>1, Told
    <2> QED
      BY <1>1, <1>2, <1>4, <2>2 DEF Delivery!Settle, Delivery!Becomes, Reports
  <1>5. CASE ~Exists(t)
    <2>1. status'[t] = status[t]
      BY <1>5, MarkFailedTyped DEF Succeed, GiveUp
    <2> QED BY <1>1, <2>1, Told DEF Same
  <1> QED BY <1>3, <1>4, <1>5

LEMMA StepDelivers ==
  ASSUME Typed, Reviewed, Begun, Named, OneDraft, Final, [Next]_vars
  PROVE  [Delivery!Next]_(Delivery!vars)
  <1>s. Same => UNCHANGED Delivery!vars
    BY DEF Same, Reports, Delivery!vars
  <1>1. ASSUME NEW c \in Clips, ReviewClip(c) \/ DeleteObject(c) \/ DeleteClip(c)
        PROVE  Same \/ Delivery!Next
    BY <1>1, ClipDelivers DEF Delivery!Next
  <1>2. ASSUME NEW t \in Tasks, UploadClip(t) \/ EnqueueUpload(t) \/ RequestDies(t)
        PROVE  Same \/ Delivery!Next
    BY <1>2, RequestDelivers DEF Delivery!Next
  <1>3. ASSUME NEW t \in Tasks, RunRetry(t) \/ Ack(t) \/ GetToken(t) \/ Rejected(t) \/ PollStatus(t)
                                \/ PersistPublishId(t) \/ SendChunks(t)
        PROVE  Same
    BY <1>3
    DEF RunRetry, Ack, GetToken, Rejected, PollStatus, PersistPublishId, SendChunks, Same, Reports, tiktok
  <1>4. ASSUME NEW t \in Tasks, InitUpload(t)
        PROVE  Delivery!Open(t)
    <2>1. status[t] # "absent" /\ inits[t] <= faults
      BY <1>4 DEF InitUpload, Reviewed, Live, OneDraft
    <2>2. Reports[t] # "none"
      BY <2>1, ReportOf DEF Reports, Typed, TypeOK, Statuses, Terminal
    <2> QED
      BY <1>4, <2>1, <2>2 DEF InitUpload, Delivery!Open, Delivery!MayOpen, Reports
  <1>5. ASSUME NEW t \in Tasks, Process(t)
        PROVE  Same \/ Delivery!Deliver(t)
    BY <1>5 DEF Process, Delivery!Deliver, Same, Reports
  <1>6. ASSUME NEW t \in Tasks, \/ InitReplyLost(t) \/ Interrupted(t) \/ FileGone(t) \/ Unavailable(t)
                                \/ Begin(t) \/ Succeed(t) \/ GiveUp(t)
        PROVE  Same \/ Delivery!Next
    BY <1>6, DyingDelivers, BeginDelivers, OutcomeDelivers DEF Delivery!Next
  <1>7. ASSUME UNCHANGED vars PROVE Same
    BY <1>7 DEF vars, rows, tiktok, Same, Reports
  <1> QED
    BY <1>s, <1>1, <1>2, <1>3, <1>4, <1>5, <1>6, <1>7 DEF Next, WorkerStep, Delivery!Next

-----------------------------------------------------------------------------
(* Together.                                                                *)
Inv == /\ Typed /\ DraftKnown /\ Reviewed /\ Posted /\ Begun /\ Named
       /\ OneDraft /\ Logged

LEMMA InitInv ==
  ASSUME Init
  PROVE  Inv /\ Final /\ NotStuckUploading
  <1>1. /\ \A t \in Tasks : /\ status[t] = "absent" /\ of[t] = NoClip /\ run[t] = Idle
                            /\ inits[t] = 0 /\ t \notin posting
        /\ \A c \in Clips : latest[c] = "none"
        /\ faults = 0
    BY DEF Init
  <1> QED
    BY <1>1, InitTyped
    DEF Inv, DraftKnown, WithDraft, Reviewed, Posted, Begun, Attempting, Working, Calling,
        Named, Resumable, OneDraft, Logged, Terminal, Final, NotStuckUploading, Live, Exists, Idle

LEMMA StepInv ==
  ASSUME Inv, [Next]_vars
  PROVE  Inv'
  <1>1. Typed'
    BY StepTyped DEF Inv
  <1> QED
    BY <1>1, StepDraft, StepReviewed, StepPosted, StepBegun, StepNamed, StepOneDraft, StepLogged
    DEF Inv

(* Inv holds throughout.                                                    *)
LEMMA Invariant == Spec => []Inv
  <1>1. Init => Inv
    BY InitInv
  <1>2. Inv /\ [Next]_vars => Inv'
    BY StepInv
  <1> QED BY <1>1, <1>2, PTL DEF Spec

(* The columns keep their types, and so does what TikTok has: an attempt    *)
(* sends bytes for a draft that was opened, and a row names such a draft.   *)
THEOREM TypeCorrect == Spec => []TypeOK
  <1>1. Inv => TypeOK
    BY DEF Inv, Typed
  <1> QED BY <1>1, Invariant, PTL

(* "No code path uploads without a review_decision of approved", for any    *)
(* number of clips, tasks, workers, retries and interruptions.              *)
THEOREM NothingUnreviewed == Spec => []ReviewedFirst
  <1>1. Inv => ReviewedFirst
    BY DEF Inv, Reviewed, ReviewedFirst, Typed, TypeOK
  <1> QED BY <1>1, Invariant, PTL

(* A task says "uploaded" of a draft that is in the inbox.                  *)
THEOREM UploadedMeansDelivered == Spec => []UploadedIsDelivered
  <1>1. Inv => UploadedIsDelivered
    BY DEF Inv, Named, Uploaded, UploadedIsDelivered
  <1> QED BY <1>1, Invariant, PTL

(* The audit log tells of the attempt and of the outcome of every task that *)
(* is there.                                                                *)
THEOREM AuditIsComplete == Spec => []EveryAttemptIsLogged
  <1>1. Inv => EveryAttemptIsLogged
    BY DEF Inv, Begun, Logged, EveryAttemptIsLogged, Typed, TypeOK
  <1> QED BY <1>1, Invariant, PTL

(* A task that is "uploading" has a run that will change that, if either    *)
(* on_failure runs after every failed attempt or parked retries are run.    *)
THEOREM NeverStuck ==
  ASSUME EagerCallback \/ Scheduler
  PROVE  Spec => []NotStuckUploading
  <1>1. Init => Inv /\ NotStuckUploading
    BY InitInv
  <1>2. Inv /\ NotStuckUploading /\ [Next]_vars => (Inv /\ NotStuckUploading)'
    <2> SUFFICES ASSUME Inv, NotStuckUploading, [Next]_vars
                 PROVE  (Inv /\ NotStuckUploading)'
      OBVIOUS
    <2>1. Inv'
      BY StepInv
    <2> QED BY <2>1, StepNotStuck DEF Inv
  <1> QED BY <1>1, <1>2, PTL DEF Spec

(* With one worker process for the queue the daily cap bounds the uploaded  *)
(* tasks, however many are asked for, retried or deleted.                   *)
THEOREM CapKept ==
  ASSUME IsFiniteSet(Tasks), Workers = 1
  PROVE  Spec => []WithinDailyCap
  <1> DEFINE I == Inv /\ OneAtATime /\ Room
  <1>1. Init => I
    <2> SUFFICES ASSUME Init PROVE I
      OBVIOUS
    <2>1. \A t \in Tasks : status[t] = "absent" /\ run[t] = Idle
      BY DEF Init
    <2>2. Uploaded = {} /\ \A t \in Tasks : run[t].pc \notin Working
      BY <2>1 DEF Uploaded, Working, Calling, Idle
    <2>3. Cardinality(Uploaded) = 0
      BY <2>2, FS_EmptySet
    <2> QED BY <2>2, <2>3, InitInv, UploadAssumption DEF OneAtATime, Room, Attempting
  <1>2. I /\ [Next]_vars => I'
    <2> SUFFICES ASSUME I, [Next]_vars PROVE I'
      OBVIOUS
    <2>1. Inv'
      BY StepInv
    <2> QED BY <2>1, StepOneAtATime, StepRoom DEF Inv
  <1>3. I => WithinDailyCap
    BY DEF Room, WithinDailyCap
  <1> QED BY <1>1, <1>2, <1>3, PTL DEF Spec

(* Upload implements DraftDelivery when RQ runs on_failure after the last   *)
(* attempt only, as the workers take it to: what is said of a task is taken *)
(* back after a loss only, and drafts beyond the first are owed to losses.  *)
THEOREM Implements ==
  ASSUME ~EagerCallback
  PROVE  Spec => DeliversDrafts
  <1> DEFINE I == Inv /\ Final
  <1>1. Init => I /\ Delivery!Init
    <2> SUFFICES ASSUME Init PROVE I /\ Delivery!Init
      OBVIOUS
    <2>1. \A t \in Tasks : Report(status[t]) = "none"
      BY ReportOf DEF Init
    <2> QED BY <2>1, InitInv DEF Init, Delivery!Init
  <1>2. I /\ [Next]_vars => I' /\ [Delivery!Next]_(Delivery!vars)
    <2> SUFFICES ASSUME I, [Next]_vars
                 PROVE  I' /\ [Delivery!Next]_(Delivery!vars)
      OBVIOUS
    <2>1. Inv'
      BY StepInv
    <2>2. Final'
      BY <2>1, StepFinal DEF Inv
    <2> QED BY <2>1, <2>2, StepDelivers DEF Inv
  <1> QED BY <1>1, <1>2, PTL DEF Spec, DeliversDrafts, Delivery!Spec

=============================================================================
