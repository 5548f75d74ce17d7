------------------------------- MODULE Upload -------------------------------
(***************************************************************************)
(* Delivery of reviewed clips to TikTok as inbox drafts: the API requests  *)
(* that review and delete a clip and create an upload task, and the upload *)
(* worker, over rendered_clips, review_decisions, upload_tasks and         *)
(* upload_audit_log, with TikTok's side of it (external).                  *)
(*                                                                         *)
(* One attempt of run() is cut where it commits or calls TikTok:           *)
(*   queued -> (cap check) -> token -> init -> persist -> send -> poll     *)
(*          -> success | giveup -> ack                                     *)
(* and from token straight to poll when publish_id is set already.         *)
(*                                                                         *)
(* One creator account and one day: the daily cap counts the tasks of an   *)
(* account that were created in the last 24 hours.  Left out: the guards   *)
(* on target_mode and confidence_score (the API only writes "draft" and    *)
(* null), on a missing account (none is ever deleted) and on a clip that   *)
(* was never rendered; what a token refresh writes to the account.         *)
(***************************************************************************)
EXTENDS Naturals, FiniteSets

CONSTANTS
  Clips,          \* rendered clips
  Tasks,          \* upload_tasks ids the API may hand out
  NoClip,         \* the clip of a task that is not there yet
  Cap,            \* creator_accounts.daily_upload_cap
  Retries,        \* the max_retries upload is enqueued with
  Workers,        \* how many processes serve the upload queue
  MaxFaults,      \* bound on interruptions by the environment
  EagerCallback,  \* does RQ run on_failure after every failed attempt?
  Scheduler       \* does some process put due retries back on the queue?

ASSUME UploadAssumption ==
  /\ NoClip \notin Clips
  /\ Cap \in Nat \ {0}
  /\ Retries \in Nat
  /\ Workers \in Nat \ {0}
  /\ MaxFaults \in Nat
  /\ EagerCallback \in BOOLEAN
  /\ Scheduler \in BOOLEAN

(* upload_status; "absent" and "deleted" say that there is no row.          *)
Terminal == {"uploaded", "failed", "blocked"}
Statuses == {"absent", "queued", "uploading", "deleted"} \cup Terminal
Events   == {"attempt", "success", "failure", "blocked"}

(* "parked" is a retry whose interval is not over, or that no scheduler     *)
(* will ever run.                                                           *)
Calling == {"token", "init", "send", "poll"}          \* talking to TikTok
Working == Calling \cup {"persist", "success", "giveup", "ack"}
Pcs     == {"free", "parked", "queued"} \cup Working

VARIABLES
  latest,   \* [Clips]: the last review_decisions row of the clip
  approved, \* clips that an approving decision was ever recorded for
  clip,     \* [Clips]: "rendered", "fileless" (being deleted) or "deleted"
  status,   \* [Tasks]: upload_tasks.status
  of,       \* [Tasks]: upload_tasks.rendered_clip_id
  publish,  \* [Tasks]: upload_tasks.publish_id, 0 for null
  audit,    \* [Tasks]: the events in upload_audit_log
  posting,  \* tasks whose request has still to enqueue them
  run,      \* [Tasks]: RQ's job for the task, and the draft it works on
  inits,    \* [Tasks]: drafts TikTok opened for the task: 1..inits[t]
  sent,     \* [Tasks]: those of them TikTok has all the bytes of
  inbox,    \* [Tasks]: those that reached the creator's inbox
  refused,  \* [Tasks]: those TikTok failed
  faults    \* interruptions so far

tiktok == <<inits, sent, inbox, refused>>
rows == <<latest, approved, clip, of, posting>>
vars == <<rows, status, publish, audit, run, tiktok, faults>>

Idle == [pc |-> "free", left |-> 0, draft |-> 0]

Exists(t) == status[t] \notin {"absent", "deleted"}
Live(t) == run[t].pc # "free"
Goto(t, pc) == run' = [run EXCEPT ![t].pc = pc]
Finish(t) == run' = [run EXCEPT ![t] = Idle]
Uploaded == {t \in Tasks : status[t] = "uploaded"}

Init ==
  /\ latest = [c \in Clips |-> "none"]
  /\ approved = {}
  /\ clip = [c \in Clips |-> "rendered"]
  /\ status = [t \in Tasks |-> "absent"]
  /\ of = [t \in Tasks |-> NoClip]
  /\ publish = [t \in Tasks |-> 0]
  /\ audit = [t \in Tasks |-> {}]
  /\ posting = {}
  /\ run = [t \in Tasks |-> Idle]
  /\ inits = [t \in Tasks |-> 0]
  /\ sent = [t \in Tasks |-> {}]
  /\ inbox = [t \in Tasks |-> {}]
  /\ refused = [t \in Tasks |-> {}]
  /\ faults = 0

-----------------------------------------------------------------------------
(* The API                                                                  *)

(* "rejected" stands for every decision but approval: "skipped" is another. *)
ReviewClip(c) ==
  /\ clip[c] # "deleted"
  /\ \E d \in {"approved", "rejected"} :
       /\ latest' = [latest EXCEPT ![c] = d]
       /\ approved' = IF d = "approved" THEN approved \cup {c} ELSE approved
  /\ UNCHANGED <<clip, of, posting, status, publish, audit, run, tiktok, faults>>

CreateTask(t, c) ==  \* upload_clip up to its commit, less the review check
  /\ status[t] = "absent"
  /\ clip[c] # "deleted"
  /\ status' = [status EXCEPT ![t] = "queued"]
  /\ of' = [of EXCEPT ![t] = c]
  /\ posting' = posting \cup {t}
  /\ UNCHANGED <<latest, approved, clip, publish, audit, run, tiktok, faults>>

UploadClip_AnyDecision(t) ==  \* mutant: any decision will do
  \E c \in Clips : latest[c] # "none" /\ CreateTask(t, c)

UploadClip(t) ==
  \E c \in Clips : latest[c] = "approved" /\ CreateTask(t, c)

(* ... and the rest of the request.                                         *)
EnqueueUpload(t) ==
  /\ t \in posting
  /\ posting' = posting \ {t}
  /\ run' = [run EXCEPT ![t] = [Idle EXCEPT !.pc = "queued", !.left = Retries]]
  /\ UNCHANGED <<latest, approved, clip, of, status, publish, audit, tiktok, faults>>

RequestDies(t) ==
  /\ faults < MaxFaults
  /\ faults' = faults + 1
  /\ t \in posting
  /\ posting' = posting \ {t}
  /\ UNCHANGED <<latest, approved, clip, of, status, publish, audit, run, tiktok>>

(* delete_clip, or delete_stream_job of its stream job: the objects first,  *)
(* then the row, and by ON DELETE CASCADE its decisions, its tasks and      *)
(* their audit log.  (approved is not a row but what once happened.)        *)
DeleteObject(c) ==
  /\ clip[c] = "rendered"
  /\ clip' = [clip EXCEPT ![c] = "fileless"]
  /\ UNCHANGED <<latest, approved, of, posting, status, publish, audit, run, tiktok, faults>>

DeleteClip(c) ==
  LET gone == {t \in Tasks : of[t] = c}
  IN /\ clip[c] = "fileless"
     /\ clip' = [clip EXCEPT ![c] = "deleted"]
     /\ latest' = [latest EXCEPT ![c] = "none"]
     /\ status' = [t \in Tasks |-> IF t \in gone THEN "deleted" ELSE status[t]]
     /\ publish' = [t \in Tasks |-> IF t \in gone THEN 0 ELSE publish[t]]
     /\ audit' = [t \in Tasks |-> IF t \in gone THEN {} ELSE audit[t]]
     /\ UNCHANGED <<approved, of, posting, run, tiktok, faults>>

-----------------------------------------------------------------------------
(* TikTok (external): a draft it has all the bytes of reaches the inbox, or *)
(* fails; one it has not can only fail.                                     *)
Process(t) ==
  \E d \in (1..inits[t]) \ (inbox[t] \cup refused[t]) :
    /\ \/ d \in sent[t] /\ inbox' = [inbox EXCEPT ![t] = @ \cup {d}] /\ UNCHANGED refused
       \/ refused' = [refused EXCEPT ![t] = @ \cup {d}] /\ UNCHANGED inbox
    /\ UNCHANGED <<rows, status, publish, audit, run, inits, sent, faults>>

-----------------------------------------------------------------------------
(* RQ                                                                       *)

(* _mark_failed, and on_failure: the row and the audit log in one commit.   *)
MarkFailed_NoAudit(t) ==  \* mutant: the audit row is forgotten
  /\ status' = IF Exists(t) THEN [status EXCEPT ![t] = "failed"] ELSE status
  /\ UNCHANGED audit

MarkFailed_OtherEnum(t) ==  \* mutant: a value upload_status does not have
  IF Exists(t)
  THEN /\ status' = [status EXCEPT ![t] = "failed_upload"]
       /\ audit' = [audit EXCEPT ![t] = @ \cup {"failure"}]
  ELSE UNCHANGED <<status, audit>>

MarkFailed(t) ==
  IF Exists(t)
  THEN /\ status' = [status EXCEPT ![t] = "failed"]
       /\ audit' = [audit EXCEPT ![t] = @ \cup {"failure"}]
  ELSE UNCHANGED <<status, audit>>

Raise_NoCallback(t) ==  \* mutant: enqueued without on_failure=
  /\ IF run[t].left > 0
     THEN run' = [run EXCEPT ![t] = [pc |-> "parked", left |-> run[t].left - 1, draft |-> 0]]
     ELSE Finish(t)
  /\ UNCHANGED <<status, audit>>

Raise_NeverGivesUp(t) ==  \* mutant: every attempt is granted another one
  /\ run' = [run EXCEPT ![t] = [pc |-> "parked", left |-> 0, draft |-> 0]]
  /\ UNCHANGED <<status, audit>>

Raise(t) ==
  /\ IF run[t].left > 0
     THEN run' = [run EXCEPT ![t] = [pc |-> "parked", left |-> run[t].left - 1, draft |-> 0]]
     ELSE Finish(t)
  /\ IF run[t].left = 0 \/ EagerCallback
     THEN MarkFailed(t)
     ELSE UNCHANGED <<status, audit>>

RunRetry(t) ==
  /\ Scheduler
  /\ run[t].pc = "parked"
  /\ Goto(t, "queued")
  /\ UNCHANGED <<rows, status, publish, audit, tiktok, faults>>

(* The attempt dies: killed, timed out, or refused by Postgres or Redis.    *)
Interrupted(t) ==
  /\ run[t].pc \notin {"free", "parked"}
  /\ faults < MaxFaults
  /\ faults' = faults + 1
  /\ Raise(t)
  /\ UNCHANGED <<rows, publish, tiktok>>

Ack(t) ==
  /\ run[t].pc = "ack"
  /\ Finish(t)
  /\ UNCHANGED <<rows, status, publish, audit, tiktok, faults>>

-----------------------------------------------------------------------------
(* run()                                                                    *)

DailyCapReached_OffByOne == Cardinality(Uploaded) > Cap  \* mutant: > for >=
DailyCapReached == Cardinality(Uploaded) >= Cap

(* The first transaction: log the attempt, check the cap, and take the      *)
(* publish_id of an earlier attempt along.                                  *)
Begin(t) ==
  /\ run[t].pc = "queued"
  /\ Cardinality({u \in Tasks : run[u].pc \in Working}) < Workers
  /\ \/ /\ ~Exists(t)
        /\ Finish(t)
        /\ UNCHANGED <<status, audit>>
     \/ /\ Exists(t) /\ DailyCapReached
        /\ status' = [status EXCEPT ![t] = "blocked"]
        /\ audit' = [audit EXCEPT ![t] = @ \cup {"attempt", "blocked"}]
        /\ Goto(t, "ack")
     \/ /\ Exists(t) /\ ~DailyCapReached
        /\ status' = [status EXCEPT ![t] = "uploading"]
        /\ audit' = [audit EXCEPT ![t] = @ \cup {"attempt"}]
        /\ run' = [run EXCEPT ![t].pc = "token", ![t].draft = publish[t]]
  /\ UNCHANGED <<rows, publish, tiktok, faults>>

GetToken_AlwaysInit(t) ==  \* mutant: existing_publish_id is ignored
  /\ run[t].pc = "token"
  /\ Goto(t, "init")
  /\ UNCHANGED <<rows, status, publish, audit, tiktok, faults>>

(* There is a token that TikTok accepts, refreshed if need be.              *)
GetToken(t) ==
  /\ run[t].pc = "token"
  /\ Goto(t, IF run[t].draft = 0 THEN "init" ELSE "poll")
  /\ UNCHANGED <<rows, status, publish, audit, tiktok, faults>>

(* The clip's file is read, and TikTok opens a draft for it ...             *)
InitUpload(t) ==
  /\ run[t].pc = "init"
  /\ clip[of[t]] = "rendered"
  /\ inits' = [inits EXCEPT ![t] = @ + 1]
  /\ run' = [run EXCEPT ![t].pc = "persist", ![t].draft = inits[t] + 1]
  /\ UNCHANGED <<rows, status, publish, audit, sent, inbox, refused, faults>>

(* ... or does, and its answer is lost (a timeout, which is retryable).     *)
InitReplyLost(t) ==
  /\ run[t].pc = "init"
  /\ clip[of[t]] = "rendered"
  /\ faults < MaxFaults
  /\ faults' = faults + 1
  /\ inits' = [inits EXCEPT ![t] = @ + 1]
  /\ Raise(t)
  /\ UNCHANGED <<rows, publish, sent, inbox, refused>>

PersistPublishId(t) ==
  /\ run[t].pc = "persist"
  /\ publish' = IF Exists(t) THEN [publish EXCEPT ![t] = run[t].draft] ELSE publish
  /\ Goto(t, "send")
  /\ UNCHANGED <<rows, status, audit, tiktok, faults>>

(* All chunks are sent, from S3's download or from the file itself.         *)
SendChunks(t) ==
  /\ run[t].pc = "send"
  /\ sent' = [sent EXCEPT ![t] = @ \cup {run[t].draft}]
  /\ Goto(t, "poll")
  /\ UNCHANGED <<rows, status, publish, audit, inits, inbox, refused, faults>>

(* The file has been deleted; an OSError is retryable.                      *)
FileGone(t) ==
  /\ run[t].pc \in {"init", "send"}
  /\ clip[of[t]] # "rendered"
  /\ Raise(t)
  /\ UNCHANGED <<rows, publish, tiktok, faults>>

(* TikTok answers a call with a 5xx, or is still processing when the        *)
(* polling budget runs out: TikTokAPIError(retryable=True).                 *)
Unavailable(t) ==
  /\ run[t].pc \in Calling
  /\ Raise(t)
  /\ UNCHANGED <<rows, publish, tiktok, faults>>

(* TikTok answers with a 4xx: retryable=False.                              *)
Rejected(t) ==
  /\ run[t].pc \in Calling
  /\ Goto(t, "giveup")
  /\ UNCHANGED <<rows, status, publish, audit, tiktok, faults>>

PollStatus_SentWillDo(t) ==  \* mutant: PROCESSING_UPLOAD counts as success
  /\ run[t].pc = "poll"
  /\ \/ run[t].draft \in sent[t] /\ Goto(t, "success")
     \/ run[t].draft \in refused[t] /\ Goto(t, "giveup")
  /\ UNCHANGED <<rows, status, publish, audit, tiktok, faults>>

PollStatus(t) ==
  /\ run[t].pc = "poll"
  /\ \/ run[t].draft \in inbox[t] /\ Goto(t, "success")
     \/ run[t].draft \in refused[t] /\ Goto(t, "giveup")
  /\ UNCHANGED <<rows, status, publish, audit, tiktok, faults>>

Succeed(t) ==
  /\ run[t].pc = "success"
  /\ IF Exists(t)
     THEN /\ status' = [status EXCEPT ![t] = "uploaded"]
          /\ audit' = [audit EXCEPT ![t] = @ \cup {"success"}]
     ELSE UNCHANGED <<status, audit>>
  /\ Goto(t, "ack")
  /\ UNCHANGED <<rows, publish, tiktok, faults>>

GiveUp(t) ==
  /\ run[t].pc = "giveup"
  /\ MarkFailed(t)
  /\ Goto(t, "ack")
  /\ UNCHANGED <<rows, publish, tiktok, faults>>

-----------------------------------------------------------------------------
WorkerStep(t) ==
  \/ RunRetry(t) \/ Begin(t) \/ GetToken(t) \/ InitUpload(t)
  \/ PersistPublishId(t) \/ SendChunks(t) \/ PollStatus(t)
  \/ FileGone(t) \/ Unavailable(t) \/ Rejected(t)
  \/ Succeed(t) \/ GiveUp(t) \/ Ack(t)

Next ==
  \/ \E c \in Clips : ReviewClip(c) \/ DeleteObject(c) \/ DeleteClip(c)
  \/ \E t \in Tasks : \/ UploadClip(t) \/ EnqueueUpload(t) \/ RequestDies(t)
                      \/ WorkerStep(t) \/ InitReplyLost(t) \/ Interrupted(t)
                      \/ Process(t)

Spec == Init /\ [][Next]_vars

(* Worker processes keep serving the queue and are not stuck in a call for  *)
(* ever (every request has a timeout, the polling a budget).  A creator is  *)
(* obliged to nothing, and neither is TikTok.                               *)
FairSpec == Spec /\ \A t \in Tasks : WF_vars(WorkerStep(t))

-----------------------------------------------------------------------------
TypeOK ==
  /\ latest \in [Clips -> {"none", "approved", "rejected"}]
  /\ approved \subseteq Clips
  /\ clip \in [Clips -> {"rendered", "fileless", "deleted"}]
  /\ status \in [Tasks -> Statuses]
  /\ of \in [Tasks -> Clips \cup {NoClip}]
  /\ publish \in [Tasks -> Nat]
  /\ audit \in [Tasks -> SUBSET Events]
  /\ posting \subseteq Tasks
  /\ run \in [Tasks -> [pc : Pcs, left : Nat, draft : Nat]]
  /\ inits \in [Tasks -> Nat]
  /\ \A t \in Tasks : /\ sent[t] \cup refused[t] \subseteq 1..inits[t]
                      /\ inbox[t] \subseteq sent[t]
                      /\ inbox[t] \cap refused[t] = {}
                      /\ publish[t] \in 0..inits[t]
                      /\ run[t].draft \in 0..inits[t]
  /\ faults \in 0..MaxFaults

(* "No code path uploads without a review_decision of approved": TikTok     *)
(* never hears of a clip that was not approved at some time, whatever the   *)
(* creator decides, deletes and requests while its tasks wait and retry.    *)
ReviewedFirst ==
  \A t \in Tasks : inits[t] > 0 => of[t] \in approved

(* A task that says "uploaded" is right: the draft that its publish_id      *)
(* names has reached the inbox.                                             *)
UploadedIsDelivered == \A t \in Uploaded : publish[t] \in inbox[t]

(* "Every upload attempt is logged": what a task has come to, and whether   *)
(* TikTok has been called for it, can be read off its audit log.            *)
Outcome == [uploaded |-> "success", failed |-> "failure", blocked |-> "blocked"]
EveryAttemptIsLogged ==
  \A t \in Tasks : Exists(t) =>
    /\ inits[t] > 0 => "attempt" \in audit[t]
    /\ status[t] \in Terminal => Outcome[status[t]] \in audit[t]

(* The daily cap bounds the account's uploaded tasks, whatever is retried   *)
(* or deleted.  With one worker process it holds; two may both pass the     *)
(* check for one place.                                                     *)
WithinDailyCap == Cardinality(Uploaded) <= Cap

(* All of it together keeps the promise of DraftDelivery: whatever the      *)
(* workers, RQ and the API do, a step of theirs is one it allows, or none.  *)
Report(s) ==
  CASE s = "absent"                  -> "none"
    [] s \in {"queued", "uploading"} -> "pending"
    [] s = "uploaded"                -> "uploaded"
    [] s \in {"failed", "blocked"}   -> "given up"
    [] OTHER                         -> "forgotten"
Delivery == INSTANCE DraftDelivery WITH
  report <- [t \in Tasks |-> Report(status[t])], opened <- inits, lost <- faults
DeliversDrafts == Delivery!Spec

(* A task that is "uploading" has a run that will still change that.        *)
NotStuckUploading ==
  \A t \in Tasks : status[t] = "uploading" =>
    Live(t) /\ (run[t].pc = "parked" => Scheduler)

(* The attempts at a task come to an end: TikTok is not called for ever,    *)
(* and a task that was begun does not stay "uploading" (NotStuckUploading). *)
AttemptsEnd ==
  \A t \in Tasks : <>[](Live(t) => run[t].pc = "parked" /\ ~Scheduler)

=============================================================================
