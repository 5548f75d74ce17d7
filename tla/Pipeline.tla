------------------------------ MODULE Pipeline ------------------------------
(***************************************************************************)
(* The stream-job pipeline: the API requests that create, cancel and       *)
(* delete a stream job, and the four per-job workers (ingest,              *)
(* transcription, segmentation, scoring) that RQ runs for it, over the     *)
(* rows of stream_jobs, transcripts, candidate_segments, rendered_clips    *)
(* and over the job's two storage objects.                                 *)
(*                                                                         *)
(* A worker's run() is cut where it commits, calls storage or enqueues:    *)
(*   queued -> (cancel check) -> begin -> fetch -> work [-> commit]        *)
(*          -> enqueue -> ack                                              *)
(* Everything between two of these points is local to the process, and     *)
(* other processes may run there.                                          *)
(*                                                                         *)
(* Left out: retry_count, last_error, durations, timeouts (an expired      *)
(* job_timeout is one of the causes of Interrupted) and the per-job        *)
(* overrides, none of which a worker branches on after the stage's own     *)
(* permanent-failure tests.  Rendering itself is a module of its own: here *)
(* a rendering job is only enqueued.                                       *)
(***************************************************************************)
EXTENDS Naturals, FiniteSets

CONSTANTS
  Jobs,           \* stream_jobs ids the API may hand out
  Windows,        \* the clip windows segmentation may propose for a video
  RqIds,          \* slots for live RQ jobs; bounds how many are live at once
  NoJob,          \* the stream job of an unused slot
  Retries,        \* Retries[s]: the max_retries stage s is enqueued with
  MaxClips,       \* stream_jobs.max_clips
  MaxFaults,      \* bound on interruptions by the environment
  EagerCallback,  \* does RQ run on_failure after every failed attempt (TRUE)
                  \* or only after the last one (FALSE)?
  Scheduler,      \* does some process run RQ's scheduler, which is what puts
                  \* a retry back on its queue once its interval is over?
  HearsInPlace    \* may a scoring attempt listen to the stored track itself
                  \* (TRUE: the flag is on, storage is local, the detector is
                  \* to be had), or may it not (FALSE)?  A set of BOOLEANs

Stages == {"ingest", "transcription", "segmentation", "scoring"}

ASSUME PipelineAssumption ==
  /\ NoJob \notin Jobs
  /\ IsFiniteSet(Windows)
  /\ Retries \in [Stages -> Nat]
  /\ MaxClips \in Nat \ {0}
  /\ MaxFaults \in Nat
  /\ EagerCallback \in BOOLEAN
  /\ Scheduler \in BOOLEAN
  /\ HearsInPlace \in (SUBSET BOOLEAN) \ {{}}

-----------------------------------------------------------------------------
(* The values of stream_job_status.  "absent" and "deleted" are not values  *)
(* of the column: they say that the row is not there yet, or no more.       *)

Doing == [ingest |-> "ingesting", transcription |-> "transcribing",
          segmentation |-> "segmenting", scoring |-> "scoring"]
Done == [ingest |-> "ingested", transcription |-> "transcribed",
         segmentation |-> "segmented", scoring |-> "scored"]
Failed == [ingest |-> "failed_ingest", transcription |-> "failed_transcription",
           segmentation |-> "failed_segmentation", scoring |-> "failed_scoring"]

InProgress == {Doing[s] : s \in Stages}
Completed  == {Done[s] : s \in Stages}
HasFailed  == {Failed[s] : s \in Stages}
Statuses == {"absent", "queued", "cancelled", "deleted"}
              \cup InProgress \cup Completed \cup HasFailed

(* TERMINAL_JOB_STATUSES, less the three values no code ever writes         *)
(* (ready_for_review, failed_rendering, archived).  "scored" is not in it.  *)
TerminalJobStatuses == {"cancelled"} \cup HasFailed

(* A candidate_segments row: its window, and which insertion it came from.  *)
Candidates == Windows \X Nat
(* A rendered_clips row: its candidate, and which clip of it this is.       *)
Clips == Candidates \X Nat

Pcs == {"free", "scheduled", "queued", "begin", "fetch", "work", "commit",
        "enqueue", "ack"}
RqJob == [pc    : Pcs,
          job   : Jobs \cup {NoJob},
          stage : Stages,
          left  : Nat,                    \* RQ's retries_left
          text  : BOOLEAN,                \* transcript_segments as read
          seen  : SUBSET Candidates,      \* candidate_rows as read by scoring
          todo  : SUBSET Candidates]      \* rendering_enqueue_ids still to do

VARIABLES
  status,      \* stream_jobs.status
  api,         \* API requests between their two halves: <<kind, job>>
  store,       \* objects in storage: "raw" video, "audio" track
  transcript,  \* is there a transcripts row?
  pending, selected, rejected,  \* candidate_segments rows, by status
  clips,       \* rendered_clips rows
  renders,     \* candidates a rendering job was enqueued for
  rq,          \* the RQ jobs of the four stages
  faults       \* interruptions so far

rows == <<transcript, pending, selected, rejected, clips>>
vars == <<status, api, store, rows, renders, rq, faults>>

Unused == [pc |-> "free", job |-> NoJob, stage |-> "ingest", left |-> 0,
           text |-> FALSE, seen |-> {}, todo |-> {}]
NewRqJob(j, s) == [Unused EXCEPT !.pc = "queued", !.job = j, !.stage = s,
                                 !.left = Retries[s]]

Exists(j) == status[j] \notin {"absent", "deleted"}
Live(r) == rq[r].pc # "free"
At(r, s, pc) == rq[r].stage = s /\ rq[r].pc = pc
Goto(r, pc) == rq' = [rq EXCEPT ![r].pc = pc]
Finish(r) == rq' = [rq EXCEPT ![r] = Unused]
AllCandidates(j) == pending[j] \cup selected[j] \cup rejected[j]

Init ==
  /\ status = [j \in Jobs |-> "absent"]
  /\ api = {}
  /\ store = [j \in Jobs |-> {}]
  /\ transcript = [j \in Jobs |-> FALSE]
  /\ pending = [j \in Jobs |-> {}]
  /\ selected = [j \in Jobs |-> {}]
  /\ rejected = [j \in Jobs |-> {}]
  /\ clips = [j \in Jobs |-> {}]
  /\ renders = [j \in Jobs |-> {}]
  /\ rq = [r \in RqIds |-> Unused]
  /\ faults = 0

-----------------------------------------------------------------------------
(* RQ                                                                       *)

(* An exception leaves run(), or its process dies and RQ's maintenance      *)
(* finds the job abandoned: RQ schedules a retry while it has retries left, *)
(* and runs on_failure, which marks the stream job failed if its row exists.*)
MarkFailed_OtherEnum(j, s) ==  \* mutant: render_status_enum's "failed"
  status' = IF Exists(j) THEN [status EXCEPT ![j] = "failed"] ELSE status

MarkFailed(j, s) ==
  status' = IF Exists(j) THEN [status EXCEPT ![j] = Failed[s]] ELSE status

Raise_NoCallback(r) ==  \* mutant: enqueued without on_failure=
  /\ IF rq[r].left > 0
     THEN rq' = [rq EXCEPT ![r].pc = "scheduled", ![r].left = @ - 1]
     ELSE Finish(r)
  /\ UNCHANGED status

Raise_NeverGivesUp(r) ==  \* mutant: every attempt is granted another one
  /\ rq' = [rq EXCEPT ![r].pc = IF Scheduler THEN "scheduled" ELSE "queued"]
  /\ IF EagerCallback
     THEN MarkFailed(rq[r].job, rq[r].stage)
     ELSE UNCHANGED status

Raise(r) ==
  /\ IF rq[r].left > 0
     THEN rq' = [rq EXCEPT ![r].pc = "scheduled", ![r].left = @ - 1]
     ELSE Finish(r)
  /\ IF rq[r].left = 0 \/ EagerCallback
     THEN MarkFailed(rq[r].job, rq[r].stage)
     ELSE UNCHANGED status

(* The retry's interval is over.                                            *)
RunRetry(r) ==
  /\ Scheduler
  /\ rq[r].pc = "scheduled"
  /\ Goto(r, "queued")
  /\ UNCHANGED <<status, api, store, rows, renders, faults>>

EnqueueInto(r, j, s) == ~Live(r) /\ rq' = [rq EXCEPT ![r] = NewRqJob(j, s)]

EnqueueNext_Again(r, s) ==  \* mutant: the run does not get past its enqueue
  \E q \in RqIds :
    /\ ~Live(q)
    /\ rq' = [rq EXCEPT ![q] = NewRqJob(rq[r].job, s)]

(* enqueue() of the next stage by the run r, which then has only to return. *)
EnqueueNext(r, s) ==
  \E q \in RqIds :
    /\ ~Live(q)
    /\ rq' = [rq EXCEPT ![q] = NewRqJob(rq[r].job, s), ![r].pc = "ack"]

-----------------------------------------------------------------------------
(* The API                                                                  *)

(* The upload is in storage and the row committed, but not yet enqueued.    *)
CreateJob(j) ==
  /\ status[j] = "absent"
  /\ status' = [status EXCEPT ![j] = "queued"]
  /\ store' = [store EXCEPT ![j] = {"raw"}]
  /\ api' = api \cup {<<"create", j>>}
  /\ UNCHANGED <<rows, renders, rq, faults>>

EnqueueIngest(j) ==
  /\ <<"create", j>> \in api
  /\ api' = api \ {<<"create", j>>}
  /\ \E r \in RqIds : EnqueueInto(r, j, "ingest")
  /\ UNCHANGED <<status, store, rows, renders, faults>>

(* The status is tested on the row as the request loaded it ...             *)
CancelCheck(j) ==
  /\ Exists(j)
  /\ status[j] \notin TerminalJobStatuses
  /\ <<"cancel", j>> \notin api
  /\ api' = api \cup {<<"cancel", j>>}
  /\ UNCHANGED <<status, store, rows, renders, rq, faults>>

(* ... and written without a second look.                                   *)
CancelWrite(j) ==
  /\ <<"cancel", j>> \in api
  /\ api' = api \ {<<"cancel", j>>}
  /\ status' = IF Exists(j) THEN [status EXCEPT ![j] = "cancelled"] ELSE status
  /\ UNCHANGED <<store, rows, renders, rq, faults>>

DeleteFiles_KeepsRaw(j) ==  \* mutant: raw_object_key is forgotten
  /\ Exists(j)
  /\ <<"delete", j>> \notin api
  /\ store' = [store EXCEPT ![j] = @ \ {"audio"}]
  /\ api' = api \cup {<<"delete", j>>}
  /\ UNCHANGED <<status, rows, renders, rq, faults>>

DeleteFiles(j) ==
  /\ Exists(j)
  /\ <<"delete", j>> \notin api
  /\ store' = [store EXCEPT ![j] = {}]
  /\ api' = api \cup {<<"delete", j>>}
  /\ UNCHANGED <<status, rows, renders, rq, faults>>

(* The foreign keys' ON DELETE CASCADE takes the rows under the job along.  *)
DeleteRows(j) ==
  /\ <<"delete", j>> \in api
  /\ api' = api \ {<<"delete", j>>}
  /\ status' = [status EXCEPT ![j] = "deleted"]
  /\ transcript' = [transcript EXCEPT ![j] = FALSE]
  /\ pending' = [pending EXCEPT ![j] = {}]
  /\ selected' = [selected EXCEPT ![j] = {}]
  /\ rejected' = [rejected EXCEPT ![j] = {}]
  /\ clips' = [clips EXCEPT ![j] = {}]
  /\ UNCHANGED <<store, renders, rq, faults>>

(* The API process dies, or Redis or Postgres refuses the second half.      *)
RequestDies(j) ==
  /\ faults < MaxFaults
  /\ faults' = faults + 1
  /\ \E kind \in {"create", "cancel", "delete"} :
       <<kind, j>> \in api /\ api' = api \ {<<kind, j>>}
  /\ UNCHANGED <<status, store, rows, renders, rq>>

-----------------------------------------------------------------------------
(* What the four workers share                                              *)

Dequeue_NoCheck(r) ==  \* mutant: a worker that forgot the cancel check
  /\ rq[r].pc = "queued"
  /\ Goto(r, "begin")
  /\ UNCHANGED <<status, api, store, rows, renders, faults>>

(* job_is_cancelled, in a session of its own.  A row that is gone is not    *)
(* cancelled.                                                               *)
Dequeue(r) ==
  /\ rq[r].pc = "queued"
  /\ IF status[rq[r].job] = "cancelled" THEN Finish(r) ELSE Goto(r, "begin")
  /\ UNCHANGED <<status, api, store, rows, renders, faults>>

(* The first transaction: Doing[s] is written over whatever is there, and   *)
(* what the stage needs of the rows is copied out of them.                  *)
Begin(r) ==
  LET j == rq[r].job
      s == rq[r].stage
  IN /\ rq[r].pc = "begin"
     /\ IF Exists(j)
        THEN /\ status' = [status EXCEPT ![j] = Doing[s]]
             /\ rq' = [rq EXCEPT ![r].pc = "fetch",
                                 ![r].text = transcript[j],
                                 ![r].seen = IF s = "scoring" THEN pending[j]
                                             ELSE {}]
        ELSE /\ Finish(r)
             /\ UNCHANGED status
     /\ UNCHANGED <<api, store, rows, renders, faults>>

(* The object a stage cannot do without.  Scoring reuses the scene cuts and *)
(* degrades gracefully where it wants a file.                               *)
Input == [ingest |-> {"raw"}, transcription |-> {"audio"},
          segmentation |-> {"raw"}, scoring |-> {}]

(* Segmentation needs a transcript, scoring that and candidates.            *)
HasRows(r) ==
  /\ rq[r].stage \in {"segmentation", "scoring"} => rq[r].text
  /\ rq[r].stage = "scoring" => rq[r].seen # {}

Fetch(r) ==
  /\ rq[r].pc = "fetch"
  /\ rq[r].stage # "scoring"
  /\ HasRows(r)
  /\ Input[rq[r].stage] \subseteq store[rq[r].job]
  /\ Goto(r, "work")
  /\ UNCHANGED <<status, api, store, rows, renders, faults>>

(* S3 storage raises on the download; local storage hands out a path that   *)
(* stops existing while the stage works on it, which is what os.remove of   *)
(* it (see Listen) may find as well.                                        *)
WentMissing(r) ==
  LET objects == store[rq[r].job]
  IN \/ ~(Input[rq[r].stage] \subseteq objects)
     \/ TRUE \in HearsInPlace /\ At(r, "scoring", "fetch") /\ "audio" \notin objects

InputGone(r) ==
  /\ rq[r].pc \in {"fetch", "work"}
  /\ HasRows(r)
  /\ WentMissing(r)
  /\ Raise(r)
  /\ UNCHANGED <<api, store, rows, renders, faults>>

(* A permanent failure (bad file, no speech, no windows, ...): the stream   *)
(* job is marked failed and run() returns, so that RQ does not retry.       *)
StageFails(r) ==
  /\ rq[r].pc \in {"fetch", "work"}
  /\ rq[r].stage = "scoring" => ~HasRows(r)
  /\ MarkFailed(rq[r].job, rq[r].stage)
  /\ Finish(r)
  /\ UNCHANGED <<api, store, rows, renders, faults>>

(* The commit of a stage whose stream job was deleted underneath it: the    *)
(* row is None, or the foreign key of the new rows fails.                   *)
CommitFails(r) ==
  /\ Raise(r)
  /\ UNCHANGED <<store, rows, renders>>

(* The attempt dies: a transient error of a library or a service, a lost    *)
(* connection, RQ's job_timeout, a killed worker.                           *)
Interrupted(r) ==
  /\ rq[r].pc \notin {"free", "scheduled"}
  /\ faults < MaxFaults
  /\ faults' = faults + 1
  /\ Raise(r)
  /\ UNCHANGED <<api, store, rows, renders>>

(* RQ records that run() has returned.                                      *)
Ack(r) ==
  /\ rq[r].pc = "ack"
  /\ Finish(r)
  /\ UNCHANGED <<status, api, store, rows, renders, faults>>

-----------------------------------------------------------------------------
(* ingest.run                                                               *)

PutAudio(r) ==
  /\ At(r, "ingest", "work")
  /\ store' = [store EXCEPT ![rq[r].job] = @ \cup {"audio"}]
  /\ Goto(r, "commit")
  /\ UNCHANGED <<status, api, rows, renders, faults>>

CommitIngest(r) ==
  /\ At(r, "ingest", "commit")
  /\ IF Exists(rq[r].job)
     THEN /\ status' = [status EXCEPT ![rq[r].job] = "ingested"]
          /\ Goto(r, "enqueue")
          /\ UNCHANGED <<store, rows, renders>>
     ELSE CommitFails(r)
  /\ UNCHANGED <<api, faults>>

EnqueueTranscription(r) ==
  /\ At(r, "ingest", "enqueue")
  /\ EnqueueNext(r, "transcription")
  /\ UNCHANGED <<status, api, store, rows, renders, faults>>

(* transcription.run                                                        *)

(* uq_transcript_stream_job admits one transcript per stream job, and the   *)
(* foreign key none without its stream job.                                 *)
InsertsTranscript_NotUnique(j) == Exists(j)  \* mutant: no unique constraint
InsertsTranscript(j) == Exists(j) /\ ~transcript[j]

CommitTranscript(r) ==
  LET j == rq[r].job
  IN /\ At(r, "transcription", "work")
     /\ IF InsertsTranscript(j)
        THEN /\ transcript' = [transcript EXCEPT ![j] = TRUE]
             /\ status' = [status EXCEPT ![j] = "transcribed"]
             /\ Goto(r, "enqueue")
             /\ UNCHANGED <<store, pending, selected, rejected, clips, renders>>
        ELSE CommitFails(r)
     /\ UNCHANGED <<api, faults>>

EnqueueSegmentation(r) ==
  /\ At(r, "transcription", "enqueue")
  /\ EnqueueNext(r, "segmentation")
  /\ UNCHANGED <<status, api, store, rows, renders, faults>>

(* segmentation.run                                                         *)

CommitCandidates(r) ==
  LET j == rq[r].job
      n == Cardinality(AllCandidates(j))
  IN /\ At(r, "segmentation", "work")
     /\ IF Exists(j)
        THEN /\ \E ws \in SUBSET Windows \ {{}} :
                  pending' = [pending EXCEPT ![j] = @ \cup (ws \X {n})]
             /\ status' = [status EXCEPT ![j] = "segmented"]
             /\ Goto(r, "enqueue")
             /\ UNCHANGED <<store, transcript, selected, rejected, clips, renders>>
        ELSE CommitFails(r)
     /\ UNCHANGED <<api, faults>>

EnqueueScoring(r) ==
  /\ At(r, "segmentation", "enqueue")
  /\ EnqueueNext(r, "scoring")
  /\ UNCHANGED <<status, api, store, rows, renders, faults>>

(* scoring.run                                                              *)

(* _compute_audio_events, whose finally clause removes the file it listened *)
(* to: with S3 its own copy, with local storage the stored track itself.    *)
Listen(r) ==
  /\ At(r, "scoring", "fetch")
  /\ HasRows(r)
  /\ \E inPlace \in HearsInPlace :
       store' = [store EXCEPT ![rq[r].job] = IF inPlace THEN @ \ {"audio"} ELSE @]
  /\ Goto(r, "work")
  /\ UNCHANGED <<status, api, rows, renders, faults>>

(* What select_top_non_overlapping may return: at most max_clips of the     *)
(* candidates, no two of one window, possibly none (min_score).             *)
Selections(cs) ==
  {S \in SUBSET cs : /\ Cardinality(S) <= MaxClips
                     /\ \A c, d \in S : c[1] = d[1] => c = d}

(* The rows are written by id, whatever their status has become.            *)
CommitScores(r) ==
  LET j == rq[r].job
      cs == rq[r].seen
      n == Cardinality(clips[j])
  IN /\ At(r, "scoring", "work")
     /\ IF Exists(j)
        THEN /\ \E S \in Selections(cs) :
                  /\ pending' = [pending EXCEPT ![j] = @ \ cs]
                  /\ selected' = [selected EXCEPT ![j] = (@ \ cs) \cup S]
                  /\ rejected' = [rejected EXCEPT ![j] = (@ \cup cs) \ S]
                  /\ clips' = [clips EXCEPT ![j] = @ \cup (S \X {n})]
                  /\ rq' = [rq EXCEPT ![r].pc = "enqueue", ![r].todo = S]
             /\ status' = [status EXCEPT ![j] = "scored"]
             /\ UNCHANGED <<store, transcript, renders>>
        ELSE CommitFails(r)
     /\ UNCHANGED <<api, faults>>

EnqueueRendering_UnlessCancelled(r) ==  \* mutant: a cancel check in the loop
  /\ At(r, "scoring", "enqueue")
  /\ IF rq[r].todo = {} \/ status[rq[r].job] = "cancelled"
     THEN Goto(r, "ack") /\ UNCHANGED renders
     ELSE \E c \in rq[r].todo :
            /\ renders' = [renders EXCEPT ![rq[r].job] = @ \cup {c}]
            /\ rq' = [rq EXCEPT ![r].todo = @ \ {c}]
  /\ UNCHANGED <<status, api, store, rows, faults>>

EnqueueRendering(r) ==
  /\ At(r, "scoring", "enqueue")
  /\ IF rq[r].todo = {}
     THEN Goto(r, "ack") /\ UNCHANGED renders
     ELSE \E c \in rq[r].todo :
            /\ renders' = [renders EXCEPT ![rq[r].job] = @ \cup {c}]
            /\ rq' = [rq EXCEPT ![r].todo = @ \ {c}]
  /\ UNCHANGED <<status, api, store, rows, faults>>

-----------------------------------------------------------------------------
Ingest(r) == PutAudio(r) \/ CommitIngest(r) \/ EnqueueTranscription(r)
Transcription(r) == CommitTranscript(r) \/ EnqueueSegmentation(r)
Segmentation(r) == CommitCandidates(r) \/ EnqueueScoring(r)
Scoring(r) == Listen(r) \/ CommitScores(r) \/ EnqueueRendering(r)

WorkerStep(r) ==
  \/ RunRetry(r) \/ Dequeue(r) \/ Begin(r) \/ Fetch(r) \/ InputGone(r)
  \/ Ingest(r) \/ Transcription(r) \/ Segmentation(r) \/ Scoring(r)
  \/ StageFails(r) \/ Ack(r)

ApiStep(j) ==
  \/ CreateJob(j) \/ EnqueueIngest(j)
  \/ CancelCheck(j) \/ CancelWrite(j)
  \/ DeleteFiles(j) \/ DeleteRows(j)
  \/ RequestDies(j)

Next ==
  \/ \E j \in Jobs : ApiStep(j)
  \/ \E r \in RqIds : WorkerStep(r) \/ Interrupted(r)

Spec == Init /\ [][Next]_vars

(* Worker processes keep taking jobs off their queues and never pause for   *)
(* ever inside one (job_timeout sees to that); a scheduler, where there is  *)
(* one, runs due retries.  Nothing obliges a creator to send a request.     *)
FairSpec == Spec /\ \A r \in RqIds : WF_vars(WorkerStep(r))

-----------------------------------------------------------------------------
TypeOK ==
  /\ status \in [Jobs -> Statuses]
  /\ api \subseteq {"create", "cancel", "delete"} \X Jobs
  /\ store \in [Jobs -> SUBSET {"raw", "audio"}]
  /\ transcript \in [Jobs -> BOOLEAN]
  /\ pending \in [Jobs -> SUBSET Candidates]
  /\ selected \in [Jobs -> SUBSET Candidates]
  /\ rejected \in [Jobs -> SUBSET Candidates]
  /\ clips \in [Jobs -> SUBSET Clips]
  /\ renders \in [Jobs -> SUBSET Candidates]
  /\ rq \in [RqIds -> RqJob]
  /\ \A r \in RqIds : Live(r) <=> rq[r].job # NoJob
  /\ faults \in 0..MaxFaults

Unsettled == InProgress \cup (Completed \ {"scored"})
LiveOf(j) == {r \in RqIds : Live(r) /\ rq[r].job = j}

(* Runs that are still to do or to hand on the work of their stage: a run   *)
(* at "ack" has nothing left to do, a scoring run at "enqueue" has          *)
(* committed the stream job's last status, and a retry that no scheduler    *)
(* will run is parked for good.                                             *)
Parked(r) == rq[r].pc = "scheduled" /\ ~Scheduler
CarryingOn(j) ==
  {r \in LiveOf(j) : \/ rq[r].pc = "scheduled" /\ Scheduler
                     \/ rq[r].pc \in {"queued", "begin", "fetch", "work", "commit"}
                     \/ rq[r].pc = "enqueue" /\ rq[r].stage # "scoring"}

(* A stream job that is part of the way through (an *ing status, or a       *)
(* completed stage that is not the last) always has a run that will still   *)
(* change that: whatever fails, is cancelled, deleted or retried, it never  *)
(* goes silently stuck.                                                     *)
NotStuckInStage ==
  \A j \in Jobs : status[j] \in Unsettled => CarryingOn(j) # {}

(* Retries may double the earlier stages, but the unique transcript row     *)
(* makes at most one run per stream job, ever at a time, that is or will    *)
(* enqueue segmentation: two of them would both insert candidates.          *)
SegmentationTokens(j) ==
  {r \in LiveOf(j) : At(r, "transcription", "enqueue") \/ rq[r].stage = "segmentation"}
OneSegmentationJob ==
  \A j \in Jobs : \A q, r \in SegmentationTokens(j) : q = r

(* A run that reads the transcript finds it: while the stream job exists,   *)
(* no segmentation or scoring run is ever live without one, so that their   *)
(* "no transcript segments" failures never come from the order of stages.   *)
TranscriptFirst ==
  \A j \in Jobs : \A r \in LiveOf(j) :
    rq[r].stage \in {"segmentation", "scoring"} /\ Exists(j) => transcript[j]

(* As long as there is no transcript, the audio track a transcription run   *)
(* is going to listen to is there, or the deletion that took it has taken   *)
(* the raw video too: scoring removes it only after the transcript that was *)
(* made of it.  (A repeated transcription may then find the track gone; the *)
(* transcript it could insert there is already.)                            *)
AudioFirst ==
  \A j \in Jobs : \A r \in LiveOf(j) :
    rq[r].stage = "transcription" /\ "raw" \in store[j] /\ ~transcript[j]
      => "audio" \in store[j]

(* A run finds what the stage before it has left: both of the above.        *)
InputsFirst == TranscriptFirst /\ AudioFirst

(* Unless some attempt is interrupted, one run at a time works on a stream  *)
(* job, ...                                                                 *)
SingleChain ==
  faults = 0 =>
    \A j \in Jobs : \A q, r \in CarryingOn(j) : q = r

(* ... and all of its clips have a rendering job in the end, cancelled      *)
(* meanwhile or not.  There are at most max_clips of them, and as many      *)
(* again for every interruption.                                            *)
ClipsAreRendered ==
  \A j \in Jobs :
    /\ Cardinality(clips[j]) <= (faults + 1) * MaxClips
    /\ faults = 0 /\ LiveOf(j) = {} => {c[1] : c \in clips[j]} \subseteq renders[j]

(* One run does it all, once: both of the above.                            *)
WorksOnce == SingleChain /\ ClipsAreRendered

(* What all of it comes to: the promise of ClipProduction, in which a row   *)
(* that is deleted has no rendering jobs any more.                          *)
Report(s) ==
  CASE s = "absent" -> "none"
    [] s = "deleted" -> "forgotten"
    [] s = "cancelled" -> "cancelled"
    [] s = "scored" -> "done"
    [] s \in HasFailed -> "failed"
    [] OTHER -> "underway"
Reports == [j \in Jobs |-> Report(status[j])]
Proposed == [j \in Jobs |-> AllCandidates(j)]
Asked == [j \in Jobs |-> IF Exists(j) THEN renders[j] ELSE {}]
Production == INSTANCE ClipProduction WITH
  report <- Reports, scripted <- transcript, proposed <- Proposed, chosen <- clips,
  rendering <- Asked, lost <- faults
ProducesClips == Production!Spec

(* Cancelled, and no run is between its cancel check and its return.        *)
Stopped(j) ==
  /\ status[j] = "cancelled"
  /\ \A r \in LiveOf(j) : rq[r].pc \in {"scheduled", "queued", "ack"}

(* "Queued-but-not-started work stops immediately": from there on no step   *)
(* starts a stage, stores an object or enqueues a rendering; the job stays  *)
(* stopped, is deleted, or a dying attempt's on_failure marks it failed.    *)
CancelStops ==
  [][\A j \in Jobs : Stopped(j) =>
       /\ Stopped(j)' \/ status'[j] \in HasFailed \cup {"deleted"}
       /\ store'[j] \subseteq store[j]
       /\ renders'[j] = renders[j]]_vars

(* Every stage that was begun ends: the job settles as scored, failed,      *)
(* cancelled or deleted (it may be taken out of that again by a cancel or a *)
(* run that lagged behind).                                                 *)
Settles ==
  \A j \in Jobs : status[j] \in Unsettled ~> status[j] \notin Unsettled

(* A stream job's runs come to an end: no failure is retried for ever, and  *)
(* no stage keeps enqueuing.                                                *)
Drains == <>[](\A r \in RqIds : Live(r) => Parked(r))

=============================================================================
