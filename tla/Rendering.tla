------------------------------ MODULE Rendering ------------------------------
(***************************************************************************)
(* From a selected candidate segment to a clip under review: the rendering *)
(* worker, the caption worker, and the API requests that review, edit and  *)
(* delete a clip or delete its stream job, over the candidate's row, its   *)
(* rendered_clips rows and their objects.  It begins where Pipeline ends,  *)
(* with a scoring run that has committed a clip and owes it a rendering    *)
(* job; Upload begins with a clip that is approved here.                   *)
(*                                                                         *)
(* rendering.run() is cut where it commits or stores:                      *)
(*   queued -> (cancel check) -> begin -> work -> video -> thumb -> commit *)
(*          -> ack                                                         *)
(*                                                                         *)
(* One candidate: candidates share nothing but their stream job.  Of the   *)
(* annotation (title, hashtags, caption) the model keeps who wrote it, and *)
(* leaves caption_text, written along with it, out; so are retry_count,    *)
(* last_error, flag_reasons, durations and layouts (see Framing), none of  *)
(* which decides a step.                                                   *)
(***************************************************************************)
EXTENDS Naturals, FiniteSets

CONSTANTS
  MaxClips,       \* bound on rendered_clips rows of the candidate
  Runs,           \* RQ jobs of the rendering queue
  Retries,        \* the max_retries rendering is enqueued with
  MaxFaults,      \* bound on interruptions by the environment
  EagerCallback,  \* does RQ run on_failure after every failed attempt?
  Scheduler       \* does some process put due retries back on the queue?

ASSUME RenderingAssumption ==
  /\ MaxClips \in Nat \ {0}
  /\ Retries \in Nat
  /\ MaxFaults \in Nat
  /\ EagerCallback \in BOOLEAN
  /\ Scheduler \in BOOLEAN

(* rendered_clips ids, in the order of created_at; 0 is no clip.            *)
Clips == 1..MaxClips
(* render_status; "absent" and "deleted" say that there is no row.          *)
Statuses == {"absent", "pending", "rendering", "rendered", "failed", "deleted"}
(* llm_annotation's source: none, a worker's (LLM or heuristic) or an edit. *)
Sources == {"none", "generated", "manual_edit"}

Pcs == {"free", "parked", "queued", "begin", "work", "video", "thumb",
        "commit", "ack"}

VARIABLES
  job,         \* stream_jobs.status: "cancelled", "failed" for failed_scoring,
               \* "active" for all others there can be, "deleted" for no row
  dropped,     \* has the cancel check ever ended a run?  (history)
  raw,         \* is its video in storage?
  clip,        \* [Clips]: rendered_clips.status
  video,       \* [Clips]: object_key, 0 for null
  thumb,       \* [Clips]: thumbnail_key, 0 for null
  annotation,  \* candidate_segments.llm_annotation, by its source
  approved,    \* [Clips]: the video its last approval was given to, 0 for none
  store,       \* keys of clips' objects in storage
  owed,        \* rendering jobs scoring has still to enqueue
  requests,    \* API requests, and caption runs, between their two halves
  run,         \* [Runs]
  faults       \* interruptions so far

jobRow == <<job, dropped>>
objects == <<video, thumb, store>>
vars == <<jobRow, raw, clip, annotation, objects, approved, owed, requests, run, faults>>

Idle == [pc |-> "free", left |-> 0, clip |-> 0, video |-> 0, thumb |-> 0]

Exists(c) == clip[c] \notin {"absent", "deleted"}
Existing == {c \in Clips : Exists(c)}
(* order_by(created_at.desc()).first()                                      *)
LatestClip == IF Existing = {} THEN 0
              ELSE CHOOSE c \in Existing : \A d \in Existing : d <= c
Live(r) == run[r].pc # "free"
Goto(r, pc) == run' = [run EXCEPT ![r].pc = pc]
Return(r) == run' = [run EXCEPT ![r] = [Idle EXCEPT !.pc = "ack", !.left = run[r].left]]
Finish(r) == run' = [run EXCEPT ![r] = Idle]

(* new_object_key: none that is or was handed out and still is anywhere.    *)
Handed == store \cup {video[c] : c \in Clips} \cup {thumb[c] : c \in Clips}
                \cup {approved[c] : c \in Clips}
                \cup {run[r].video : r \in Runs} \cup {run[r].thumb : r \in Runs}
NewKey == CHOOSE k \in 1..(Cardinality(Handed) + 1) : k \notin Handed

(* The cascades of a deletion: rows of clips and of their review decisions. *)
DeleteRowsOf(gone) ==
  /\ clip' = [c \in Clips |-> IF c \in gone THEN "deleted" ELSE clip[c]]
  /\ video' = [c \in Clips |-> IF c \in gone THEN 0 ELSE video[c]]
  /\ thumb' = [c \in Clips |-> IF c \in gone THEN 0 ELSE thumb[c]]
  /\ approved' = [c \in Clips |-> IF c \in gone THEN 0 ELSE approved[c]]

Init ==
  /\ job = "active"
  /\ dropped = FALSE
  /\ raw = TRUE
  /\ clip = [c \in Clips |-> "absent"]
  /\ video = [c \in Clips |-> 0]
  /\ thumb = [c \in Clips |-> 0]
  /\ annotation = "none"
  /\ approved = [c \in Clips |-> 0]
  /\ store = {}
  /\ owed = 0
  /\ requests = {}
  /\ run = [r \in Runs |-> Idle]
  /\ faults = 0

-----------------------------------------------------------------------------
(* Scoring, at its commit and in its loop of enqueues.  A second clip of    *)
(* the candidate is due to a scoring job that some interruption doubled.    *)
(* job.status = "scored" is written over whatever the row says by then.     *)
AddClip ==
  /\ job # "deleted"
  /\ \E c \in Clips :
       /\ clip[c] = "absent"
       /\ \A d \in Clips : d < c => clip[d] # "absent"
       /\ clip' = [clip EXCEPT ![c] = "pending"]
       /\ faults' = IF c = 1 THEN faults ELSE faults + 1
  /\ faults' <= MaxFaults
  /\ owed' = owed + 1
  /\ job' = "active"
  /\ UNCHANGED <<dropped, raw, annotation, objects, approved, requests, run>>

EnqueueRendering_Again(r) ==  \* mutant: the loop does not get past the clip
  /\ owed > 0
  /\ ~Live(r)
  /\ run' = [run EXCEPT ![r] = [Idle EXCEPT !.pc = "queued", !.left = Retries]]
  /\ UNCHANGED <<jobRow, raw, clip, annotation, objects, approved, owed, requests, faults>>

EnqueueRendering(r) ==
  /\ owed > 0
  /\ ~Live(r)
  /\ owed' = owed - 1
  /\ run' = [run EXCEPT ![r] = [Idle EXCEPT !.pc = "queued", !.left = Retries]]
  /\ UNCHANGED <<jobRow, raw, clip, annotation, objects, approved, requests, faults>>

(* It dies in that loop; if this was its last attempt, on_failure writes    *)
(* failed_scoring.                                                          *)
ScoringDies ==
  /\ owed > 0
  /\ faults < MaxFaults
  /\ faults' = faults + 1
  /\ owed' = 0
  /\ job' \in IF job = "deleted" THEN {job} ELSE {job, "failed"}
  /\ UNCHANGED <<dropped, raw, clip, annotation, objects, approved, requests, run>>

(* A scoring attempt after the one that committed, repeated or doubled by   *)
(* an interruption: past its own cancel check it writes "scoring" and, no   *)
(* candidate being left to score, failed_scoring over whatever is there.    *)
(* (So does, with statuses of its own, a doubled run of an earlier stage.)  *)
ScoringAgain ==
  /\ faults < MaxFaults
  /\ faults' = faults + 1
  /\ clip[1] # "absent"
  /\ job # "deleted"
  /\ job' \in {"active", "failed"}
  /\ UNCHANGED <<dropped, raw, clip, annotation, objects, approved, owed, requests, run>>

-----------------------------------------------------------------------------
(* The API.  Of each kind of request, one at a time is between its halves.  *)
Pending(kind) == \E q \in requests : q[1] = kind

CancelJob ==
  /\ job = "active"
  /\ job' = "cancelled"
  /\ UNCHANGED <<dropped, raw, clip, annotation, objects, approved, owed, requests, run, faults>>

(* An approving decision (the others are Upload's).                         *)
ReviewClip(c) ==
  /\ clip[c] = "rendered"
  /\ approved' = [approved EXCEPT ![c] = video[c]]
  /\ UNCHANGED <<jobRow, raw, clip, annotation, objects, owed, requests, run, faults>>

UpdateClipCaption(c) ==
  /\ Exists(c)
  /\ annotation' = "manual_edit"
  /\ UNCHANGED <<jobRow, raw, clip, objects, approved, owed, requests, run, faults>>

(* caption_generation.run, which somebody enqueues by hand: between its two *)
(* transactions it waits for an LLM.                                        *)
BeginCaption(c) ==
  /\ job # "cancelled"
  /\ c = LatestClip /\ c # 0
  /\ ~Pending("caption")
  /\ requests' = requests \cup {<<"caption", c>>}
  /\ UNCHANGED <<jobRow, raw, clip, annotation, objects, approved, owed, run, faults>>

CommitCaption(c) ==
  /\ <<"caption", c>> \in requests
  /\ requests' = requests \ {<<"caption", c>>}
  /\ annotation' = IF Exists(c) THEN "generated" ELSE annotation
  /\ UNCHANGED <<jobRow, raw, clip, objects, approved, owed, run, faults>>

(* delete_clip and delete_stream_job: objects first, then rows.  A request  *)
(* that dies in between is one whose second half is never taken.            *)
DeleteClipFiles(c) ==
  /\ Exists(c)
  /\ ~Pending("delete")
  /\ store' = store \ {video[c], thumb[c]}
  /\ requests' = requests \cup {<<"delete", c>>}
  /\ UNCHANGED <<jobRow, raw, clip, annotation, video, thumb, approved, owed, run, faults>>

DeleteClipRow(c) ==
  /\ <<"delete", c>> \in requests
  /\ requests' = requests \ {<<"delete", c>>}
  /\ DeleteRowsOf({c} \cap Existing)
  /\ UNCHANGED <<jobRow, raw, annotation, store, owed, run, faults>>

DeleteJobFiles ==
  /\ job # "deleted"
  /\ ~Pending("delete")
  /\ raw' = FALSE
  /\ store' = store \ UNION {{video[c], thumb[c]} : c \in Existing}
  /\ requests' = requests \cup {<<"delete", 0>>}
  /\ UNCHANGED <<jobRow, clip, annotation, video, thumb, approved, owed, run, faults>>

DeleteJobRows ==
  /\ <<"delete", 0>> \in requests
  /\ requests' = requests \ {<<"delete", 0>>}
  /\ job' = "deleted"
  /\ DeleteRowsOf(Existing)
  /\ UNCHANGED <<dropped, raw, annotation, store, owed, run, faults>>

-----------------------------------------------------------------------------
(* RQ                                                                       *)

(* _mark_failed, for the clip the attempt works on ...                      *)
MarkFailed_OtherEnum(c) ==  \* mutant: stream_job_status_enum's value
  clip' = IF c # 0 /\ Exists(c) THEN [clip EXCEPT ![c] = "failed_rendering"] ELSE clip

MarkFailed(c) ==
  clip' = IF c # 0 /\ Exists(c) THEN [clip EXCEPT ![c] = "failed"] ELSE clip

(* ... and on_failure, for the candidate's latest.                          *)
Raise_NoCallback(r) ==  \* mutant: enqueued without on_failure=
  /\ IF run[r].left > 0
     THEN run' = [run EXCEPT ![r] = [Idle EXCEPT !.pc = "parked", !.left = run[r].left - 1]]
     ELSE Finish(r)
  /\ UNCHANGED clip

Raise(r) ==
  /\ IF run[r].left > 0
     THEN run' = [run EXCEPT ![r] = [Idle EXCEPT !.pc = "parked", !.left = run[r].left - 1]]
     ELSE Finish(r)
  /\ IF run[r].left = 0 \/ EagerCallback THEN MarkFailed(LatestClip) ELSE UNCHANGED clip

RunRetry(r) ==
  /\ Scheduler
  /\ run[r].pc = "parked"
  /\ Goto(r, "queued")
  /\ UNCHANGED <<jobRow, raw, clip, annotation, objects, approved, owed, requests, faults>>

(* The attempt dies: killed, timed out, or refused by storage or Postgres.  *)
Interrupted(r) ==
  /\ run[r].pc \notin {"free", "parked", "queued"}
  /\ faults < MaxFaults
  /\ faults' = faults + 1
  /\ Raise(r)
  /\ UNCHANGED <<jobRow, raw, annotation, objects, approved, owed, requests>>

Ack(r) ==
  /\ run[r].pc = "ack"
  /\ Finish(r)
  /\ UNCHANGED <<jobRow, raw, clip, annotation, objects, approved, owed, requests, faults>>

-----------------------------------------------------------------------------
(* rendering.run()                                                          *)

Dequeue_NoCheck(r) ==  \* mutant: a worker that forgot the cancel check
  /\ run[r].pc = "queued"
  /\ Goto(r, "begin")
  /\ UNCHANGED <<jobRow, raw, clip, annotation, objects, approved, owed, requests, faults>>

(* candidate_job_is_cancelled                                               *)
Dequeue(r) ==
  /\ run[r].pc = "queued"
  /\ IF job = "cancelled" THEN Finish(r) ELSE Goto(r, "begin")
  /\ dropped' = (dropped \/ job = "cancelled")
  /\ UNCHANGED <<job, raw, clip, annotation, objects, approved, owed, requests, faults>>

(* The latest clip is taken, whatever its status.                           *)
Begin(r) ==
  LET c == LatestClip
  IN /\ run[r].pc = "begin"
     /\ IF c = 0
        THEN /\ Finish(r)
             /\ UNCHANGED clip
        ELSE /\ clip' = [clip EXCEPT ![c] = "rendering"]
             /\ run' = [run EXCEPT ![r].pc = "work", ![r].clip = c]
     /\ UNCHANGED <<jobRow, raw, annotation, objects, approved, owed, requests, faults>>

RenderFails_TriesAgain(r) ==  \* mutant: what cannot be rendered is enqueued again
  /\ run[r].pc = "work"
  /\ MarkFailed(run[r].clip)
  /\ run' = [run EXCEPT ![r] = [Idle EXCEPT !.pc = "queued", !.left = Retries]]
  /\ UNCHANGED <<jobRow, raw, annotation, objects, approved, owed, requests, faults>>

(* The source cannot be read, or ffmpeg fails with and without burned-in    *)
(* text: no exception leaves run().                                         *)
RenderFails(r) ==
  /\ run[r].pc = "work"
  /\ MarkFailed(run[r].clip)
  /\ Return(r)
  /\ UNCHANGED <<jobRow, raw, annotation, objects, approved, owed, requests, faults>>

(* The source is fetched, the annotation generated and its title burned in, *)
(* and ffmpeg run.                                                          *)
RenderVideo(r) ==
  /\ run[r].pc = "work"
  /\ raw
  /\ Goto(r, "video")
  /\ UNCHANGED <<jobRow, raw, clip, annotation, objects, approved, owed, requests, faults>>

PutVideo_Skipped(r) ==  \* mutant: the clip stays in the worker's tmp_dir
  /\ run[r].pc = "video"
  /\ run' = [run EXCEPT ![r].pc = "thumb", ![r].video = NewKey]
  /\ UNCHANGED <<jobRow, raw, clip, annotation, video, thumb, store, approved, owed, requests, faults>>

PutVideo(r) ==
  /\ run[r].pc = "video"
  /\ store' = store \cup {NewKey}
  /\ run' = [run EXCEPT ![r].pc = "thumb", ![r].video = NewKey]
  /\ UNCHANGED <<jobRow, raw, clip, annotation, video, thumb, approved, owed, requests, faults>>

(* If there is one: a clip without a thumbnail is good enough.              *)
PutThumbnail(r) ==
  /\ run[r].pc = "thumb"
  /\ \/ /\ store' = store \cup {NewKey}
        /\ run' = [run EXCEPT ![r].pc = "commit", ![r].thumb = NewKey]
     \/ /\ Goto(r, "commit")
        /\ UNCHANGED store
  /\ UNCHANGED <<jobRow, raw, clip, annotation, video, thumb, approved, owed, requests, faults>>

CommitClip_NoThumbnail(r) ==  \* mutant: thumbnail_key is not written
  /\ run[r].pc = "commit"
  /\ clip' = [clip EXCEPT ![run[r].clip] = IF Exists(run[r].clip) THEN "rendered" ELSE @]
  /\ video' = [video EXCEPT ![run[r].clip] = run[r].video]
  /\ Return(r)
  /\ UNCHANGED <<jobRow, raw, annotation, thumb, store, approved, owed, requests, faults>>

CommitClip(r) ==
  LET c == run[r].clip
  IN /\ run[r].pc = "commit"
     /\ IF Exists(c)
        THEN /\ clip' = [clip EXCEPT ![c] = "rendered"]
             /\ video' = [video EXCEPT ![c] = run[r].video]
             /\ thumb' = [thumb EXCEPT ![c] = run[r].thumb]
             /\ annotation' = "generated"
        ELSE UNCHANGED <<clip, video, thumb, annotation>>
     /\ Return(r)
     /\ UNCHANGED <<jobRow, raw, store, approved, owed, requests, faults>>

-----------------------------------------------------------------------------
WorkerStep(r) ==
  \/ RunRetry(r) \/ Dequeue(r) \/ Begin(r) \/ RenderFails(r)
  \/ RenderVideo(r) \/ PutVideo(r) \/ PutThumbnail(r) \/ CommitClip(r) \/ Ack(r)

Next ==
  \/ AddClip \/ ScoringDies \/ ScoringAgain \/ CancelJob \/ DeleteJobFiles \/ DeleteJobRows
  \/ \E c \in Clips : \/ ReviewClip(c) \/ UpdateClipCaption(c)
                      \/ BeginCaption(c) \/ CommitCaption(c)
                      \/ DeleteClipFiles(c) \/ DeleteClipRow(c)
  \/ \E r \in Runs : EnqueueRendering(r) \/ WorkerStep(r) \/ Interrupted(r)

Spec == Init /\ [][Next]_vars

(* Worker processes serve their queue and no attempt pauses for ever.       *)
FairSpec == Spec /\ \A r \in Runs : WF_vars(WorkerStep(r))

-----------------------------------------------------------------------------
TypeOK ==
  /\ job \in {"active", "cancelled", "failed", "deleted"}
  /\ dropped \in BOOLEAN
  /\ raw \in BOOLEAN
  /\ clip \in [Clips -> Statuses]
  /\ annotation \in Sources
  /\ store \subseteq Nat \ {0}
  /\ video \in [Clips -> Nat]
  /\ thumb \in [Clips -> Nat]
  /\ approved \in [Clips -> Nat]
  /\ owed \in Nat
  /\ requests \subseteq {"caption", "delete"} \X (0..MaxClips)
  /\ run \in [Runs -> [pc : Pcs, left : Nat, clip : 0..MaxClips,
                       video : Nat, thumb : Nat]]
  /\ faults \in 0..MaxFaults

(* Some request is deleting the clip, or its whole stream job, or has, or   *)
(* has died half way through.                                               *)
BeingDeleted(c) ==
  \/ ~Exists(c) \/ ~raw
  \/ <<"delete", c>> \in requests

(* A clip that says "rendered" has its video, and the thumbnail its row     *)
(* names, in storage: the row is written after both, and a repeated attempt *)
(* leaves it with the objects of one and the same attempt.                  *)
RenderedHasItsVideo ==
  \A c \in Clips : clip[c] = "rendered" /\ ~BeingDeleted(c) =>
    /\ video[c] \in store
    /\ thumb[c] # 0 => thumb[c] \in store

(* Every object is named by a row or by the run that is about to: only an   *)
(* interrupted attempt or a deletion in mid-render orphans one.             *)
Named == {video[c] : c \in Clips} \cup {thumb[c] : c \in Clips}
           \cup {run[r].video : r \in Runs} \cup {run[r].thumb : r \in Runs}
NothingOrphaned ==
  faults = 0 /\ (\A c \in Clips : clip[c] # "absent" => ~BeingDeleted(c))
    => store \subseteq Named

(* The footage that was approved is the footage that is there to upload:    *)
(* nothing renders a clip again under its review.                           *)
ApprovedFootageStays ==
  faults = 0 =>
    \A c \in Clips : approved[c] # 0 => video[c] = approved[c]

(* A clip in "rendering" has a run that will still change that, as long as  *)
(* it is its candidate's only one and no run was ended by a cancel.         *)
OnlyClip == \A c \in Clips : c > 1 => clip[c] = "absent"
NotStuckRendering ==
  OnlyClip /\ ~dropped =>
    \A c \in Clips : clip[c] = "rendering" =>
      \E r \in Runs : /\ run[r].pc \notin {"free", "ack"}
                      /\ run[r].pc = "parked" => Scheduler

(* No clip starts to render, and nothing is stored for one, while the       *)
(* stream job's row says "cancelled" and the runs that were past their      *)
(* cancel check are through.  Scoring may write "scored" or failed_scoring  *)
(* over it: then the renders it owes go ahead, and this says nothing.       *)
Quiet == \A r \in Runs : run[r].pc \in {"free", "parked", "queued", "ack"}
CancelStopsRendering ==
  [][job = "cancelled" /\ Quiet =>
       Quiet' /\ store' \subseteq store]_vars

(* What a reviewer wrote over a finished clip's annotation stays there      *)
(* until a caption run or another edit replaces it.                         *)
EditsStay ==
  [][faults = 0 /\ annotation = "manual_edit" /\ LatestClip # 0
     /\ clip[LatestClip] = "rendered" /\ annotation' # annotation
       => requests' # requests]_vars

(* A rendering that was begun ends, in a video or in a failure.             *)
RenderingEnds ==
  \A c \in Clips :
    clip[c] = "rendering" ~> clip[c] # "rendering" \/ dropped \/ ~OnlyClip

(* And the attempts run out.                                                *)
RunsEnd ==
  \A r \in Runs : <>[](Live(r) => run[r].pc = "parked" /\ ~Scheduler)

=============================================================================
