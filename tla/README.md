# A TLA+ model of the clipping machine

The clipping machine takes a long video, cuts it into candidate clips, scores and
renders them, and delivers the ones a creator has approved to TikTok as inbox
drafts. A FastAPI process, one RQ worker per stage, PostgreSQL, Redis and an
object store share the work. This directory holds TLA+ specifications of its
state machines and of its arithmetic, TLC configurations that check them on small
instances, and TLAPS proofs. Paths below are relative to the repository.

| file | what it is |
|---|---|
| `Pipeline.tla` | stream jobs: the API's create, cancel and delete, and the ingest, transcription, segmentation and scoring workers |
| `ClipProduction.tla` | what the pipeline promises of a stream job; `Pipeline` implements it |
| `Rendering.tla` | a selected candidate's clips: the rendering and caption workers, reviews, edits and deletions |
| `Upload.tla` | review, upload tasks, the upload worker, and TikTok as it sees them |
| `DraftDelivery.tla` | what uploading promises; `Upload` implements it |
| `Accounts.tla` | the tokens of a creator account: connection, registration, refresh |
| `Login.tla` | sign-up, sign-in and the throttle in Redis |
| `JobSettings.tla` | what a creator may ask of a stream job, and what the workers make of it |
| `Framing.tla` | layouts and crops of a vertical clip |
| `Captions.tla` | parts of a stitched clip, subtitle times, splitting of captions |
| `Proposing.tla` | candidate windows and a language model's suggestions |
| `Scoring.tla` | features, scores and the selection of clips |
| `Chunks.tla` | cutting of uploads and of sound, joining of transcripts |
| `Builtins.tla` | what these take from Python: min, max, sum, a stable sort |
| `Arithmetic.tla` | one step that picks an input, and what must hold of what the code makes of it |
| `PipelineClaims.tla`, `UploadClaims.tla` | what comments and documents say and the code does not do |
| `PipelineProofs.tla` | proofs about `Pipeline`, for every value of its constants |
| `UploadProofs.tla`, `RenderingProofs.tla`, `AccountsProofs.tla`, `LoginProofs.tla` | the same for the other state machines |
| `FramingProofs.tla` | crops, panels and job settings, for every frame and form |
| `ClipsProofs.tla` | selection, scores, captions, windows, suggestions, chunks and pieces, for every input |
| `ArithmeticProofs.tla` | the invariants of `Arithmetic` from those two |
| `MC*.tla`, `MC*.cfg` | instances for TLC; `MC<Property>.cfg` checks one claim and ends in a counterexample |

## 1. Inventory

Sources are under `src/backend/app/` unless they say otherwise.

**Stream job API** (`api/routers/stream_jobs.py`). State: rows of `stream_jobs`.
Operations: create (validate the form, put the upload in storage, commit the row,
enqueue ingest), cancel, delete (storage objects first, then the row, with its
cascades), layout regions, reads. It talks to the workers through rows and queues
only. Hard: cancel writes over whatever a worker has committed since the row was
loaded; delete races every stage; a request may die between commit and enqueue;
a form is validated with one process's settings and used with another's. Correct
when a cancelled job does not go on, a deleted one leaves nothing behind, no job
is forgotten part of the way through, and what was accepted is carried out.

**Stage workers** (`workers/ingest.py`, `transcription.py`, `segmentation.py`,
`scoring.py`, `common.py`). State: `stream_jobs.status`, and the `transcripts`,
`candidate_segments` and `rendered_clips` rows they insert; the raw video and the
audio track in storage. Each `run()` checks for a cancel in one transaction,
writes its *ing status in a second, works outside any transaction, commits its
result in a third and enqueues the next stage (scoring: one rendering job per
selected clip) after that. Hard: everything between two transactions; a repeated
attempt after a commit; an attempt that dies. Correct when the stages find what
the earlier ones wrote, nothing is done twice, and every job settles.

**Queue and worker process** (`core/queue.py`, `src/backend/worker_entrypoint.py`).
State: RQ jobs and their remaining retries. Hard: what RQ does with a failed
attempt depends on its version and on how the worker is started (section 3).

**Object storage** (`core/storage.py`). State: objects by key. Local storage
hands out the path of the object itself, S3 downloads a copy: an object deleted
meanwhile is missed at different moments.

**Rendering and caption workers** (`workers/rendering.py`,
`caption_generation.py`). State: `rendered_clips` with their keys and objects,
`candidate_segments.llm_annotation`. Hard: the latest clip of a candidate is
taken whatever its status; video, thumbnail and row are written one after the
other; edits, reviews and deletions arrive in mid-render. Correct when rows and
objects agree, an approved video stays as it was approved, and an edit is not
lost. Their arithmetic (`core/rendering_logic.py`) is pure: crops, parts, times.

**Review and upload API** (`api/routers/clips.py`, `upload_tasks.py`). State:
`review_decisions` (the last one counts), `rendered_clips`, `upload_tasks`.
Operations: review, edit the caption, request an upload, delete a clip. Correct
when nothing is uploaded that was not approved.

**Upload worker** (`workers/upload.py`, `core/tiktok_client.py`). State:
`upload_tasks` with status and `publish_id`, `upload_audit_log`, and what TikTok
has. Steps: check the daily cap, get a token, open a draft, commit its
`publish_id`, send the chunks, poll, record the outcome. Hard: a retry after each
of these, answers that are lost, two workers and one cap, a clip deleted
underneath. Correct when a retry opens no second draft, the cap is kept,
"uploaded" is true, and every attempt is logged and ends.

**Creator accounts and OAuth** (`api/routers/creator_accounts.py`, token refresh
in `workers/upload.py`). State: `creator_accounts` with the encrypted token pair.
Hard: two refreshes of one rotating refresh token, the callback's look-up and
write around other requests. Correct when a creator's account has one row and the
token in it is one TikTok takes.

**Authentication** (`api/routers/auth.py`). State: `users`, the throttle's counter
in Redis. Hard: increment and expiry are two calls; a successful sign-in clears
the counter under the others. Correct when guesses are limited and a creator is
not locked out for good.

**Segmentation, scoring and cutting** (`core/segmentation_logic.py`,
`llm_segmentation_logic.py`, `scoring_logic.py`, `core/stt/chunking.py`,
`plan_chunks` in `tiktok_client.py`). Pure functions; boundaries, ties and what a
language model may reply are what matters.

`PROJECT.json` lists the hazards, each at its line with the properties aimed at
it. How the modules meet: `Pipeline` ends where a rendering job is enqueued,
`Rendering` begins with such jobs and ends with an approved clip, `Upload` begins
there; `Accounts` is the token that `Upload` calls `GetToken`; `Proposing` and
`Scoring` compute what `Pipeline` leaves open (any non-empty set of windows, any
selection within the limits), `JobSettings` and `Framing` what `Rendering` leaves
out. The state machines are checked apart: they share rows only at these seams,
and no property spans two of them.

## 2. Pipeline

One variable per table or service; what a process holds in local variables is in
the record of its RQ job.

| variable | code |
|---|---|
| `status[j]` | `stream_jobs.status`, with "absent" and "deleted" for a row that is not there yet, or no more |
| `api` | requests that have done their first half and not their second |
| `store[j]` | the raw video and the audio track in storage |
| `transcript[j]` | whether the unique `transcripts` row is there |
| `pending`, `selected`, `rejected` | `candidate_segments` rows by status: pairs of a window and the insertion it came from, so that a second insertion of the same window is a row of its own |
| `clips[j]` | `rendered_clips` rows |
| `renders[j]` | candidates a rendering job was enqueued for |
| `rq[r]` | a live RQ job: where its attempt is, stream job, stage, retries left, and what `run()` read or has still to do |
| `faults` | interruptions so far, bounded by `MaxFaults` |

| action | code |
|---|---|
| `CreateJob`, `EnqueueIngest` | create: up to the commit, and the enqueue after it |
| `CancelCheck`, `CancelWrite` | cancel: the test on the loaded row, and the write |
| `DeleteFiles`, `DeleteRows` | delete: objects, then rows with their cascades |
| `RequestDies` | a request ends between its two halves |
| `Dequeue` | an attempt starts, `job_is_cancelled` |
| `Begin` | the transaction that writes the *ing status and copies rows out |
| `Fetch`, `InputGone` | the stage's input is in storage, or is not |
| `StageFails` | a permanent failure: mark and return |
| `PutAudio`, `CommitIngest`, `EnqueueTranscription` | ingest |
| `CommitTranscript`, `EnqueueSegmentation` | transcription |
| `CommitCandidates`, `EnqueueScoring` | segmentation |
| `Listen`, `CommitScores`, `EnqueueRendering` | scoring; one `EnqueueRendering` per clip, so that an attempt may die between two |
| `Interrupted` | an attempt dies anywhere: killed, timed out, transient error |
| `RunRetry`, `Ack` | RQ |

Abstracted: the windows segmentation proposes are any non-empty set; the
selection of scoring is any set of at most `MaxClips` candidates with no two of
one window (every result of `select_top_non_overlapping` is among them); a
provider or ffmpeg succeeds, fails for good, or dies. `Listen` is
`_compute_audio_events`, which removes the file it has listened to
(`scoring.py:120`). `HearsInPlace` says whether that may be the stored track
itself, as it is with local storage, the audio flag on and a detector to be had
(TRUE), or is not (FALSE: S3 storage, the flag off, no detector); the two together
leave it open for each attempt. A track that is gone already may be missed by that
removal (`WentMissing`). Left out: durations,
`retry_count`, `last_error`, per-job overrides; no worker branches on them beyond
what `StageFails` stands for.

Properties: a job part of the way through always has a run that will change that
(`NotStuckInStage`); one run per job at most is or will enqueue segmentation
(`OneSegmentationJob`); later stages find the transcript, and transcription the
audio track as long as no transcript is there (`InputsFirst`: a transcription
run that is repeated or doubled after that may find the track removed by scoring,
but has nothing left to insert either); a stopped job stays stopped (`CancelStops`); without
interruptions there is one chain of runs (`SingleChain`) and a rendering job for
every clip, and there are at most `MaxClips` clips, and as many again for each
interruption (`ClipsAreRendered`; the two are `WorksOnce`); every begun stage ends
and the work runs out (`Settles`, `Drains`).

`ClipProduction` has neither workers nor queue, storage or requests: a job is
submitted, gets a transcript, candidates and clips, is asked to be rendered, and
may be cancelled or forgotten. It promises that candidates come of a transcript
and clips of candidates; that each is done once, and once more for every loss at
most, at most `MaxClips` clips at a time, no two of one window; that only clips
are asked to be rendered; and that a job that is done or has failed goes on only
after a cancel or a loss. `Pipeline!ProducesClips` is its specification under the
mapping `report <- Reports` (a stage's statuses are "underway"), `proposed <-
Proposed` (candidates in any status), `rendering <- Asked` (as long as the job is
there) and `lost <- faults`: every step of `Pipeline` is a step of it or a
stutter. With `EagerCallback` it does not hold, for the reason that
`DraftDelivery` does not (section 5).

## 3. RQ as the comments have it, and as it is deployed

Two constants of `Pipeline`, `Rendering` and `Upload` say how RQ behaves, since
the code's own account and the pinned version differ.

* `EagerCallback`: does `on_failure` run after every failed attempt (TRUE, what
  RQ 1.16 does) or only after the last (FALSE, what the workers' comments on
  transient failures assume)?
* `Scheduler`: does some process move retries whose interval is over back to
  their queue? `worker_entrypoint.py:78` calls `worker.work()` without a
  scheduler, and nothing else in the repository runs one (FALSE).

`FALSE, TRUE` is the contract, `TRUE, FALSE` the deployment. The claims of section
12 are checked in the configuration they are about, `rendering_ends` with the
callback after every attempt, and the proofs of `NotStuckInStage` and
`NotStuckUploading` cover every configuration but the one in which a failure is
neither shown nor retried. `RunRetry` and `Raise` model RQ, which is not part of
the repository.

## 4. Rendering

One candidate segment, since candidates share only their stream job.

| variable | code |
|---|---|
| `job`, `raw` | `stream_jobs.status` as far as rendering tells it apart ("cancelled", "failed" for `failed_scoring`, "active" for the rest, "deleted" for no row), and the video in storage |
| `dropped` | whether the cancel check has ever ended a run: history, which only properties read |
| `clip[c]`, `video[c]`, `thumb[c]` | `rendered_clips`: status, `object_key`, `thumbnail_key` |
| `annotation` | who wrote `llm_annotation` last: nobody, a worker, an edit |
| `approved[c]` | the video that the clip's last approval was given to |
| `store` | keys of clips' objects in storage; `NewKey` is a key that nothing knows |
| `owed` | rendering jobs scoring has still to enqueue |
| `requests` | deletions and caption runs between their two halves |
| `run[r]` | an RQ job: where its attempt is, its clip, the keys it has stored |

| action | code |
|---|---|
| `AddClip`, `EnqueueRendering` | scoring's commit of a clip, which writes "scored" over whatever the row says, a cancel included (`scoring.py:309`); and its loop of enqueues |
| `ScoringDies` | scoring dies in that loop; its `on_failure` may write `failed_scoring` |
| `ScoringAgain` | a repeated or doubled attempt past its own cancel check writes "scoring", and, without candidates, `failed_scoring` |
| `CancelJob`, `ReviewClip`, `UpdateClipCaption` | single requests |
| `BeginCaption`, `CommitCaption` | the caption worker's two transactions, around the language model |
| `DeleteClipFiles`, `DeleteClipRow`; `DeleteJobFiles`, `DeleteJobRows` | the deletions: objects, then rows |
| `Dequeue`, `Begin` | `candidate_job_is_cancelled`; the transaction that takes the latest clip and writes "rendering" |
| `RenderVideo`, `RenderFails` | fetch, annotate, ffmpeg with its fallback; or a permanent failure |
| `PutVideo`, `PutThumbnail`, `CommitClip` | storage, storage, the row with the annotation |
| `Interrupted`, `RunRetry`, `Ack` | the environment and RQ; `Raise` marks the latest clip failed |

Properties: a rendered clip has its objects (`RenderedHasItsVideo`) and no object
is without a row or a run (`NothingOrphaned`); what was approved is what is there
(`ApprovedFootageStays`); edits of a finished clip stay (`EditsStay`); a
"rendering" clip has a run (`NotStuckRendering`) and ends (`RenderingEnds`,
`RunsEnd`), unless a cancel ended a run of its candidate; while the row says
"cancelled" and the runs past their check are through, nothing begins
(`CancelStopsRendering`). Scoring may write over that cancel, in the model as in
the code, and the renders it owes then go ahead: that is `lost_cancel` again, one
queue further on. Several of the properties hold under a condition that names
what breaks them (`faults = 0`, one clip, no run ended by a cancel): section 12
lists what happens beyond it.

## 5. Upload, and the promise it keeps

| variable | code |
|---|---|
| `latest[c]`, `approved` | the last `review_decisions` row of a clip, and whether it was ever approved |
| `clip[c]` | `rendered_clips`: rendered, its objects gone, its row gone |
| `status[t]`, `of[t]`, `publish[t]` | `upload_tasks` |
| `audit[t]` | events in `upload_audit_log` |
| `posting` | requests that have committed a task and not enqueued it |
| `run[t]` | RQ's job of a task: where its attempt is, retries left, the draft at hand |
| `inits`, `sent`, `inbox`, `refused` | TikTok's side: the drafts opened for a task, with all bytes, delivered, failed |

The API's actions are `ReviewClip`, `UploadClip` then `EnqueueUpload`, and
`DeleteObject` then `DeleteClip`. An attempt is `Begin` (existence, cap check,
`publish_id`), `GetToken`, and without a `publish_id` `InitUpload`,
`PersistPublishId`, `SendChunks`; then `PollStatus`, and `Succeed` or `GiveUp`.
Each call to TikTok may be answered by a retryable error (`Unavailable`) or a
final one (`Rejected`); the answer to init may be lost (`InitReplyLost`), a file
gone (`FileGone`), an attempt die (`Interrupted`). `Process` is TikTok: a draft
with all its bytes reaches the inbox or fails, another can only fail.

One account and one day: the cap counts an account's tasks created within 24
hours, so other accounts and days do not interact. Left out: the guards on
`target_mode` and `confidence_score` (the API only writes values that pass).

`DraftDelivery` has neither workers nor queue nor API: tasks are asked for,
drafts opened and delivered, and reports made. It promises that a task gets one
draft and one more for every loss at most, that "uploaded" is said only of a
delivered draft, and that what was said is taken back after a loss only.
`Upload!DeliversDrafts` is its specification under the mapping `report <-
Report(status)`, `opened <- inits`, `lost <- faults`: every step of `Upload` is a
step of it or a stutter. With `EagerCallback` it does not hold: a task is then
reported failed between two attempts without any loss.

Properties besides: TikTok never hears of a clip that was never approved
(`ReviewedFirst`); "uploaded" means the draft named by `publish_id` is in the
inbox (`UploadedIsDelivered`); status and audit log agree
(`EveryAttemptIsLogged`); with one worker the cap holds (`WithinDailyCap`); an
upload neither sticks nor is retried for ever (`NotStuckUploading`,
`AttemptsEnd`).

## 6. Accounts and sign-in

`Accounts`: `account[r]` is a row with TikTok's answer it was written from (an
access and a refresh token, each by the number of the answer that carried it, and
whether it is due); `callback[c]` and `worker[w]` are where a request to the OAuth
callback and an upload attempt are, with the answer they hold; `honoured` are the
refresh tokens TikTok takes. Actions: `CreateCreatorAccount`; `ExchangeCode`,
`FindAccount`, `ConnectAccount` for the callback; `ReadToken`,
`RefreshAccessToken` or `RefreshRefused`, `StoreToken` for
`_get_valid_access_token`; time, interruptions and revocation. A refresh may
rotate the refresh token, or not. Properties: one row per account whatever races
(`OneAccount`), and a usable token in it while one worker runs and nothing dies
(`StaysConnected`).

`Login`: one address; the counter, whether its key expires, and the position of
each request between its calls to Redis and Postgres. Properties: no more than
`Limit` sign-ins get past one life of the counter (`Throttled`), and the throttle
opens again unless a call was lost between INCR and EXPIRE (`LockoutEnds`).

## 7. Arithmetic

Modules of pure operators. `Arithmetic` has one variable, the input, and one
action per kind of input, which picks any; its invariants say what the code makes
of that input. The sets of inputs are constants: `MCArithmetic` gives bounded ones
to TLC, and the proofs hold for any sets that satisfy `ArithmeticAssumption`.

* `JobSettings`, for forms and requests for marks: `AcceptedIsCarriedOut` (what
  the API accepts, no worker refuses or makes into something else; a form whose
  lengths contradict the deployment's default once got through).
* `Framing`, for frames, marks, faces and job settings: `CropsFit` (every crop is
  even and inside the frame; one for a mark that fits its panel is no tighter than
  the mark and cuts nothing off its left and its top; the panels of a split make
  up the frame). Of the right and the bottom of a mark the code may cut off two
  pixels, which its comments rule out: the property leaves these two sides open,
  the proof bounds them, and section 12 has the case. Floating point is modelled in grains fine enough
  that every division is exact; where a double rounds the other way the code may
  differ by one step of two pixels.
* `Captions`: `CaptionsFit` (a caption is up while what it says plays, also in a
  stitched clip; the pieces of a long caption fit, lose no word and share its
  time without a gap).
* `Proposing`: `CandidatesFit` (windows come from speech, are within the job's
  limits unless they end at a scene cut that a snap moved them to, and leave no gap
  in a long block; what is kept of a model's reply plays within the limits and is
  shown as it was kept). A comment has every window within the limits: section 12.
* `Scoring`: `ScoresCompare` (what lies between the parts of a stitched clip does
  not count; the worst clip scores 0, and the best the share of the weight that
  lies on features that can be had, which is 10 unless weight is given to what
  cannot). Whether the audio flag is on and whether the detector works are two
  inputs, and `motion_proxy`, which is always 0, has a weight like the others, `BestAreRendered` (the greedy selection against what it is for: few, good
  enough, different, and nothing better left out for another reason).
* `Chunks`: `ChunksFit` (an upload's ranges are the file), `PiecesFit` (pieces of
  sound are the sound, and times survive the joining).

What `ArithmeticAssumption` asks of the inputs, and where the code sees to it:

* a frame has two pixels a side (ffprobe's stream of a video that was cut), and a
  mark lies on its grid (`LayoutRegionsRequest`, `_parse_marked_rect`);
* a transcript's segments, where order matters, are sorted by start, as
  `sorted(..., key=start)` leaves them. For `Replies` they also end after they
  start: Whisper's do, but nothing checks it, and a part without length is shown
  as its whole span (section 12);
* the parts of a stitched clip to be scored are in order and do not overlap
  (`normalize_parts` refuses others); a caption's segment has words and time;
* the lengths a job asks for are positive (`ValidLengths`: at least `Floor`);
* a reply is anything: indices are any integers, parts any sequence of pairs;
* candidates, texts, files and chunk sizes are arbitrary but for their types;
* a piece of sound is longer than the search for a silence and the second by
  which cuts must be apart (600 against 31 by default; a setting could break it,
  section 12), silences lie within the sound, and speech does not overlap itself.

The weights are any naturals, all of them zero included (`score_out_of_10` is then
zero throughout).

Bounds: frames of some fifty pixels, wide, tall, square, odd, and one narrower
than its crop, with a target of 18 by 32; marks on a grid of fifths with edges on
every side of the frame; weights of zero or
three on every feature and some others, with the flag on and off and the detector
working and failing; transcripts of two or three segments with gaps below, at
and above the tolerance; up to four words, three candidates, three items in a
reply with two kept; the byte limits scaled to 4 and 10 with files up to 40. Each
comparison in the code has inputs below, at and above it.

## 8. Runs

| run | instance | shows | distinct states |
|---|---|---|---|
| `pipeline` | 1 job, 2 windows, 3 slots, 2 faults, contract, stored track left alone | all safety properties but `InputsFirst`, and that it implements `ClipProduction` | 1.1 million |
| `pipeline_ends` | 1 window, 1 fault, contract, fair, stored track left alone or removed | `Settles`, `Drains`, `InputsFirst` | 401 thousand |
| `rendering` | 2 clips, 2 runs, 2 faults, contract | safety of rendering, cancels and edits | 4.0 million |
| `rendering_ends` | 1 clip, 1 run, 3 faults, eager callback, fair | `RenderingEnds`, `RunsEnd` | 31 thousand |
| `upload` | 2 clips, 2 tasks, 2 workers, 1 fault, contract | safety of uploads, and that they implement `DraftDelivery` | 956 thousand |
| `upload_one_worker` | 1 clip, 2 tasks, 1 worker, 1 fault, contract, fair | `WithinDailyCap`, `AttemptsEnd` | 63 thousand |
| `accounts` | 2 callbacks, 1 worker, 4 answers, 1 fault | `OneAccount`, `StaysConnected` | 348 thousand |
| `login` | 3 threads, limit 2, 2 faults, fair | `Throttled`, `LockoutEnds` | 12 thousand |
| `arithmetic` | bounded inputs (section 7) | the eight properties of section 7 | 239 thousand |

Three more runs (`lost_cancel`, `retries_park`, `resume_without_bytes`) end in the
counterexamples of section 12.

Bounds, and why they are enough.

* One stream job: jobs share only the queue, and no action for one reads another.
  The proofs cover any number.
* Three RQ slots: enough for a repeated attempt, the run it started before and the
  one it starts again. It is a real bound: runs waiting for `Ack` or for a retry
  hold a slot, and an enqueue that finds none waits, which the code's never does.
  `Drains` shows that none waits for ever (a waiting run is live and not parked),
  and the proofs hold for any number of slots.
* One retry per stage, for the two or three of the code: a stage then has a
  first, a repeated and a last attempt, which is what the code tells apart.
* `HearsInPlace`: with the track removed, nothing but its readers is affected, so
  the larger instance leaves it alone and the smaller one has both. The proofs
  hold for every value.
* Two windows with `MaxClips = 1`: scoring has something to leave out, and the
  cap something to bound. The liveness run has one window, since the number of
  candidates decides nothing there.
* `MaxFaults` of 1 to 3: one fault for each disagreement; more let a repeated
  attempt die too. In `lost_cancel` and `resume_without_bytes` it is 0: no
  interruption is needed.
* Two clips of a candidate and two rendering runs: an attempt that overtakes
  another, and a clip that is not the latest.
* Two tasks, two clips and `Cap = 1`: two tasks for one clip, tasks of two clips,
  and a cap that the second task meets.
* Four answers of TikTok: two connections, a refresh and one more of either.
* Three threads and a limit of two: the third sign-in is the one to be refused,
  and one thread may clear the counter under the others.

Symmetry (RQ slots and windows; tasks and clips; rendering runs) is used in three
large safety runs only, never with liveness. Deadlock is not checked: a system
whose jobs have settled and whose creators are silent may rest; `NotStuckInStage`,
`NotStuckRendering` and `NotStuckUploading` say in which states it may not.

Fairness: weak fairness on each run's worker steps. Worker processes poll their
queues in a loop, and no attempt pauses for ever (`job_timeout`, HTTP timeouts,
the polling budget); where `Scheduler` holds, due retries run. In `Login` a
request that was accepted is served (the API's thread pool), and Redis expires
its keys. Creators, interruptions and TikTok are owed nothing, Redis need not
come back. The steps of a run stay enabled until one is taken, with two
exceptions that come to an end: an enqueue waits for a slot, and `Begin` of an
upload for a free worker. Both become free for good, since retries are bounded.

## 9. Proofs

Every theorem is checked by TLAPS for all values of the constants, under the
`ASSUME`s of the modules (counts are naturals, model values are not members of
the sets they stand outside of) and what the table names. The finite sets of the
instances are assumptions only where a statement or a step counts them.

| module | theorem | states | under |
|---|---|---|---|
| `PipelineProofs` | `TypeCorrect` | `TypeOK`, and that tables stay finite | |
| | `NotStuck` | `NotStuckInStage` | `EagerCallback \/ Scheduler` |
| | `StageOrder`, `InputsAreThere` | `OneSegmentationJob`, `InputsFirst` | |
| | `CancelHolds` | `CancelStops` | |
| | `WorkedOnce` | `WorksOnce` | |
| | `Implements` | `ProducesClips`, the refinement | `~EagerCallback` |
| `RenderingProofs` | `TypeCorrect`, `VideoIsThere` | `TypeOK`, `RenderedHasItsVideo` | finitely many runs |
| | `NotStuck` | `NotStuckRendering` | the same, and `EagerCallback \/ Scheduler` |
| | `CancelHolds` | `CancelStopsRendering` | finitely many runs |
| | `NoOrphans`, `ApprovalHolds`, `EditsHold` | `NothingOrphaned`, `ApprovedFootageStays`, `EditsStay` | finitely many runs |
| `UploadProofs` | `TypeCorrect` | `TypeOK` | |
| | `NothingUnreviewed`, `UploadedMeansDelivered`, `AuditIsComplete` | `ReviewedFirst`, `UploadedIsDelivered`, `EveryAttemptIsLogged` | |
| | `NeverStuck` | `NotStuckUploading` | `EagerCallback \/ Scheduler` |
| | `CapKept` | `WithinDailyCap` | finitely many tasks, one worker |
| | `Implements` | `DeliversDrafts`, the refinement | `~EagerCallback` |
| `AccountsProofs` | `TypeCorrect`, `AccountIsOne` | `TypeOK`, `OneAccount` | |
| | `ConnectionIsKept` | `StaysConnected` | finitely many workers |
| `LoginProofs` | `TypeCorrect`, `ThrottleHolds` | `TypeOK`, `Throttled` | |
| `FramingProofs` | `PanelsMakeThePicture`, `CropsInFrame`, `DrawnIsShown` | the three parts of `CropsFit`, for every frame, mark and face | a frame of two pixels a side |
| | `AcceptedWorks` | `CarriedOut`, for every form, request and frame | |
| `ClipsProofs` | `BestAreSelected` | `SelectionIsBest`, for every list of candidates | |
| | `ScoresRangeFully`, `NothingIsEarned` | `FullRange`, for all weights, flag on or off, detector working or not; `StitchingEarnsNothing` | `ScoringAssumption`; parts in order |
| | `CaptionsKeepStep` | `Synchronous`, `Readable`, for every transcript, clip and text | |
| | `WindowsOfSpeechFit` | `WindowsFit`, for every transcript and cuts | limits in order |
| | `RepliesAreShown` | `SuggestionsFit`, for every reply | segments that take time |
| | `ChunksArriveWhole` | `ChunksAreTheFile`, for every size | |
| | `SoundIsWhole` | `PiecesAreTheSound`, for every sound and silences | a piece outlasts the search |
| `ArithmeticProofs` | `EveryCropFits`, `EveryAcceptedFormWorks`, `EveryCaptionFits`, `EveryCandidateFits`, `EveryScoreCompares`, `TheBestAreRendered`, `EveryFileArrives`, `EveryPieceFits` | `CropsFit`, `AcceptedIsCarriedOut`, `CaptionsFit`, `CandidatesFit`, `ScoresCompare`, `BestAreRendered`, `ChunksFit`, `PiecesFit` | `ArithmeticAssumption` |

The assumptions on the callback and the scheduler are those of section 3: where a
failure is neither shown nor retried a job does stick, and where `on_failure`
comes early a report is taken back without a loss. The invariants that carry the
`faults = 0` of section 12 carry it in the theorem too.

**Pipeline.** `TypeOK` needs `Finite`, or the cardinality that numbers an
insertion is no number. `NotStuckInStage` is inductive by itself: a run that
stops carrying on has just written a status that is settled, or handed on to the
run it enqueued. `OneSegmentationJob` is not: two transcription runs may both be
about to enqueue unless the unique `transcripts` row stands between them. The
strengthening `OrderInv` says that a row that is not there yet has no run
(`AbsentIsIdle`), which runs rely on the transcript and that it is there
(`ReadersFindTranscript`), the same of the audio track from its upload on until
there is a transcript (`ReadersFindAudio`: a deletion takes the raw video with
it, and scoring, which may take the track, comes after the transcript), that a raw
video has a row which no deletion is under way for (`RawHasRow`: the transcript
that scoring read is then still there), and `OneSegmentationJob`. For an uninterrupted history `Chains` adds the life of a
job's work: held by one run (`Working`), by nobody while the create request has
still to enqueue it, and over once clips are there, each of which has its
rendering job or is `Owed` one by the scoring run. `CancelStops` needs no
invariant but the types: a run in the queue has the cancel check before it.

The bounds that hold with interruptions are paid for (`Paid`): whoever is still
to propose candidates (a transcription run that has committed, or a segmentation
run that has not) counts as one proposal to come, and the proposals made and to
come are at most one more than the losses; the same of choices, and of clips with
`MaxClips` for each choice to come. An interruption pays for one more run, and a
run that has committed is one of those to come no longer. What a scoring run has
read and still has to enqueue is among the rows of its job (`Follows`), and goes
with them. The refinement adds `Outcomes`: while nothing is lost and the callback
comes last, no run is at work on a job that is scored or has failed, so a status
that takes an outcome back is a cancel's or follows a loss.

**Rendering.** Two invariants besides the types carry `VideoIsThere`: the keys
a run holds are in storage, and no two runs or rows have a key in common, so that
nobody deletes what is another's (`OwnKeys`); and a run past its first upload has
a clip and a key for it (`Placed`). `NotStuck` needs that nothing is left under a
deleted stream job (`NothingLeft`), and that the check, once it has ended a run,
stays in `dropped`; `CancelHolds` nothing but the types, since a run in the queue
has the check before it. The three theorems about undisturbed histories share
`Orderly`: one clip, one run, which has stored nothing before its upload steps,
and is through once the clip is rendered. Each clause is broken by a single
interruption, which is why the properties name them.

**Upload.** `ReviewedFirst` needs that every task is for a clip that was
approved, and that nothing runs for a task that is not there (`Reviewed`,
`Posted`); `UploadedIsDelivered` that an attempt holds the draft its row names,
and at its end one that is in the inbox (`Named`, `DraftKnown`); the audit log
that a begun attempt has said so in the status and in the log (`Begun`,
`Logged`). `WithinDailyCap`
adds that one attempt at a time is past the check, and that the check saw what
the commit will meet (`OneAtATime`, `Room`). The refinement adds `OneDraft`, that
drafts beyond the first are paid for by faults, and `Final`: without an eager
callback a task with an outcome is tried again after a fault only.

**Accounts and Login.** `OneAccount` holds because an insert that would make two
is refused by the unique constraint. `StaysConnected` needs to know whose each
token is: no two requests or attempts hold the same answer (`RequestsApart`,
`AttemptsApart`), TikTok takes what an attempt holds (`AttemptsHonoured`), and
what a row holds unless an attempt is about to replace it (`RowsHonoured`). `Throttled` follows from `Counted`: the counter is
never less than the sign-ins it let pass.

**Framing.** A crop from a mark is in the frame whatever the box before it was
rounded to (`MarkedAxis`), so the growing and shrinking before it need only yield
numbers; a window at a ratio crops the longer axis, so the division stays below
the frame (`VerticalCropIsAWindow`), and clamping places it. `DrawnIsShown` needs
to know more of that box: it is no smaller than the mark, a shift into the frame
never moves it off the mark, and flooring its offset moves it by less than two
pixels. `AcceptedWorks` builds on
this for every mark the API lets through.

**Induction.** The library's induction theorems take an operator, which the
provers here cannot instantiate. `Induction` in `ClipsProofs` states the same of a
set of numbers, from the well-foundedness of `<` on `Nat`, and a claim about every
length is the claim that a set `T` defined by it is all of `Nat`. From it follow
that a fold is what its steps make of it one after the other (`FoldExists`,
`SumIs`), what `Sum` and cardinalities of filtered sequences do, and that
`Order` exists and sorts. The recursive functions (`SplitCaption`'s `from`,
`Boundaries`' `from`) are shown to be defined by an explicit witness, built up
to a bound by the same induction.

**Clips.** `BestAreSelected` is an invariant of the selection's loop: what was
chosen among the candidates seen so far is good, different and few, and what was
passed over gave way (`ChosenWell`); the order supplies that what comes later is
no better. `NothingIsEarned` maps each pause of a part to one of the span, no two
to the same, and restricts the transcript to what the parts show.
`CaptionsKeepStep` rests on `Elapsed` growing by each part's length, so the part
that plays at a time is unique. `WindowsOfSpeechFit` covers a long block by
windows each of which starts before the last one ends; a window is beyond the
limits only if it was snapped, and then ends at a cut (`SnapIs`). `ScoresRangeFully` rests on a
sum over the features that grows with each of them (`SumGrows`), and on the score
of a share being that share, rounded (`ShareIsScored`). `RepliesAreShown`: parts that passed `_parse_parts` are
sorted already, so `normalize_parts` returns them as they are, and the key that
is compared decides the ends. `SoundIsWhole`: every cut is more than a second
after the last, because a piece outlasts the search, so none is dropped and the
recursion ends; what is said in a piece keeps its place since the pieces follow
one another as the windows do (`Within`).

Only model-checked: liveness under fairness (`Settles`, `Drains`,
`RenderingEnds`, `RunsEnd`, `AttemptsEnd`, `LockoutEnds`), which is out of the
proof system's reach, and the claims of section 12, which are false.

## 10. Not modelled, and why

* `core/face_detect.py`, `core/audio_events.py`, `core/thumbnail_selection.py`:
  numbers out of pixels and samples, without state. Their results are inputs:
  a face or none, an audio score or none, any frame.
* `api/routers/settings.py`, `core/llm_config.py`, `core/config.py`,
  `core/crypto.py`: one row read and written whole by single requests, constants,
  and encryption by a library.
* The web console and the start scripts, which call the API and start processes.
* ffmpeg's filter syntax, subtitle files and styles, prompts of language models,
  the words of the scoring lexicon, clamping of an annotation's fields: text that
  no other step reads back. The Whisper and hosted transcription calls, HTTP
  fields of TikTok's API.
* Sessions (signed tokens without a row), password hashing, the signed OAuth
  state.
* Durations, `retry_count`, `last_error`, timestamps but for the daily cap's day.

## 11. Plan, done and left

Done in this order: `Pipeline` with its proofs; `Upload`; the claims; `Rendering`,
`Accounts`, `Login`; the refinement of `DraftDelivery`; the arithmetic; proofs of
every safety property of the state machines; proofs of every property of the
arithmetic, with induction over sets; `ClipProduction` and the proof that
`Pipeline` implements it.

Left: an abstract specification of a clip's footage with `Rendering` as its
implementation; one model of two stream jobs competing for RQ's queues, if
priorities are ever introduced; the annotation's clamping, once something reads
the clamped fields back; several accounts, once the cap depends on more than one.

## 12. Findings and observations

Findings, each with a run that ends in a counterexample and a statement of the
repository that it contradicts:

* `lost_cancel`: a stage in flight writes its status over a cancel
  (`workers/ingest.py:118` and its like in every stage) and the pipeline goes on,
  though `stream_jobs.py:485` and `db/models.py:43` say that it stops at the next
  stage boundary.
* `retries_park`: `worker_entrypoint.py:78` starts workers without RQ's
  scheduler, so a retry with an interval is never run, though `core/queue.py:42`
  relies on it.
* `resume_without_bytes`: `publish_id` is committed before the bytes are sent
  (`workers/upload.py:165`), so a retry after a failed chunk polls for a draft
  that can never complete, though `db/models.py:551` takes a `publish_id` as
  proof that the bytes are there.

Disagreements without a run of their own. The models do what the code does; the
properties say what is left of the promise, and where it ends:

* A crop may cut up to two pixels off the right and bottom of a mark.
  `crop_from_marked_rect` says that "the creator always gets at least what they
  drew" (`core/rendering_logic.py:241`), and that its rounding is there so as not
  to "shave a pixel or two off the box" (`:294`). But the offset is floored after
  the size was rounded: a box over the pixels 3 to 7 of a frame of 100 is cut out
  as 2 to 6. `ShowsWhatIsDrawn` keeps the size, left and top; `DrawnIsShown` proves
  the two pixels to be the most.
* A window may be beyond the job's limits. `core/llm_segmentation_logic.py:290` has
  scoring see only "windows that already satisfy this job's own min/max, same as
  every heuristic candidate". `_snap` (`core/segmentation_logic.py:88`) moves an
  end by up to five seconds: speech from 0 to 100 with a cut at 34 and limits of 15
  and 30 seconds yields a window of 34 seconds, with a cut at 26 and limits of 28
  and 30 one of 26. `WindowsFit` allows this of windows that end at a cut.
* A reply's parts in another order lose their stitching, and some the suggestion.
  The prompt invites them (`core/llm_segmentation_logic.py:122`: "they do not have
  to be in transcript order") and `:255` says that "a bad `parts` costs the
  suggestion its stitching, never the suggestion itself". `_parse_parts` refuses
  parts out of order; what is kept then is the whole range from the first to the
  last index, if that is within the limits, and nothing if the first is behind the
  last. `SuggestionsFit` is about what is kept.
* `parse_strength` (`core/llm_segmentation_logic.py:388`) says that a suggestion's
  strength decides which survive the cap. It is only written into the reason; the
  first of the reply survive (`:244`), as in `ParseSegmentSuggestions`.
* A failing audio detector keeps clips below 10. `workers/scoring.py:91` calls it
  the "same as if the flag were off", and `:49` says that weight which no clip can
  earn is taken out of the denominator, as for `motion_proxy`. It is by the flag
  only: with the flag on, the default weights and the detector failing, the best
  clip gets 7.33. A weight given to `motion_proxy` caps the score in the same way
  (`core/config.py:93` sets it to 0 for that reason). `FullRange` computes the best
  score in each of these cases.
* Scoring removes the stored audio track: `workers/scoring.py:120` means its own
  copy, and with local storage removes the track itself. A transcription that is
  repeated or doubled after that finds none. `InputsFirst` is what holds.
* A cancel is written over: by "scored" (`workers/scoring.py:309`) as by every
  stage's commit (`lost_cancel`), and by the failed status of `on_failure` (`:340`).
  Rendering jobs that come after that go ahead, and those that the cancel ended
  already stay ended, so that clips of a job that does not say "cancelled" stay
  "pending" or "rendering". `CancelStopsRendering` is about a cancel that stands,
  `NotStuckRendering` about candidates whose runs none has ended.

Observations: what else the code does at the edge of a property, or a document
asks for as future work. The models contain the behaviours of the state machines
below, and the properties state the condition under which they do not occur.
Arithmetic ones were met while translating.

*Stream jobs.* An audio track written after a deletion of the objects stays
(`ingest.py:113`, `stream_jobs.py:319`). A deletion during a stage makes its
commit raise (`ingest.py:117`). A late `on_failure` marks a job failed that has
moved on (`ingest.py:150`), and `failed_*` is terminal for cancel
(`stream_jobs.py:459`). A transcription repeated after its commit fails on
`uq_transcript_stream_job` (`transcription.py:76`). A repeated segmentation
inserts its candidates again, so that the clip cap is per scoring run
(`docs/architecture.md:172`). A scoring attempt that dies between its commit and
its enqueues leaves clips without a rendering job, and its retry, finding no
pending candidates, marks the job failed (`scoring.py:191`, `:328`). A create
request that dies before its enqueue leaves the job `queued`
(`stream_jobs.py:291`).

*Rendering.* A cancel while a retry is parked leaves the clip "rendering". With
two clips of one candidate a run takes the latest. An attempt repeated after its
commit renders once more, under an approval given to the first video. A clip
deleted while it renders leaves the new objects behind. An edit made during a
rendering is overwritten by its commit. An interruption after the commit marks a
rendered clip failed.

*Uploads.* Two workers may both pass the cap check before either succeeds
(`upload.py:235`). A repeated attempt takes an uploaded task back to uploading,
or to blocked (`upload.py:235`, `docs/architecture.md:363`). The cap is checked
by the worker, not at the request (`clips.py:132`, `docs/architecture.md:348`).
Drafts beyond the cap land when tasks no longer say uploaded (`upload.py:76`,
`docs/architecture.md:284`). With a callback after every attempt, a task is
reported failed between two attempts.

*Accounts and sign-in.* Two workers that refresh with one rotating token: the
second is refused, and its task fails for good. A worker dying
between TikTok's answer and its commit loses the token. An account revoked and
connected again during a refresh is overwritten by it. The slower of two first
connections gets a server error from the unique constraint. A sign-in lost
between INCR and EXPIRE leaves a counter that does not expire: past the limit the
right password is refused too, until the key is removed (`auth.py:117`).

*Arithmetic.* A part without length makes `normalize_parts` fall back to the whole
span. Overlap of stitched clips is measured on the outer span.
`stt_openai_chunk_seconds` below the search window can repeat a cut without end. A
length of "nan" passes the form's validation.

*Beside the models.* Concurrent requests for a job's frame share a file. A
stitched clip's annotation sees the transcript of the whole span
(`rendering.py:770`). Of two concurrent caption edits the later one wins whole.
