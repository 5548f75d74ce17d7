--------------------------- MODULE PipelineProofs ---------------------------
(***************************************************************************)
(* Proofs, for every value of the constants, of invariants of Pipeline.    *)
(***************************************************************************)
EXTENDS Pipeline, FiniteSetTheorems, TLAPS

(* The rows a statement numbers or counts are finitely many.                *)
Finite ==
  /\ \A j \in Jobs : /\ IsFiniteSet(AllCandidates(j))
                     /\ IsFiniteSet(clips[j])
  /\ \A r \in RqIds : IsFiniteSet(rq[r].seen)

(* The part of TypeOK that is about rq.                                     *)
RqOK ==
  /\ rq \in [RqIds -> RqJob]
  /\ \A r \in RqIds : Live(r) <=> rq[r].job # NoJob

-----------------------------------------------------------------------------
LEMMA StatusNames ==
  ASSUME NEW s \in Stages
  PROVE  /\ Doing[s] \in InProgress /\ Done[s] \in Completed /\ Failed[s] \in HasFailed
         /\ Doing[s] \in Statuses /\ Done[s] \in Statuses /\ Failed[s] \in Statuses
         /\ Failed[s] \notin Unsettled
  BY DEF Stages, InProgress, Completed, HasFailed, Statuses, Doing, Done, Failed, Unsettled

LEMMA RqJobs ==
  /\ Unused \in RqJob
  /\ \A j \in Jobs, s \in Stages : NewRqJob(j, s) \in RqJob
  BY PipelineAssumption DEF Unused, NewRqJob, RqJob, Pcs, Stages

(* What a run that is doing something knows of its stream job.              *)
LEMMA LiveRun ==
  ASSUME RqOK, NEW r \in RqIds, Live(r)
  PROVE  rq[r].job \in Jobs /\ rq[r].stage \in Stages /\ rq[r] \in RqJob
  BY DEF RqOK, RqJob

LEMMA GotoOK ==
  ASSUME RqOK, NEW r \in RqIds, Live(r), NEW pc \in Pcs \ {"free"}, Goto(r, pc)
  PROVE  RqOK'
  BY DEF RqOK, RqJob, Goto, Live, Pcs

LEMMA FinishOK ==
  ASSUME RqOK, NEW r \in RqIds, Finish(r)
  PROVE  RqOK'
  BY RqJobs DEF RqOK, Finish, Live, Unused

LEMMA RaiseOK ==
  ASSUME RqOK, status \in [Jobs -> Statuses], NEW r \in RqIds, Live(r), Raise(r)
  PROVE  RqOK' /\ status' \in [Jobs -> Statuses]
  <1>1. rq[r].job \in Jobs /\ rq[r].stage \in Stages /\ rq[r] \in RqJob
    BY LiveRun
  <1>2. status' \in [Jobs -> Statuses]
    BY <1>1, StatusNames DEF Raise, MarkFailed
  <1>3. RqOK'
    <2>1. CASE rq[r].left > 0
      BY <1>1, <2>1 DEF Raise, RqOK, RqJob, Live, Pcs
    <2>2. CASE ~(rq[r].left > 0)
      BY <2>2, FinishOK DEF Raise
    <2> QED BY <2>1, <2>2
  <1> QED BY <1>2, <1>3

LEMMA EnqueueNextOK ==
  ASSUME RqOK, NEW r \in RqIds, Live(r), NEW s \in Stages, EnqueueNext(r, s)
  PROVE  RqOK'
  <1>1. rq[r].job \in Jobs /\ rq[r] \in RqJob
    BY LiveRun
  <1>2. PICK q \in RqIds :
          /\ ~Live(q)
          /\ rq' = [rq EXCEPT ![q] = NewRqJob(rq[r].job, s), ![r].pc = "ack"]
    BY DEF EnqueueNext
  <1>3. NewRqJob(rq[r].job, s) \in RqJob
    BY <1>1, RqJobs
  <1>4. q # r
    BY <1>2
  <1>5. /\ rq'[q] = NewRqJob(rq[r].job, s)
        /\ rq'[r] = [rq[r] EXCEPT !.pc = "ack"]
        /\ \A p \in RqIds \ {q, r} : rq'[p] = rq[p]
        /\ DOMAIN rq' = RqIds
    BY <1>2, <1>4 DEF RqOK
  <1>6. rq'[r] \in RqJob
    BY <1>1, <1>5 DEF RqJob, Pcs
  <1>7. rq' \in [RqIds -> RqJob]
    BY <1>2, <1>3, <1>4, <1>5, <1>6 DEF RqOK
  <1>8. rq'[q].pc = "queued" /\ rq'[q].job = rq[r].job
    BY <1>5 DEF NewRqJob, Unused
  <1>9. rq'[r].pc = "ack" /\ rq'[r].job = rq[r].job
    BY <1>1, <1>5 DEF RqJob
  <1>10. NoJob \notin Jobs
    BY PipelineAssumption
  <1> QED
    BY <1>1, <1>5, <1>7, <1>8, <1>9, <1>10 DEF RqOK, Live

-----------------------------------------------------------------------------
(* TypeOK, strengthened by Finite so that Cardinality is a number.          *)
TypeInv == TypeOK /\ Finite

LEMMA TypeInvInit == Init => TypeInv
  <1> SUFFICES ASSUME Init PROVE TypeInv
    OBVIOUS
  <1>1. IsFiniteSet({})
    BY FS_EmptySet
  <1>2. Finite
    <2>1. \A j \in Jobs : AllCandidates(j) = {} /\ clips[j] = {}
      BY DEF Init, AllCandidates
    <2>2. \A r \in RqIds : rq[r].seen = {}
      BY DEF Init, Unused
    <2> QED BY <1>1, <2>1, <2>2 DEF Finite
  <1>3. TypeOK
    BY RqJobs, PipelineAssumption DEF Init, TypeOK, Statuses, Live, Unused
  <1> QED BY <1>2, <1>3 DEF TypeInv

LEMMA TypeInvApi ==
  ASSUME TypeInv, NEW j \in Jobs, ApiStep(j)
  PROVE  TypeInv'
  <1> USE DEF TypeInv
  <1>1. CASE CreateJob(j)
    <2>1. status' \in [Jobs -> Statuses]
      BY <1>1 DEF CreateJob, TypeOK, Statuses
    <2>2. store' \in [Jobs -> SUBSET {"raw", "audio"}]
      BY <1>1 DEF CreateJob, TypeOK
    <2>3. api' \subseteq {"create", "cancel", "delete"} \X Jobs
      BY <1>1 DEF CreateJob, TypeOK
    <2>4. Finite'
      BY <1>1 DEF CreateJob, Finite, AllCandidates, rows
    <2> QED BY <1>1, <2>1, <2>2, <2>3, <2>4 DEF CreateJob, TypeOK, Live, rows
  <1>2. CASE EnqueueIngest(j)
    <2>1. PICK r \in RqIds : ~Live(r) /\ rq' = [rq EXCEPT ![r] = NewRqJob(j, "ingest")]
      BY <1>2 DEF EnqueueIngest, EnqueueInto
    <2>2. NewRqJob(j, "ingest") \in RqJob
      BY RqJobs DEF Stages
    <2>3. /\ NewRqJob(j, "ingest").pc = "queued"
          /\ NewRqJob(j, "ingest").job = j
          /\ NewRqJob(j, "ingest").seen = {}
      BY DEF NewRqJob, Unused
    <2>4. RqOK'
      BY <2>1, <2>2, <2>3, PipelineAssumption DEF TypeOK, RqOK, Live
    <2>5. Finite'
      BY <1>2, <2>1, <2>3, FS_EmptySet DEF EnqueueIngest, Finite, AllCandidates, rows, TypeOK
    <2> QED BY <1>2, <2>4, <2>5 DEF EnqueueIngest, TypeOK, RqOK, rows
  <1>3. CASE CancelCheck(j)
    BY <1>3 DEF CancelCheck, TypeOK, Finite, AllCandidates, Live, rows
  <1>4. CASE CancelWrite(j)
    <2>1. status' \in [Jobs -> Statuses]
      BY <1>4 DEF CancelWrite, TypeOK, Statuses
    <2> QED BY <1>4, <2>1 DEF CancelWrite, TypeOK, Finite, AllCandidates, Live, rows
  <1>5. CASE DeleteFiles(j)
    <2>1. store' \in [Jobs -> SUBSET {"raw", "audio"}]
      BY <1>5 DEF DeleteFiles, TypeOK
    <2>2. api' \subseteq {"create", "cancel", "delete"} \X Jobs
      BY <1>5 DEF DeleteFiles, TypeOK
    <2>3. Finite'
      BY <1>5 DEF DeleteFiles, Finite, AllCandidates, rows
    <2>4. UNCHANGED <<status, rows, renders, rq, faults>>
      BY <1>5 DEF DeleteFiles
    <2> QED BY <2>1, <2>2, <2>3, <2>4 DEF TypeOK, Live, rows
  <1>6. CASE DeleteRows(j)
    <2>1. status' \in [Jobs -> Statuses]
      BY <1>6 DEF DeleteRows, TypeOK, Statuses
    <2>2. Finite'
      BY <1>6, FS_EmptySet DEF DeleteRows, TypeOK, Finite, AllCandidates
    <2> QED BY <1>6, <2>1, <2>2 DEF DeleteRows, TypeOK, Live
  <1>7. CASE RequestDies(j)
    <2>1. faults' \in 0..MaxFaults
      BY <1>7, PipelineAssumption DEF RequestDies, TypeOK
    <2>2. api' \subseteq {"create", "cancel", "delete"} \X Jobs
      BY <1>7 DEF RequestDies, TypeOK
    <2>3. Finite'
      BY <1>7 DEF RequestDies, Finite, AllCandidates, rows
    <2>4. UNCHANGED <<status, store, rows, renders, rq>>
      BY <1>7 DEF RequestDies
    <2> QED BY <2>1, <2>2, <2>3, <2>4 DEF TypeOK, Live, rows
  <1> QED BY <1>1, <1>2, <1>3, <1>4, <1>5, <1>6, <1>7 DEF ApiStep

(* Steps that change no table but perhaps the status: what is left to show. *)
LEMMA TypeInvSameRows ==
  ASSUME TypeInv, RqOK', status' \in [Jobs -> Statuses],
         store' \in [Jobs -> SUBSET {"raw", "audio"}],
         renders' \in [Jobs -> SUBSET Candidates],
         \A r \in RqIds : IsFiniteSet(rq'[r].seen),
         UNCHANGED <<api, rows>>, faults' \in 0..MaxFaults
  PROVE  TypeInv'
  BY DEF TypeInv, TypeOK, RqOK, Finite, AllCandidates, rows

LEMMA SameSeen ==
  ASSUME TypeInv, NEW r \in RqIds, Live(r),
         \/ Raise(r)
         \/ Finish(r)
         \/ \E pc \in Pcs : Goto(r, pc)
         \/ \E s \in Stages : EnqueueNext(r, s)
  PROVE  \A p \in RqIds : IsFiniteSet(rq'[p].seen)
  <1> USE DEF TypeInv, TypeOK
  <1>1. \A p \in RqIds : IsFiniteSet(rq[p].seen) /\ rq[p] \in RqJob
    BY DEF Finite
  <1>2. IsFiniteSet(Unused.seen)
    BY FS_EmptySet DEF Unused
  <1>3. ASSUME \A p \in RqIds : rq'[p].seen = rq[p].seen \/ rq'[p].seen = Unused.seen
        PROVE  \A p \in RqIds : IsFiniteSet(rq'[p].seen)
    BY <1>1, <1>2, <1>3
  <1>4. CASE Finish(r)
    BY <1>3, <1>4 DEF Finish
  <1>5. CASE Raise(r)
    BY <1>3, <1>4, <1>5 DEF Raise, RqJob
  <1>6. CASE \E pc \in Pcs : Goto(r, pc)
    BY <1>3, <1>6 DEF Goto, RqJob
  <1>7. CASE \E s \in Stages : EnqueueNext(r, s)
    <2>1. PICK s \in Stages, q \in RqIds :
            rq' = [rq EXCEPT ![q] = NewRqJob(rq[r].job, s), ![r].pc = "ack"] /\ ~Live(q)
      BY <1>7 DEF EnqueueNext
    <2>2. NewRqJob(rq[r].job, s).seen = Unused.seen
      BY DEF NewRqJob, Unused
    <2> QED BY <1>1, <1>3, <2>1, <2>2 DEF RqJob
  <1> QED BY <1>4, <1>5, <1>6, <1>7

(* A step of the form "raise and change nothing else".                      *)
LEMMA TypeInvRaise ==
  ASSUME TypeInv, NEW r \in RqIds, Live(r), Raise(r),
         UNCHANGED <<api, store, rows, renders>>, faults' \in 0..MaxFaults
  PROVE  TypeInv'
  <1>1. RqOK' /\ status' \in [Jobs -> Statuses]
    BY RaiseOK DEF TypeInv, TypeOK, RqOK
  <1> QED BY <1>1, SameSeen, TypeInvSameRows DEF TypeInv, TypeOK

LEMMA TypeInvCommon ==
  ASSUME TypeInv, NEW r \in RqIds,
         \/ RunRetry(r) \/ Dequeue(r) \/ Begin(r) \/ Fetch(r) \/ InputGone(r)
         \/ StageFails(r) \/ Ack(r) \/ Interrupted(r)
  PROVE  TypeInv'
  <1> USE DEF TypeInv
  <1>1. TypeOK /\ RqOK /\ Live(r)
    BY DEF TypeOK, RqOK, RunRetry, Dequeue, Begin, Fetch, InputGone, StageFails,
           Ack, Interrupted, Live
  <1>2. rq[r].job \in Jobs /\ rq[r].stage \in Stages /\ rq[r] \in RqJob
    BY <1>1, LiveRun
  <1>3. CASE RunRetry(r) \/ Dequeue(r) \/ Fetch(r) \/ Ack(r)
    <2>1. UNCHANGED <<status, api, store, rows, renders, faults>>
      BY <1>3 DEF RunRetry, Dequeue, Fetch, Ack
    <2>2. Finish(r) \/ \E pc \in Pcs \ {"free"} : Goto(r, pc)
      BY <1>3 DEF RunRetry, Dequeue, Fetch, Ack, Pcs
    <2>3. RqOK'
      BY <1>1, <2>2, FinishOK, GotoOK
    <2>4. \A p \in RqIds : IsFiniteSet(rq'[p].seen)
      BY <1>1, <2>2, SameSeen
    <2> QED BY <1>1, <2>1, <2>3, <2>4, TypeInvSameRows DEF TypeOK
  <1>4. CASE InputGone(r)
    BY <1>1, <1>4, TypeInvRaise DEF InputGone, TypeOK
  <1>5. CASE Interrupted(r)
    <2>1. faults' \in 0..MaxFaults
      BY <1>1, <1>5, PipelineAssumption DEF Interrupted, TypeOK
    <2> QED BY <1>1, <1>5, <2>1, TypeInvRaise DEF Interrupted
  <1>6. CASE StageFails(r)
    <2>1. status' \in [Jobs -> Statuses]
      BY <1>1, <1>2, <1>6, StatusNames DEF StageFails, MarkFailed, TypeOK
    <2>2. RqOK' /\ \A p \in RqIds : IsFiniteSet(rq'[p].seen)
      BY <1>1, <1>6, FinishOK, SameSeen DEF StageFails
    <2> QED BY <1>1, <1>6, <2>1, <2>2, TypeInvSameRows DEF StageFails, TypeOK
  <1>7. CASE Begin(r)
    <2> DEFINE j == rq[r].job
    <2>1. CASE Exists(j)
      <3> DEFINE seen == IF rq[r].stage = "scoring" THEN pending[j] ELSE {}
      <3>1. /\ status' = [status EXCEPT ![j] = Doing[rq[r].stage]]
            /\ rq' = [rq EXCEPT ![r].pc = "fetch", ![r].text = transcript[j],
                                ![r].seen = seen]
        BY <1>7, <2>1 DEF Begin
      <3>2. status' \in [Jobs -> Statuses]
        BY <1>1, <1>2, <3>1, StatusNames DEF TypeOK
      <3>3. seen \in SUBSET Candidates /\ transcript[j] \in BOOLEAN
        BY <1>1, <1>2 DEF TypeOK
      <3>4. IsFiniteSet(pending[j])
        <4>1. IsFiniteSet(AllCandidates(j)) /\ pending[j] \in SUBSET AllCandidates(j)
          BY <1>1, <1>2 DEF Finite, AllCandidates
        <4> QED BY <4>1, FS_Subset
      <3>5. IsFiniteSet(seen)
        BY <3>4, FS_EmptySet
      <3> HIDE DEF seen
      <3>6. RqOK'
        BY <1>1, <1>2, <3>1, <3>3 DEF RqOK, RqJob, Live, Pcs
      <3>7. \A p \in RqIds : IsFiniteSet(rq'[p].seen)
        BY <1>1, <1>2, <3>1, <3>5 DEF Finite, RqOK, RqJob
      <3> QED BY <1>1, <1>7, <3>2, <3>6, <3>7, TypeInvSameRows DEF Begin, TypeOK
    <2>2. CASE ~Exists(j)
      <3>1. Finish(r) /\ UNCHANGED status
        BY <1>7, <2>2 DEF Begin
      <3>2. RqOK' /\ \A p \in RqIds : IsFiniteSet(rq'[p].seen)
        BY <1>1, <3>1, FinishOK, SameSeen
      <3> QED BY <1>1, <1>7, <3>1, <3>2, TypeInvSameRows DEF Begin, TypeOK
    <2> QED BY <2>1, <2>2
  <1> QED BY <1>3, <1>4, <1>5, <1>6, <1>7

LEMMA TypeInvIngest ==
  ASSUME TypeInv, NEW r \in RqIds, Ingest(r)
  PROVE  TypeInv'
  <1> USE DEF TypeInv
  <1>1. TypeOK /\ RqOK /\ Live(r)
    BY DEF TypeOK, RqOK, Ingest, PutAudio, CommitIngest, EnqueueTranscription, At, Live
  <1>2. rq[r].job \in Jobs
    BY <1>1, LiveRun
  <1>3. CASE PutAudio(r)
    <2>1. RqOK' /\ \A p \in RqIds : IsFiniteSet(rq'[p].seen)
      BY <1>1, <1>3, GotoOK, SameSeen DEF PutAudio, Pcs
    <2>2. store' \in [Jobs -> SUBSET {"raw", "audio"}]
      BY <1>1, <1>3 DEF PutAudio, TypeOK
    <2> QED BY <1>1, <1>3, <2>1, <2>2, TypeInvSameRows DEF PutAudio, TypeOK
  <1>4. CASE CommitIngest(r)
    <2>1. CASE Exists(rq[r].job)
      <3>1. RqOK' /\ \A p \in RqIds : IsFiniteSet(rq'[p].seen)
        BY <1>1, <1>4, <2>1, GotoOK, SameSeen DEF CommitIngest, Pcs
      <3>2. status' \in [Jobs -> Statuses]
        BY <1>1, <1>4, <2>1, StatusNames DEF CommitIngest, TypeOK, Done, Stages
      <3> QED BY <1>1, <1>4, <2>1, <3>1, <3>2, TypeInvSameRows DEF CommitIngest, TypeOK
    <2>2. CASE ~Exists(rq[r].job)
      BY <1>1, <1>4, <2>2, TypeInvRaise DEF CommitIngest, CommitFails, TypeOK
    <2> QED BY <2>1, <2>2
  <1>5. CASE EnqueueTranscription(r)
    <2>1. RqOK' /\ \A p \in RqIds : IsFiniteSet(rq'[p].seen)
      BY <1>1, <1>5, EnqueueNextOK, SameSeen DEF EnqueueTranscription, Stages
    <2> QED BY <1>1, <1>5, <2>1, TypeInvSameRows DEF EnqueueTranscription, TypeOK
  <1> QED BY <1>3, <1>4, <1>5 DEF Ingest

LEMMA TypeInvTranscription ==
  ASSUME TypeInv, NEW r \in RqIds, Transcription(r)
  PROVE  TypeInv'
  <1> USE DEF TypeInv
  <1>1. TypeOK /\ RqOK /\ Live(r)
    BY DEF TypeOK, RqOK, Transcription, CommitTranscript, EnqueueSegmentation, At, Live
  <1>2. rq[r].job \in Jobs
    BY <1>1, LiveRun
  <1>3. CASE CommitTranscript(r)
    <2>1. CASE InsertsTranscript(rq[r].job)
      <3>1. RqOK' /\ \A p \in RqIds : IsFiniteSet(rq'[p].seen)
        BY <1>1, <1>3, <2>1, GotoOK, SameSeen DEF CommitTranscript, Pcs
      <3>2. status' \in [Jobs -> Statuses]
        BY <1>1, <1>3, <2>1, StatusNames DEF CommitTranscript, TypeOK, Done, Stages
      <3>3. transcript' \in [Jobs -> BOOLEAN]
        BY <1>1, <1>3, <2>1 DEF CommitTranscript, TypeOK
      <3>4. UNCHANGED <<api, store, pending, selected, rejected, clips, renders, faults>>
        BY <1>3, <2>1 DEF CommitTranscript
      <3>5. Finite'
        BY <3>1, <3>4 DEF Finite, AllCandidates
      <3> QED BY <1>1, <3>1, <3>2, <3>3, <3>4, <3>5 DEF TypeOK, RqOK
    <2>2. CASE ~InsertsTranscript(rq[r].job)
      BY <1>1, <1>3, <2>2, TypeInvRaise DEF CommitTranscript, CommitFails, TypeOK
    <2> QED BY <2>1, <2>2
  <1>4. CASE EnqueueSegmentation(r)
    <2>1. RqOK' /\ \A p \in RqIds : IsFiniteSet(rq'[p].seen)
      BY <1>1, <1>4, EnqueueNextOK, SameSeen DEF EnqueueSegmentation, Stages
    <2> QED BY <1>1, <1>4, <2>1, TypeInvSameRows DEF EnqueueSegmentation, TypeOK
  <1> QED BY <1>3, <1>4 DEF Transcription

LEMMA TypeInvSegmentation ==
  ASSUME TypeInv, NEW r \in RqIds, Segmentation(r)
  PROVE  TypeInv'
  <1> USE DEF TypeInv
  <1>1. TypeOK /\ RqOK /\ Live(r)
    BY DEF TypeOK, RqOK, Segmentation, CommitCandidates, EnqueueScoring, At, Live
  <1>2. rq[r].job \in Jobs
    BY <1>1, LiveRun
  <1>3. CASE CommitCandidates(r)
    <2> DEFINE j == rq[r].job
               n == Cardinality(AllCandidates(j))
    <2>1. CASE Exists(j)
      <3>1. PICK ws \in SUBSET Windows \ {{}} :
              pending' = [pending EXCEPT ![j] = @ \cup (ws \X {n})]
        BY <1>3, <2>1 DEF CommitCandidates
      <3>2. n \in Nat
        BY <1>1, <1>2, FS_CardinalityType DEF Finite
      <3> HIDE DEF n
      <3>3. IsFiniteSet(ws \X {n})
        <4>1. IsFiniteSet(ws)
          BY FS_Subset, PipelineAssumption
        <4>2. IsFiniteSet({n})
          BY FS_Singleton
        <4> QED BY <4>1, <4>2, FS_Product
      <3>4. ws \X {n} \subseteq Candidates
        BY <3>2 DEF Candidates
      <3> DEFINE new == ws \X {n}
      <3>5. pending' = [pending EXCEPT ![j] = @ \cup new]
        BY <3>1
      <3>6. IsFiniteSet(new) /\ new \subseteq Candidates
        BY <3>3, <3>4
      <3> HIDE DEF new
      <3>7. pending' \in [Jobs -> SUBSET Candidates]
        BY <1>1, <3>5, <3>6 DEF TypeOK
      <3>8. UNCHANGED <<api, store, transcript, selected, rejected, clips, renders, faults>>
        BY <1>3, <2>1 DEF CommitCandidates
      <3>9. RqOK' /\ \A p \in RqIds : IsFiniteSet(rq'[p].seen)
        BY <1>1, <1>3, <2>1, GotoOK, SameSeen DEF CommitCandidates, Pcs
      <3>10. \A k \in Jobs : IsFiniteSet(AllCandidates(k)')
        <4>1. \A k \in Jobs : \/ AllCandidates(k)' = AllCandidates(k)
                              \/ AllCandidates(k)' = AllCandidates(k) \cup new
          BY <1>1, <3>5, <3>8 DEF AllCandidates, TypeOK
        <4>2. \A k \in Jobs : IsFiniteSet(AllCandidates(k) \cup new)
          BY <1>1, <3>6, FS_Union DEF Finite
        <4>3. \A k \in Jobs : IsFiniteSet(AllCandidates(k))
          BY <1>1 DEF Finite
        <4> QED BY <4>1, <4>2, <4>3
      <3>11. status' \in [Jobs -> Statuses]
        BY <1>1, <1>3, <2>1, StatusNames DEF CommitCandidates, TypeOK, Done, Stages
      <3>12. Finite'
        BY <1>1, <3>8, <3>9, <3>10 DEF Finite
      <3> QED BY <1>1, <3>7, <3>8, <3>9, <3>11, <3>12 DEF TypeOK, RqOK
    <2>2. CASE ~Exists(j)
      BY <1>1, <1>3, <2>2, TypeInvRaise DEF CommitCandidates, CommitFails, TypeOK
    <2> QED BY <2>1, <2>2
  <1>4. CASE EnqueueScoring(r)
    <2>1. RqOK' /\ \A p \in RqIds : IsFiniteSet(rq'[p].seen)
      BY <1>1, <1>4, EnqueueNextOK, SameSeen DEF EnqueueScoring, Stages
    <2> QED BY <1>1, <1>4, <2>1, TypeInvSameRows DEF EnqueueScoring, TypeOK
  <1> QED BY <1>3, <1>4 DEF Segmentation

LEMMA TypeInvScoring ==
  ASSUME TypeInv, NEW r \in RqIds, Scoring(r)
  PROVE  TypeInv'
  <1> USE DEF TypeInv
  <1>1. TypeOK /\ RqOK /\ Live(r)
    BY DEF TypeOK, RqOK, Scoring, Listen, CommitScores, EnqueueRendering, At, Live
  <1>2. rq[r].job \in Jobs /\ rq[r] \in RqJob
    BY <1>1, LiveRun
  <1>3. CASE CommitScores(r)
    <2> DEFINE j == rq[r].job
               cs == rq[r].seen
               n == Cardinality(clips[j])
    <2>1. CASE Exists(j)
      <3>1. PICK S \in Selections(cs) :
              /\ pending' = [pending EXCEPT ![j] = @ \ cs]
              /\ selected' = [selected EXCEPT ![j] = (@ \ cs) \cup S]
              /\ rejected' = [rejected EXCEPT ![j] = (@ \cup cs) \ S]
              /\ clips' = [clips EXCEPT ![j] = @ \cup (S \X {n})]
              /\ rq' = [rq EXCEPT ![r].pc = "enqueue", ![r].todo = S]
        BY <1>3, <2>1 DEF CommitScores
      <3>2. n \in Nat
        BY <1>1, <1>2, FS_CardinalityType DEF Finite
      <3>3. S \in SUBSET cs /\ cs \in SUBSET Candidates /\ IsFiniteSet(cs)
        BY <1>1, <1>2 DEF Selections, RqJob, Finite
      <3> HIDE DEF n, cs
      <3>4. IsFiniteSet(S) /\ IsFiniteSet(S \X {n})
        BY <3>3, FS_Subset, FS_Singleton, FS_Product
      <3>5. S \X {n} \subseteq Clips
        BY <3>2, <3>3 DEF Clips
      <3> DEFINE new == S \X {n}
      <3>6. clips' = [clips EXCEPT ![j] = @ \cup new] /\ IsFiniteSet(new) /\ new \subseteq Clips
        BY <3>1, <3>4, <3>5
      <3> HIDE DEF new
      <3>7. /\ pending' \in [Jobs -> SUBSET Candidates]
            /\ selected' \in [Jobs -> SUBSET Candidates]
            /\ rejected' \in [Jobs -> SUBSET Candidates]
        BY <1>1, <3>1, <3>3 DEF TypeOK
      <3>8. clips' \in [Jobs -> SUBSET Clips]
        BY <1>1, <3>6 DEF TypeOK
      <3>9. UNCHANGED <<api, store, transcript, renders, faults>>
        BY <1>3, <2>1 DEF CommitScores
      <3>10. RqOK'
        BY <1>1, <1>2, <3>1, <3>3 DEF RqOK, RqJob, Live, Pcs
      <3>11. \A p \in RqIds : IsFiniteSet(rq'[p].seen)
        BY <1>1, <1>2, <3>1 DEF RqOK, RqJob, Finite
      <3>12. \A k \in Jobs : IsFiniteSet(clips'[k])
        <4>1. \A k \in Jobs : clips'[k] = clips[k] \/ clips'[k] = clips[k] \cup new
          BY <1>1, <3>6 DEF TypeOK
        <4>2. \A k \in Jobs : IsFiniteSet(clips[k]) /\ IsFiniteSet(clips[k] \cup new)
          BY <1>1, <3>6, FS_Union DEF Finite
        <4> QED BY <4>1, <4>2
      <3>13. \A k \in Jobs : IsFiniteSet(AllCandidates(k)')
        <4>1. \A k \in Jobs : AllCandidates(k)' \in SUBSET (AllCandidates(k) \cup cs)
          BY <1>1, <3>1, <3>3 DEF AllCandidates, TypeOK
        <4>2. \A k \in Jobs : IsFiniteSet(AllCandidates(k) \cup cs)
          BY <1>1, <3>3, FS_Union DEF Finite
        <4>3. ASSUME NEW k \in Jobs PROVE IsFiniteSet(AllCandidates(k)')
          BY <4>1, <4>2, FS_Subset
        <4> QED BY <4>3
      <3>14. status' \in [Jobs -> Statuses]
        BY <1>1, <1>3, <2>1, StatusNames DEF CommitScores, TypeOK, Done, Stages
      <3>15. Finite'
        BY <3>11, <3>12, <3>13 DEF Finite
      <3> QED BY <1>1, <3>7, <3>8, <3>9, <3>10, <3>14, <3>15 DEF TypeOK, RqOK
    <2>2. CASE ~Exists(j)
      BY <1>1, <1>3, <2>2, TypeInvRaise DEF CommitScores, CommitFails, TypeOK
    <2> QED BY <2>1, <2>2
  <1>4. CASE EnqueueRendering(r)
    <2>1. CASE rq[r].todo = {}
      <3>1. RqOK' /\ \A p \in RqIds : IsFiniteSet(rq'[p].seen)
        BY <1>1, <1>4, <2>1, GotoOK, SameSeen DEF EnqueueRendering, Pcs
      <3> QED BY <1>1, <1>4, <2>1, <3>1, TypeInvSameRows DEF EnqueueRendering, TypeOK
    <2>2. CASE rq[r].todo # {}
      <3>1. PICK c \in rq[r].todo :
              /\ renders' = [renders EXCEPT ![rq[r].job] = @ \cup {c}]
              /\ rq' = [rq EXCEPT ![r].todo = @ \ {c}]
        BY <1>4, <2>2 DEF EnqueueRendering
      <3>2. c \in Candidates
        BY <1>2 DEF RqJob
      <3>3. renders' \in [Jobs -> SUBSET Candidates]
        BY <1>1, <3>1, <3>2 DEF TypeOK
      <3>4. RqOK'
        BY <1>1, <1>2, <3>1 DEF RqOK, RqJob, Live
      <3>5. \A p \in RqIds : IsFiniteSet(rq'[p].seen)
        BY <1>1, <1>2, <3>1 DEF RqOK, RqJob, Finite
      <3> QED BY <1>1, <1>4, <3>3, <3>4, <3>5, TypeInvSameRows DEF EnqueueRendering, TypeOK
    <2> QED BY <2>1, <2>2
  <1>5. CASE Listen(r)
    <2>1. RqOK' /\ \A p \in RqIds : IsFiniteSet(rq'[p].seen)
      BY <1>1, <1>5, GotoOK, SameSeen DEF Listen, Pcs
    <2>2. store' \in [Jobs -> SUBSET {"raw", "audio"}]
      BY <1>1, <1>2, <1>5 DEF Listen, TypeOK
    <2> QED BY <1>1, <1>5, <2>1, <2>2, TypeInvSameRows DEF Listen, TypeOK
  <1> QED BY <1>3, <1>4, <1>5 DEF Scoring

LEMMA TypeInvNext == TypeInv /\ [Next]_vars => TypeInv'
  <1> SUFFICES ASSUME TypeInv, [Next]_vars PROVE TypeInv'
    OBVIOUS
  <1>1. CASE UNCHANGED vars
    BY <1>1 DEF vars, rows, TypeInv, TypeOK, Finite, AllCandidates, Live
  <1>2. CASE \E j \in Jobs : ApiStep(j)
    BY <1>2, TypeInvApi
  <1>3. CASE \E r \in RqIds : WorkerStep(r) \/ Interrupted(r)
    BY <1>3, TypeInvCommon, TypeInvIngest, TypeInvTranscription, TypeInvSegmentation,
       TypeInvScoring DEF WorkerStep
  <1> QED BY <1>1, <1>2, <1>3 DEF Next

(* Every variable keeps its type, and every table stays finite.             *)
THEOREM TypeCorrect == Spec => [](TypeOK /\ Finite)
  <1>1. Init => TypeInv
    BY TypeInvInit
  <1>2. TypeInv /\ [Next]_vars => TypeInv'
    BY TypeInvNext
  <1>3. TypeInv => TypeOK /\ Finite
    BY DEF TypeInv
  <1> QED BY <1>1, <1>2, <1>3, PTL DEF Spec

-----------------------------------------------------------------------------
(* What no step of a run does: touch another live run, or the status of     *)
(* another stream job.                                                      *)
Touches(r) ==
  /\ Live(r) /\ rq[r].job \in Jobs /\ rq[r].stage \in Stages /\ rq[r] \in RqJob
  /\ \A p \in RqIds \ {r} : Live(p) => rq'[p] = rq[p]
  /\ \A j \in Jobs \ {rq[r].job} : status'[j] = status[j]

LEMMA RaiseTouches ==
  ASSUME TypeInv, NEW r \in RqIds, Live(r), Raise(r)
  PROVE  Touches(r)
  <1> USE DEF TypeInv, TypeOK
  <1>1. rq[r].job \in Jobs /\ rq[r].stage \in Stages /\ rq[r] \in RqJob
    BY LiveRun DEF RqOK
  <1>2. \A p \in RqIds \ {r} : rq'[p] = rq[p]
    BY DEF Raise, Finish
  <1>3. \A j \in Jobs \ {rq[r].job} : status'[j] = status[j]
    BY <1>1 DEF Raise, MarkFailed
  <1> QED BY <1>1, <1>2, <1>3 DEF Touches

LEMMA EnqueueTouches ==
  ASSUME TypeInv, NEW r \in RqIds, Live(r), NEW s \in Stages, EnqueueNext(r, s),
         UNCHANGED status
  PROVE  /\ Touches(r)
         /\ \E q \in RqIds \ {r} :
              /\ ~Live(q)
              /\ rq'[q] = NewRqJob(rq[r].job, s)
              /\ rq'[r] = [rq[r] EXCEPT !.pc = "ack"]
              /\ \A p \in RqIds \ {q, r} : rq'[p] = rq[p]
  <1> USE DEF TypeInv, TypeOK
  <1>1. rq[r].job \in Jobs /\ rq[r].stage \in Stages /\ rq[r] \in RqJob
    BY LiveRun DEF RqOK
  <1>2. PICK q \in RqIds :
          /\ ~Live(q)
          /\ rq' = [rq EXCEPT ![q] = NewRqJob(rq[r].job, s), ![r].pc = "ack"]
    BY DEF EnqueueNext
  <1>3. q # r
    BY <1>2
  <1>4. /\ rq'[q] = NewRqJob(rq[r].job, s)
        /\ rq'[r] = [rq[r] EXCEPT !.pc = "ack"]
        /\ \A p \in RqIds \ {q, r} : rq'[p] = rq[p]
    BY <1>2, <1>3
  <1> QED BY <1>1, <1>2, <1>3, <1>4 DEF Touches

-----------------------------------------------------------------------------
(* A failed attempt shows: at once, or because its retry will be run.       *)
FailuresShow == EagerCallback \/ Scheduler

(* A step of the run r keeps every stream job unstuck if it does its own.   *)
LEMMA NotStuckStep ==
  ASSUME TypeInv, NotStuckInStage, NEW r \in RqIds, Touches(r),
         NEW k \in Jobs, rq[r].job = k,
         \/ status'[k] \notin Unsettled
         \/ CarryingOn(k)' # {}
         \/ r \notin CarryingOn(k) /\ status'[k] = status[k]
  PROVE  NotStuckInStage'
  <1>1. \A j \in Jobs, p \in RqIds \ {r} : p \in CarryingOn(j) => p \in CarryingOn(j)'
    BY DEF Touches, CarryingOn, LiveOf, Live
  <1>2. ASSUME NEW j \in Jobs, status'[j] \in Unsettled
        PROVE  CarryingOn(j)' # {}
    <2>1. CASE j = k
      <3>1. status'[k] \in Unsettled
        BY <1>2, <2>1
      <3>2. CASE CarryingOn(k)' # {}
        BY <2>1, <3>2
      <3>3. CASE r \notin CarryingOn(k) /\ status'[k] = status[k]
        <4>1. PICK p \in CarryingOn(k) : TRUE
          BY <3>1, <3>3 DEF NotStuckInStage
        <4>2. p \in RqIds \ {r}
          BY <3>3, <4>1 DEF CarryingOn, LiveOf
        <4>3. p \in CarryingOn(k)'
          BY <1>1, <4>1, <4>2
        <4> QED BY <2>1, <4>3
      <3> QED BY <3>1, <3>2, <3>3
    <2>2. CASE j # k
      <3>1. status[j] \in Unsettled
        BY <1>2, <2>2 DEF Touches
      <3>2. PICK p \in CarryingOn(j) : TRUE
        BY <3>1 DEF NotStuckInStage
      <3>3. p \in RqIds \ {r}
        BY <2>2, <3>2 DEF CarryingOn, LiveOf
      <3> QED BY <1>1, <3>2, <3>3
    <2> QED BY <2>1, <2>2
  <1> QED BY <1>2 DEF NotStuckInStage

LEMMA UnsettledStatuses ==
  /\ \A st \in Unsettled : st \notin {"absent", "queued", "cancelled", "deleted", "scored"}
  /\ \A s \in Stages : Failed[s] \notin Unsettled
  BY DEF Unsettled, InProgress, Completed, Stages, Doing, Done, Failed

LEMMA NotStuckRaise ==
  ASSUME FailuresShow, TypeInv, NotStuckInStage, NEW r \in RqIds, Live(r), Raise(r)
  PROVE  NotStuckInStage'
  <1>1. Touches(r)
    BY RaiseTouches
  <1>k. PICK k \in Jobs : rq[r].job = k
    BY <1>1 DEF Touches
  <1>2. CASE rq[r].left = 0 \/ EagerCallback
    <2>1. status'[k] \notin Unsettled
      BY <1>1, <1>k, <1>2, UnsettledStatuses
      DEF Raise, MarkFailed, Exists, TypeInv, TypeOK, Touches
    <2> QED BY <1>1, <1>k, <2>1, NotStuckStep
  <1>3. CASE ~(rq[r].left = 0 \/ EagerCallback)
    <2>1. rq[r].left > 0 /\ Scheduler
      BY <1>1, <1>3 DEF FailuresShow, Touches, RqJob
    <2>2. rq'[r].pc = "scheduled" /\ rq'[r].job = k
      BY <1>1, <1>k, <2>1 DEF Raise, Touches, TypeInv, TypeOK, RqJob
    <2>3. r \in CarryingOn(k)'
      BY <2>1, <2>2 DEF CarryingOn, LiveOf, Live
    <2> QED BY <1>1, <1>k, <2>3, NotStuckStep
  <1> QED BY <1>2, <1>3

LEMMA NotStuckNext ==
  ASSUME FailuresShow, TypeInv, NotStuckInStage, [Next]_vars
  PROVE  NotStuckInStage'
  <1> USE DEF TypeInv
  <1>1. ASSUME NEW j \in Jobs, ApiStep(j), ~EnqueueIngest(j)
        PROVE  NotStuckInStage'
    <2>1. rq' = rq
      BY <1>1 DEF ApiStep, CreateJob, CancelCheck, CancelWrite, DeleteFiles, DeleteRows,
                  RequestDies
    <2>2. \A k \in Jobs : status'[k] = status[k] \/ status'[k] \notin Unsettled
      BY <1>1, UnsettledStatuses
      DEF ApiStep, CreateJob, CancelCheck, CancelWrite, DeleteFiles, DeleteRows,
          RequestDies, TypeOK
    <2>3. \A k \in Jobs : CarryingOn(k)' = CarryingOn(k)
      BY <2>1 DEF CarryingOn, LiveOf, Live
    <2> QED BY <2>2, <2>3 DEF NotStuckInStage
  <1>2. ASSUME NEW j \in Jobs, EnqueueIngest(j)
        PROVE  NotStuckInStage'
    <2>1. PICK r \in RqIds : ~Live(r) /\ rq' = [rq EXCEPT ![r] = NewRqJob(j, "ingest")]
      BY <1>2 DEF EnqueueIngest, EnqueueInto
    <2>2. \A k \in Jobs, p \in RqIds : p \in CarryingOn(k) => p \in CarryingOn(k)'
      BY <2>1 DEF CarryingOn, LiveOf, Live, TypeOK
    <2> QED BY <1>2, <2>2 DEF NotStuckInStage, EnqueueIngest, CarryingOn, LiveOf
  <1>3. ASSUME NEW r \in RqIds, InputGone(r) \/ Interrupted(r)
        PROVE  NotStuckInStage'
    BY <1>3, NotStuckRaise DEF InputGone, Interrupted, Live
  <1>4. ASSUME NEW r \in RqIds, RunRetry(r) \/ Dequeue(r) \/ Begin(r) \/ Fetch(r)
                                \/ Listen(r) \/ StageFails(r) \/ Ack(r)
        PROVE  NotStuckInStage'
    <2>1. Live(r) /\ rq[r].job \in Jobs /\ rq[r].stage \in Stages /\ rq[r] \in RqJob
      BY <1>4, LiveRun DEF TypeOK, RqOK, RunRetry, Dequeue, Begin, Fetch, Listen, StageFails, Ack,
                               At, Live
    <2>k. PICK k \in Jobs : rq[r].job = k
      BY <2>1
    <2>2. Touches(r)
      BY <1>4, <2>1 DEF Touches, RunRetry, Dequeue, Begin, Fetch, Listen, StageFails, Ack,
                        Goto, Finish, MarkFailed, TypeOK
    <2>3. CASE RunRetry(r) \/ Fetch(r) \/ Listen(r)
      <3>1. rq'[r].pc \in {"queued", "work"} /\ rq'[r].job = k
        BY <2>1, <2>k, <2>3 DEF RunRetry, Fetch, Listen, Goto, TypeOK, RqJob
      <3>2. r \in CarryingOn(k)'
        BY <3>1 DEF CarryingOn, LiveOf, Live
      <3> QED BY <2>2, <2>k, <3>2, NotStuckStep
    <2>4. CASE Dequeue(r)
      <3>1. CASE status[k] = "cancelled"
        BY <2>2, <2>4, <2>k, <3>1, NotStuckStep, UnsettledStatuses DEF Dequeue
      <3>2. CASE status[k] # "cancelled"
        <4>1. rq'[r].pc = "begin" /\ rq'[r].job = k
          BY <2>1, <2>k, <2>4, <3>2 DEF Dequeue, Goto, TypeOK, RqJob
        <4>2. r \in CarryingOn(k)'
          BY <4>1 DEF CarryingOn, LiveOf, Live
        <4> QED BY <2>2, <2>k, <4>2, NotStuckStep
      <3> QED BY <3>1, <3>2
    <2>5. CASE Begin(r)
      <3>1. CASE Exists(k)
        <4>1. rq'[r].pc = "fetch" /\ rq'[r].job = k
          BY <2>1, <2>k, <2>5, <3>1 DEF Begin, TypeOK, RqJob
        <4>2. r \in CarryingOn(k)'
          BY <4>1 DEF CarryingOn, LiveOf, Live
        <4> QED BY <2>2, <2>k, <4>2, NotStuckStep
      <3>2. CASE ~Exists(k)
        <4>1. status'[k] \notin Unsettled
          BY <2>5, <2>k, <3>2, UnsettledStatuses DEF Begin, Exists
        <4> QED BY <2>2, <2>k, <4>1, NotStuckStep
      <3> QED BY <3>1, <3>2
    <2>6. CASE StageFails(r)
      <3>1. status'[k] \notin Unsettled
        BY <2>1, <2>6, <2>k, UnsettledStatuses DEF StageFails, MarkFailed, Exists, TypeOK
      <3> QED BY <2>2, <2>k, <3>1, NotStuckStep
    <2>7. CASE Ack(r)
      <3>1. r \notin CarryingOn(k) /\ status'[k] = status[k]
        BY <2>7 DEF Ack, CarryingOn
      <3> QED BY <2>2, <2>k, <3>1, NotStuckStep
    <2> QED BY <1>4, <2>3, <2>4, <2>5, <2>6, <2>7
  <1>5. ASSUME NEW r \in RqIds,
               EnqueueTranscription(r) \/ EnqueueSegmentation(r) \/ EnqueueScoring(r)
        PROVE  NotStuckInStage'
    <2>1. Live(r) /\ UNCHANGED status /\ \E s \in Stages : EnqueueNext(r, s)
      BY <1>5 DEF EnqueueTranscription, EnqueueSegmentation, EnqueueScoring, At, Live, Stages
    <2>2. PICK s \in Stages : EnqueueNext(r, s)
      BY <2>1
    <2>3. Touches(r)
      BY <2>1, <2>2, EnqueueTouches
    <2>k. PICK k \in Jobs : rq[r].job = k
      BY <2>3 DEF Touches
    <2>4. PICK q \in RqIds : rq'[q] = NewRqJob(k, s)
      BY <2>1, <2>2, <2>k, EnqueueTouches
    <2>5. q \in CarryingOn(k)'
      BY <2>4 DEF CarryingOn, LiveOf, Live, NewRqJob, Unused
    <2> QED BY <2>3, <2>k, <2>5, NotStuckStep
  <1>6. ASSUME NEW r \in RqIds,
               PutAudio(r) \/ CommitIngest(r) \/ CommitTranscript(r) \/ CommitCandidates(r)
        PROVE  NotStuckInStage'
    <2>1. CASE Raise(r)
      BY <1>6, <2>1, NotStuckRaise
      DEF PutAudio, CommitIngest, CommitTranscript, CommitCandidates, At, Live
    <2>2. CASE ~Raise(r)
      <3>1. Live(r) /\ rq[r].job \in Jobs /\ rq[r].stage \in Stages /\ rq[r] \in RqJob
        BY <1>6, LiveRun
        DEF TypeOK, RqOK, PutAudio, CommitIngest, CommitTranscript, CommitCandidates, At, Live
      <3>k. PICK k \in Jobs : rq[r].job = k
        BY <3>1
      <3>2. /\ Goto(r, "commit") \/ Goto(r, "enqueue")
            /\ rq[r].stage # "scoring"
            /\ \A j \in Jobs \ {k} : status'[j] = status[j]
        BY <1>6, <2>2, <3>k
        DEF PutAudio, CommitIngest, CommitTranscript, CommitCandidates, At, CommitFails, TypeOK
      <3>3. Touches(r)
        <4>1. \A p \in RqIds \ {r} : rq'[p] = rq[p]
          BY <3>2 DEF Goto, TypeOK
        <4> QED BY <3>1, <3>k, <3>2, <4>1 DEF Touches
      <3>4. rq'[r].pc \in {"commit", "enqueue"} /\ rq'[r].job = k /\ rq'[r].stage # "scoring"
        BY <3>1, <3>2, <3>k DEF Goto, TypeOK, RqJob
      <3>5. r \in CarryingOn(k)'
        BY <3>4 DEF CarryingOn, LiveOf, Live
      <3> QED BY <3>3, <3>k, <3>5, NotStuckStep
    <2> QED BY <2>1, <2>2
  <1>7. ASSUME NEW r \in RqIds, CommitScores(r) \/ EnqueueRendering(r)
        PROVE  NotStuckInStage'
    <2>1. Live(r) /\ rq[r].job \in Jobs /\ rq[r].stage \in Stages /\ rq[r] \in RqJob
      BY <1>7, LiveRun DEF TypeOK, RqOK, CommitScores, EnqueueRendering, At, Live
    <2>k. PICK k \in Jobs : rq[r].job = k
      BY <2>1
    <2>2. CASE CommitScores(r) /\ ~Exists(k)
      BY <2>1, <2>2, <2>k, NotStuckRaise DEF CommitScores, CommitFails
    <2>3. CASE CommitScores(r) /\ Exists(k)
      <3>1. status' = [status EXCEPT ![k] = "scored"]
        BY <2>3, <2>k DEF CommitScores
      <3>2. \A p \in RqIds \ {r} : rq'[p] = rq[p]
        BY <2>3, <2>k DEF CommitScores, TypeOK
      <3>3. Touches(r) /\ status'[k] \notin Unsettled
        BY <2>1, <2>k, <3>1, <3>2, UnsettledStatuses DEF Touches, TypeOK
      <3> QED BY <2>k, <3>3, NotStuckStep
    <2>4. CASE EnqueueRendering(r)
      <3>1. \A p \in RqIds \ {r} : rq'[p] = rq[p]
        BY <2>4 DEF EnqueueRendering, Goto, TypeOK
      <3>2. UNCHANGED status
        BY <2>4 DEF EnqueueRendering
      <3>3. r \notin CarryingOn(k)
        BY <2>4 DEF EnqueueRendering, At, CarryingOn
      <3>4. Touches(r)
        BY <2>1, <3>1, <3>2 DEF Touches
      <3> QED BY <2>k, <3>2, <3>3, <3>4, NotStuckStep
    <2> QED BY <1>7, <2>2, <2>3, <2>4
  <1>8. CASE UNCHANGED vars
    BY <1>8 DEF vars, NotStuckInStage, CarryingOn, LiveOf, Live
  <1> QED BY <1>1, <1>2, <1>3, <1>4, <1>5, <1>6, <1>7, <1>8
      DEF Next, ApiStep, WorkerStep, Ingest, Transcription, Segmentation, Scoring

(* A stream job that is part of the way through has a run that will take it *)
(* further or end it, provided that failures show.                          *)
THEOREM NotStuck == FailuresShow => (Spec => []NotStuckInStage)
  <1> SUFFICES ASSUME FailuresShow PROVE Spec => []NotStuckInStage
    OBVIOUS
  <1>1. Init => NotStuckInStage
    BY UnsettledStatuses DEF Init, NotStuckInStage
  <1>2. TypeInv /\ NotStuckInStage /\ [Next]_vars => NotStuckInStage'
    BY NotStuckNext
  <1>3. Init => TypeInv
    BY TypeInvInit
  <1>4. TypeInv /\ [Next]_vars => TypeInv'
    BY TypeInvNext
  <1> QED BY <1>1, <1>2, <1>3, <1>4, PTL DEF Spec

-----------------------------------------------------------------------------
(* The order of the stages.  Runs that rely on the transcript, runs that    *)
(* rely on the audio track (an ingest run from its upload on), and, for     *)
(* both, that a stream job which does not exist yet has no run.  Scoring    *)
(* takes the audio track away: its row, which a raw video always has, then  *)
(* has a transcript.                                                        *)
ReadsTranscript(r) ==
  At(r, "transcription", "enqueue") \/ rq[r].stage \in {"segmentation", "scoring"}
ReadsAudio(r) ==
  rq[r].stage = "transcription" \/ At(r, "ingest", "commit") \/ At(r, "ingest", "enqueue")

AbsentIsIdle ==
  \A j \in Jobs : status[j] = "absent" =>
    LiveOf(j) = {} /\ \A kind \in {"create", "cancel", "delete"} : <<kind, j>> \notin api
ReadersFindTranscript ==
  \A j \in Jobs : \A r \in LiveOf(j) : ReadsTranscript(r) /\ Exists(j) => transcript[j]
RawHasRow ==
  \A j \in Jobs : "raw" \in store[j] => Exists(j) /\ <<"delete", j>> \notin api
ReadersFindAudio ==
  \A j \in Jobs : \A r \in LiveOf(j) :
    ReadsAudio(r) /\ "raw" \in store[j] /\ ~transcript[j] => "audio" \in store[j]

OrderInv ==
  AbsentIsIdle /\ ReadersFindTranscript /\ OneSegmentationJob /\ RawHasRow /\ ReadersFindAudio

(* No step of a run makes a row appear or disappear in stream_jobs.         *)
SameExistence ==
  \A j \in Jobs : /\ Exists(j)' <=> Exists(j)
                  /\ status'[j] = "absent" <=> status[j] = "absent"

LEMMA ExistingStatuses ==
  /\ \A s \in Stages : /\ Doing[s] \notin {"absent", "deleted"}
                       /\ Failed[s] \notin {"absent", "deleted"}
  /\ "cancelled" \notin {"absent", "deleted"}
  BY DEF Stages, Doing, Failed

(* Of the run r there is left at most what there was, and of its reliance.  *)
Shrinks(r) ==
  /\ \A p \in RqIds \ {r} : rq'[p] = rq[p]
  /\ Live(r)' =>
       /\ rq'[r].job = rq[r].job /\ rq'[r].stage = rq[r].stage
       /\ rq'[r].pc = "enqueue" => rq[r].stage # "transcription"
       /\ rq'[r].pc \in {"commit", "enqueue"} /\ rq[r].stage = "ingest"
            => rq[r].pc \in {"commit", "enqueue"}

LEMMA OrderStep ==
  ASSUME TypeInv, OrderInv, NEW r \in RqIds, Live(r), Shrinks(r), SameExistence,
         UNCHANGED <<api, store, transcript>>
  PROVE  OrderInv'
  <1> USE DEF TypeInv
  <1>1. \A j \in Jobs, p \in RqIds : p \in LiveOf(j)' =>
          /\ p \in LiveOf(j)
          /\ ReadsTranscript(p)' => ReadsTranscript(p)
          /\ ReadsAudio(p)' => ReadsAudio(p)
    <2>1. ASSUME NEW j \in Jobs, NEW p \in RqIds \ {r}, p \in LiveOf(j)'
          PROVE  /\ p \in LiveOf(j)
                 /\ ReadsTranscript(p)' => ReadsTranscript(p)
                 /\ ReadsAudio(p)' => ReadsAudio(p)
      BY <2>1 DEF LiveOf, Live, ReadsTranscript, ReadsAudio, At, Shrinks
    <2>2. ASSUME NEW j \in Jobs, r \in LiveOf(j)'
          PROVE  /\ r \in LiveOf(j)
                 /\ ReadsTranscript(r)' => ReadsTranscript(r)
                 /\ ReadsAudio(r)' => ReadsAudio(r)
      BY <2>2 DEF LiveOf, Live, ReadsTranscript, ReadsAudio, At, Shrinks
    <2> QED BY <2>1, <2>2
  <1>2. \A j \in Jobs, p \in RqIds : p \in SegmentationTokens(j)' => p \in SegmentationTokens(j)
    <2>1. \A j \in Jobs, p \in RqIds \ {r} :
            p \in SegmentationTokens(j)' => p \in SegmentationTokens(j)
      BY <1>1 DEF SegmentationTokens, Shrinks, At, LiveOf, Live
    <2>2. \A j \in Jobs : r \in SegmentationTokens(j)' => r \in SegmentationTokens(j)
      BY <1>1 DEF SegmentationTokens, Shrinks, At, LiveOf, Live
    <2> QED BY <2>1, <2>2
  <1>3. AbsentIsIdle'
    BY <1>1 DEF OrderInv, AbsentIsIdle, SameExistence, LiveOf
  <1>4. ReadersFindTranscript'
    BY <1>1 DEF OrderInv, ReadersFindTranscript, SameExistence, LiveOf
  <1>5. OneSegmentationJob'
    BY <1>2 DEF OrderInv, OneSegmentationJob, SegmentationTokens, LiveOf
  <1>6. ReadersFindAudio'
    BY <1>1 DEF OrderInv, ReadersFindAudio, LiveOf
  <1>7. RawHasRow'
    BY DEF OrderInv, RawHasRow, SameExistence
  <1> QED BY <1>3, <1>4, <1>5, <1>6, <1>7 DEF OrderInv

LEMMA OrderRaise ==
  ASSUME TypeInv, OrderInv, NEW r \in RqIds, Live(r), Raise(r),
         UNCHANGED <<api, store, transcript>>
  PROVE  OrderInv'
  <1> USE DEF TypeInv, TypeOK
  <1>1. rq[r].job \in Jobs /\ rq[r].stage \in Stages /\ rq[r] \in RqJob
    BY LiveRun DEF RqOK
  <1>2. Shrinks(r)
    BY <1>1 DEF Shrinks, Raise, Finish, Live, Unused, RqJob
  <1>3. SameExistence
    BY <1>1, ExistingStatuses DEF SameExistence, Raise, MarkFailed, Exists
  <1> QED BY <1>2, <1>3, OrderStep

LEMMA OrderQuiet ==
  ASSUME TypeInv, OrderInv, NEW r \in RqIds,
         \/ RunRetry(r) \/ Dequeue(r) \/ Begin(r) \/ Fetch(r) \/ InputGone(r)
         \/ StageFails(r) \/ Ack(r) \/ Interrupted(r)
         \/ CommitIngest(r) \/ CommitCandidates(r) \/ CommitScores(r) \/ EnqueueRendering(r)
  PROVE  OrderInv'
  <1> USE DEF TypeInv
  <1>1. Live(r) /\ rq[r].job \in Jobs /\ rq[r].stage \in Stages /\ rq[r] \in RqJob
    BY LiveRun
    DEF TypeOK, RqOK, RunRetry, Dequeue, Begin, Fetch, InputGone, StageFails, Ack,
        Interrupted, CommitIngest, CommitCandidates, CommitScores, EnqueueRendering, At, Live
  <1>2. UNCHANGED <<api, store, transcript>>
    BY DEF RunRetry, Dequeue, Begin, Fetch, InputGone, StageFails, Ack, Interrupted,
           CommitIngest, CommitCandidates, CommitScores, EnqueueRendering, CommitFails, rows
  <1>3. CASE Raise(r)
    BY <1>1, <1>2, <1>3, OrderRaise
  <1>4. CASE ~Raise(r)
    <2>1. SameExistence
      BY <1>1, <1>4, ExistingStatuses
      DEF SameExistence, Exists, RunRetry, Dequeue, Begin, Fetch, InputGone, StageFails,
          Ack, Interrupted, CommitIngest, CommitCandidates, CommitScores,
          EnqueueRendering, CommitFails, MarkFailed, TypeOK
    <2>2. CASE RunRetry(r) \/ Dequeue(r) \/ Fetch(r) \/ StageFails(r) \/ Ack(r)
      BY <1>1, <1>2, <2>1, <2>2, OrderStep
      DEF Shrinks, RunRetry, Dequeue, Fetch, StageFails, Ack, Goto, Finish, Live, Unused,
          TypeOK, RqJob
    <2>3. CASE Begin(r)
      BY <1>1, <1>2, <2>1, <2>3, OrderStep
      DEF Shrinks, Begin, Finish, Live, Unused, TypeOK, RqJob
    <2>4. CASE CommitIngest(r) \/ CommitCandidates(r)
      BY <1>1, <1>2, <1>4, <2>1, <2>4, OrderStep
      DEF Shrinks, CommitIngest, CommitCandidates, CommitFails, At, Goto, Live, TypeOK, RqJob
    <2>5. CASE CommitScores(r) \/ EnqueueRendering(r)
      <3>1. Shrinks(r)
        BY <1>1, <1>4, <2>5
        DEF Shrinks, CommitScores, EnqueueRendering, CommitFails, At, Goto, Live, TypeOK, RqJob
      <3> QED BY <1>1, <1>2, <2>1, <3>1, OrderStep
    <2> QED BY <1>4, <2>2, <2>3, <2>4, <2>5 DEF InputGone, Interrupted
  <1> QED BY <1>3, <1>4

LEMMA OrderPutAudio ==
  ASSUME TypeInv, OrderInv, NEW r \in RqIds, PutAudio(r)
  PROVE  OrderInv'
  <1> USE DEF TypeInv, TypeOK
  <1>1. Live(r) /\ rq[r].job \in Jobs /\ rq[r] \in RqJob
    BY LiveRun DEF RqOK, PutAudio, At, Live
  <1>2. /\ UNCHANGED <<api, status, transcript>>
        /\ \A p \in RqIds \ {r} : rq'[p] = rq[p]
        /\ rq'[r].job = rq[r].job /\ rq'[r].stage = "ingest" /\ rq[r].stage = "ingest"
        /\ rq'[r].pc = "commit"
    BY <1>1 DEF PutAudio, At, Goto, rows, RqJob
  <1>3. \A j \in Jobs : /\ \/ store'[j] = store[j] /\ rq[r].job # j
                           \/ "audio" \in store'[j]
                        /\ "raw" \in store'[j] => "raw" \in store[j]
    BY <1>1 DEF PutAudio
  <1>4. \A j \in Jobs : /\ LiveOf(j)' = LiveOf(j)
                        /\ SegmentationTokens(j)' = SegmentationTokens(j)
    BY <1>1, <1>2 DEF LiveOf, Live, SegmentationTokens, At
  <1>5. \A p \in RqIds : ReadsTranscript(p)' => ReadsTranscript(p)
    BY <1>2 DEF ReadsTranscript, At
  <1>6. \A p \in RqIds \ {r} : ReadsAudio(p)' => ReadsAudio(p)
    BY <1>2 DEF ReadsAudio, At
  <1>7. AbsentIsIdle' /\ ReadersFindTranscript' /\ OneSegmentationJob'
    BY <1>2, <1>4, <1>5
    DEF OrderInv, AbsentIsIdle, ReadersFindTranscript, OneSegmentationJob, Exists, LiveOf
  <1>8. ReadersFindAudio'
    BY <1>2, <1>3, <1>4, <1>6 DEF OrderInv, ReadersFindAudio, LiveOf
  <1>9. RawHasRow'
    BY <1>2, <1>3 DEF OrderInv, RawHasRow, Exists
  <1> QED BY <1>7, <1>8, <1>9 DEF OrderInv

LEMMA OrderListen ==
  ASSUME TypeInv, OrderInv, NEW r \in RqIds, Listen(r)
  PROVE  OrderInv'
  <1> USE DEF TypeInv, TypeOK
  <1>1. Live(r) /\ rq[r] \in RqJob /\ rq[r].stage = "scoring"
    BY LiveRun DEF RqOK, Listen, At, Live
  <1>k. PICK k \in Jobs : rq[r].job = k
    BY <1>1, LiveRun DEF RqOK
  <1>2. /\ UNCHANGED <<api, status, transcript>>
        /\ \A p \in RqIds \ {r} : rq'[p] = rq[p]
        /\ rq'[r].job = k /\ rq'[r].stage = "scoring" /\ rq'[r].pc = "work"
    BY <1>1, <1>k DEF Listen, At, Goto, rows, RqJob
  <1>3. /\ \A j \in Jobs \ {k} : store'[j] = store[j]
        /\ "raw" \in store'[k] => "raw" \in store[k]
    BY <1>k DEF Listen
  <1>4. \A j \in Jobs : LiveOf(j)' = LiveOf(j)
    BY <1>1, <1>k, <1>2 DEF LiveOf, Live
  <1>5. \A j \in Jobs : SegmentationTokens(j)' = SegmentationTokens(j)
    BY <1>1, <1>2, <1>4 DEF SegmentationTokens, LiveOf, Live, At
  <1>6. \A p \in RqIds : /\ ReadsTranscript(p)' => ReadsTranscript(p)
                         /\ ReadsAudio(p)' => ReadsAudio(p)
    BY <1>1, <1>2 DEF ReadsTranscript, ReadsAudio, At
  <1>7. AbsentIsIdle' /\ ReadersFindTranscript' /\ OneSegmentationJob'
    BY <1>2, <1>4, <1>5, <1>6
    DEF OrderInv, AbsentIsIdle, ReadersFindTranscript, OneSegmentationJob, Exists, LiveOf
  <1>8. RawHasRow'
    BY <1>2, <1>3 DEF OrderInv, RawHasRow, Exists
  <1>9. "raw" \in store[k] => transcript[k]
    <2>1. r \in LiveOf(k) /\ ReadsTranscript(r)
      BY <1>1, <1>k DEF LiveOf, ReadsTranscript
    <2> QED BY <2>1 DEF OrderInv, RawHasRow, ReadersFindTranscript
  <1>10. ReadersFindAudio'
    BY <1>2, <1>3, <1>4, <1>6, <1>9 DEF OrderInv, ReadersFindAudio, LiveOf
  <1> QED BY <1>7, <1>8, <1>10 DEF OrderInv

LEMMA OrderCommitTranscript ==
  ASSUME TypeInv, OrderInv, NEW r \in RqIds, CommitTranscript(r)
  PROVE  OrderInv'
  <1> USE DEF TypeInv
  <1>1. Live(r) /\ rq[r].job \in Jobs /\ rq[r] \in RqJob
    BY LiveRun DEF TypeOK, RqOK, CommitTranscript, At, Live
  <1>k. PICK k \in Jobs : rq[r].job = k
    BY <1>1
  <1>2. CASE ~InsertsTranscript(k)
    BY <1>1, <1>2, <1>k, OrderRaise DEF CommitTranscript, CommitFails, rows
  <1>3. CASE InsertsTranscript(k)
    <2>1. /\ transcript' = [transcript EXCEPT ![k] = TRUE]
          /\ status' = [status EXCEPT ![k] = "transcribed"]
          /\ UNCHANGED <<api, store>>
      BY <1>3, <1>k DEF CommitTranscript
    <2>2. /\ \A p \in RqIds \ {r} : rq'[p] = rq[p]
          /\ rq'[r].job = k /\ rq'[r].pc = "enqueue"
          /\ rq'[r].stage = "transcription" /\ rq[r].stage = "transcription"
      BY <1>1, <1>3, <1>k DEF CommitTranscript, Goto, At, TypeOK, RqJob
    <2>3. Exists(k) /\ ~transcript[k]
      BY <1>3 DEF InsertsTranscript
    <2>4. SameExistence
      BY <2>1, <2>3 DEF SameExistence, Exists, TypeOK
    <2>5. \A j \in Jobs : LiveOf(j)' = LiveOf(j)
      BY <1>1, <1>k, <2>2 DEF LiveOf, Live
    <2>6. \A p \in RqIds \ {r} : /\ ReadsTranscript(p)' => ReadsTranscript(p)
                                 /\ ReadsAudio(p)' => ReadsAudio(p)
      BY <2>2 DEF ReadsTranscript, ReadsAudio, At
    <2>7. AbsentIsIdle'
      BY <2>1, <2>4, <2>5 DEF OrderInv, AbsentIsIdle, SameExistence
    <2>8. ReadersFindTranscript'
      <3>1. ASSUME NEW j \in Jobs, NEW p \in LiveOf(j)', ReadsTranscript(p)', Exists(j)'
            PROVE  transcript'[j]
        <4>1. CASE j = k
          BY <2>1, <4>1 DEF TypeOK
        <4>2. CASE j # k
          <5>1. p \in RqIds \ {r} /\ p \in LiveOf(j)
            BY <1>k, <2>5, <3>1, <4>2 DEF LiveOf
          <5>2. transcript[j]
            BY <2>4, <2>6, <3>1, <5>1 DEF OrderInv, ReadersFindTranscript, SameExistence
          <5> QED BY <2>1, <4>2, <5>2 DEF TypeOK
        <4> QED BY <4>1, <4>2
      <3> QED BY <3>1 DEF ReadersFindTranscript
    <2>9. OneSegmentationJob'
      <3>1. SegmentationTokens(k) = {}
        BY <2>3 DEF OrderInv, ReadersFindTranscript, ReadsTranscript, SegmentationTokens
      <3>2. \A j \in Jobs, p \in RqIds \ {r} :
              p \in SegmentationTokens(j)' => p \in SegmentationTokens(j)
        BY <2>2 DEF SegmentationTokens, LiveOf, Live, At
      <3>3. \A j \in Jobs : r \in SegmentationTokens(j)' => j = k
        BY <2>2 DEF SegmentationTokens, LiveOf
      <3> QED BY <3>1, <3>2, <3>3 DEF OrderInv, OneSegmentationJob, SegmentationTokens, LiveOf
    <2>10. ReadersFindAudio'
      <3>1. ReadsAudio(r)' => ReadsAudio(r)
        BY <2>2 DEF ReadsAudio, At
      <3>2. \A j \in Jobs : ~transcript'[j] => ~transcript[j]
        BY <2>1 DEF TypeOK
      <3> QED BY <2>1, <2>5, <2>6, <3>1, <3>2 DEF OrderInv, ReadersFindAudio, LiveOf
    <2>11. RawHasRow'
      BY <2>1, <2>4 DEF OrderInv, RawHasRow, SameExistence
    <2> QED BY <2>7, <2>8, <2>9, <2>10, <2>11 DEF OrderInv
  <1> QED BY <1>2, <1>3

LEMMA OrderEnqueue ==
  ASSUME TypeInv, OrderInv, NEW r \in RqIds,
         EnqueueTranscription(r) \/ EnqueueSegmentation(r) \/ EnqueueScoring(r)
  PROVE  OrderInv'
  <1> USE DEF TypeInv
  <1>1. Live(r) /\ UNCHANGED <<status, api, store, rows>> /\ rq[r].pc = "enqueue"
    BY DEF EnqueueTranscription, EnqueueSegmentation, EnqueueScoring, At, Live
  <1>2. PICK s \in Stages :
          /\ EnqueueNext(r, s)
          /\ \/ rq[r].stage = "ingest" /\ s = "transcription"
             \/ rq[r].stage = "transcription" /\ s = "segmentation"
             \/ rq[r].stage = "segmentation" /\ s = "scoring"
    BY DEF EnqueueTranscription, EnqueueSegmentation, EnqueueScoring, At, Stages
  <1>k. PICK k \in Jobs : rq[r].job = k /\ rq[r] \in RqJob
    BY <1>1, LiveRun DEF TypeOK, RqOK
  <1>3. PICK q \in RqIds \ {r} :
          /\ ~Live(q)
          /\ rq'[q] = NewRqJob(k, s)
          /\ rq'[r] = [rq[r] EXCEPT !.pc = "ack"]
          /\ \A p \in RqIds \ {q, r} : rq'[p] = rq[p]
    BY <1>1, <1>2, <1>k, EnqueueTouches
  <1>4. /\ rq'[r].pc = "ack" /\ rq'[r].job = k /\ rq'[r].stage = rq[r].stage
        /\ rq'[q].pc = "queued" /\ rq'[q].job = k /\ rq'[q].stage = s
    BY <1>k, <1>3 DEF RqJob, NewRqJob, Unused
  <1>5. r \in LiveOf(k)
    BY <1>1, <1>k DEF LiveOf
  <1>6. \A j \in Jobs : LiveOf(j)' \subseteq IF j = k THEN LiveOf(j) \cup {q} ELSE LiveOf(j)
    BY <1>1, <1>k, <1>3, <1>4 DEF LiveOf, Live
  <1>7. \A p \in RqIds \ {q} : /\ ReadsTranscript(p)' => ReadsTranscript(p)
                               /\ ReadsAudio(p)' => ReadsAudio(p)
    BY <1>3, <1>4 DEF ReadsTranscript, ReadsAudio, At
  <1>8. /\ ReadsTranscript(q)' => ReadsTranscript(r)
        /\ ReadsAudio(q)' => ReadsAudio(r)
    BY <1>1, <1>2, <1>4 DEF ReadsTranscript, ReadsAudio, At
  <1>9. UNCHANGED <<status, api, store, transcript>>
    BY <1>1 DEF rows
  <1>10. AbsentIsIdle'
    BY <1>5, <1>6, <1>9 DEF OrderInv, AbsentIsIdle
  <1>11. ReadersFindTranscript'
    <2>1. ASSUME NEW j \in Jobs, NEW p \in LiveOf(j)', ReadsTranscript(p)', Exists(j)'
          PROVE  transcript[j]
      <3>1. Exists(j)
        BY <1>9, <2>1 DEF Exists
      <3>2. CASE p = q /\ j = k
        BY <1>5, <1>8, <2>1, <3>1, <3>2 DEF OrderInv, ReadersFindTranscript
      <3>3. CASE p \in LiveOf(j)
        <4>1. p # q
          BY <1>3, <3>3 DEF LiveOf
        <4>2. p \in RqIds \ {q}
          BY <4>1, <3>3 DEF LiveOf
        <4> QED BY <1>7, <2>1, <3>1, <3>3, <4>2 DEF OrderInv, ReadersFindTranscript
      <3> QED BY <1>6, <2>1, <3>2, <3>3
    <2> QED BY <1>9, <2>1 DEF ReadersFindTranscript
  <1>12. OneSegmentationJob'
    <2>1. \A j \in Jobs, p \in RqIds \ {q, r} :
            p \in SegmentationTokens(j)' => p \in SegmentationTokens(j)
      BY <1>3 DEF SegmentationTokens, LiveOf, Live, At
    <2>2. \A j \in Jobs : r \in SegmentationTokens(j)' =>
            j = k /\ r \in SegmentationTokens(j) /\ rq[r].stage = "segmentation"
      BY <1>1, <1>k, <1>4 DEF SegmentationTokens, LiveOf, Live, At
    <2>3. \A j \in Jobs : q \in SegmentationTokens(j)' =>
            j = k /\ r \in SegmentationTokens(j) /\ s = "segmentation"
      BY <1>1, <1>2, <1>k, <1>4, <1>5 DEF SegmentationTokens, LiveOf, Live, At
    <2> QED
      BY <1>2, <2>1, <2>2, <2>3 DEF OrderInv, OneSegmentationJob, SegmentationTokens, LiveOf
  <1>13. ReadersFindAudio'
    <2>1. ASSUME NEW j \in Jobs, NEW p \in LiveOf(j)', ReadsAudio(p)', "raw" \in store[j], ~transcript[j]
          PROVE  "audio" \in store[j]
      <3>2. CASE p = q /\ j = k
        BY <1>5, <1>8, <2>1, <3>2 DEF OrderInv, ReadersFindAudio
      <3>3. CASE p \in LiveOf(j)
        <4>1. p \in RqIds \ {q}
          BY <1>3, <3>3 DEF LiveOf
        <4> QED BY <1>7, <2>1, <3>3, <4>1 DEF OrderInv, ReadersFindAudio
      <3> QED BY <1>6, <2>1, <3>2, <3>3
    <2> QED BY <1>9, <2>1 DEF ReadersFindAudio
  <1>14. RawHasRow'
    BY <1>9 DEF OrderInv, RawHasRow, Exists
  <1> QED BY <1>10, <1>11, <1>12, <1>13, <1>14 DEF OrderInv

LEMMA OrderApi ==
  ASSUME TypeInv, OrderInv, NEW k \in Jobs, ApiStep(k)
  PROVE  OrderInv'
  <1> USE DEF TypeInv
  <1>1. CASE CreateJob(k)
    <2>1. LiveOf(k) = {}
      BY <1>1 DEF CreateJob, OrderInv, AbsentIsIdle
    <2>2. \A j \in Jobs : LiveOf(j)' = LiveOf(j) /\ SegmentationTokens(j)' = SegmentationTokens(j)
      BY <1>1 DEF CreateJob, LiveOf, Live, SegmentationTokens, At
    <2>3. \A p \in RqIds : /\ ReadsTranscript(p)' = ReadsTranscript(p)
                          /\ ReadsAudio(p)' = ReadsAudio(p)
      BY <1>1 DEF CreateJob, ReadsTranscript, ReadsAudio, At
    <2>4. \A j \in Jobs \ {k} : status'[j] = status[j] /\ store'[j] = store[j]
      BY <1>1 DEF CreateJob, TypeOK
    <2>5. status'[k] = "queued" /\ transcript' = transcript /\ api' = api \cup {<<"create", k>>}
      BY <1>1 DEF CreateJob, TypeOK, rows
    <2>6. AbsentIsIdle'
      BY <2>2, <2>4, <2>5 DEF OrderInv, AbsentIsIdle
    <2>7. ReadersFindTranscript' /\ ReadersFindAudio'
      BY <2>1, <2>2, <2>3, <2>4, <2>5
      DEF OrderInv, ReadersFindTranscript, ReadersFindAudio, Exists, LiveOf
    <2>8. OneSegmentationJob'
      BY <2>2 DEF OrderInv, OneSegmentationJob
    <2>9. <<"delete", k>> \notin api /\ <<"delete", k>> # <<"create", k>>
      BY <1>1 DEF CreateJob, OrderInv, AbsentIsIdle
    <2>10. RawHasRow'
      BY <2>4, <2>5, <2>9 DEF OrderInv, RawHasRow, Exists
    <2> QED BY <2>6, <2>7, <2>8, <2>10 DEF OrderInv
  <1>2. CASE EnqueueIngest(k)
    <2>1. PICK r \in RqIds : ~Live(r) /\ rq' = [rq EXCEPT ![r] = NewRqJob(k, "ingest")]
      BY <1>2 DEF EnqueueIngest, EnqueueInto
    <2>2. /\ rq'[r].pc = "queued" /\ rq'[r].job = k /\ rq'[r].stage = "ingest"
          /\ \A p \in RqIds \ {r} : rq'[p] = rq[p]
      BY <2>1 DEF NewRqJob, Unused, TypeOK
    <2>3. UNCHANGED <<status, store, transcript>> /\ api' = api \ {<<"create", k>>}
      BY <1>2 DEF EnqueueIngest, rows
    <2>4. status[k] # "absent"
      BY <1>2 DEF EnqueueIngest, OrderInv, AbsentIsIdle
    <2>5. \A j \in Jobs, p \in RqIds \ {r} : p \in LiveOf(j)' => p \in LiveOf(j)
      BY <2>2 DEF LiveOf, Live
    <2>6. \A p \in RqIds \ {r} : /\ ReadsTranscript(p)' => ReadsTranscript(p)
                                 /\ ReadsAudio(p)' => ReadsAudio(p)
      BY <2>2 DEF ReadsTranscript, ReadsAudio, At
    <2>7. ~ReadsTranscript(r)' /\ ~ReadsAudio(r)' /\ \A j \in Jobs : r \in LiveOf(j)' => j = k
      BY <2>2 DEF ReadsTranscript, ReadsAudio, At, LiveOf
    <2>8. AbsentIsIdle'
      BY <2>3, <2>4, <2>5, <2>7 DEF OrderInv, AbsentIsIdle, LiveOf
    <2>9. ReadersFindTranscript' /\ ReadersFindAudio'
      BY <2>3, <2>5, <2>6, <2>7
      DEF OrderInv, ReadersFindTranscript, ReadersFindAudio, Exists, LiveOf
    <2>10. \A j \in Jobs, p \in RqIds : p \in SegmentationTokens(j)' => p \in SegmentationTokens(j)
      BY <2>2 DEF SegmentationTokens, LiveOf, Live, At
    <2>11. OneSegmentationJob'
      BY <2>10 DEF OrderInv, OneSegmentationJob, SegmentationTokens, LiveOf
    <2>12. RawHasRow'
      BY <2>3 DEF OrderInv, RawHasRow, Exists
    <2> QED BY <2>8, <2>9, <2>11, <2>12 DEF OrderInv
  <1>3. ASSUME UNCHANGED <<rq, status, transcript>>, store' = store \/ DeleteFiles(k),
               \A j \in Jobs, kind \in {"create", "cancel", "delete"} :
                 <<kind, j>> \in api' => <<kind, j>> \in api \/ Exists(j),
               \A j \in Jobs : <<"delete", j>> \in api' => <<"delete", j>> \in api \/ "raw" \notin store'[j]
        PROVE  OrderInv'
    <2>1. \A j \in Jobs : LiveOf(j)' = LiveOf(j) /\ SegmentationTokens(j)' = SegmentationTokens(j)
      BY <1>3 DEF LiveOf, Live, SegmentationTokens, At
    <2>2. \A p \in RqIds : /\ ReadsTranscript(p)' = ReadsTranscript(p)
                          /\ ReadsAudio(p)' = ReadsAudio(p)
      BY <1>3 DEF ReadsTranscript, ReadsAudio, At
    <2>3. \A j \in Jobs : store'[j] = store[j] \/ "raw" \notin store'[j]
      BY <1>3 DEF DeleteFiles, TypeOK
    <2>4. AbsentIsIdle'
      BY <1>3, <2>1 DEF OrderInv, AbsentIsIdle, Exists
    <2>5. ReadersFindTranscript' /\ ReadersFindAudio'
      BY <1>3, <2>1, <2>2, <2>3
      DEF OrderInv, ReadersFindTranscript, ReadersFindAudio, Exists, LiveOf
    <2>6. OneSegmentationJob'
      BY <2>1 DEF OrderInv, OneSegmentationJob
    <2>7. RawHasRow'
      BY <1>3, <2>3 DEF OrderInv, RawHasRow, Exists
    <2> QED BY <2>4, <2>5, <2>6, <2>7 DEF OrderInv
  <1>4. CASE CancelCheck(k)
    BY <1>3, <1>4 DEF CancelCheck, rows
  <1>5. CASE DeleteFiles(k)
    <2>1. "raw" \notin store'[k]
      BY <1>5 DEF DeleteFiles, TypeOK
    <2> QED BY <1>3, <1>5, <2>1 DEF DeleteFiles, rows
  <1>6. CASE RequestDies(k)
    BY <1>3, <1>6 DEF RequestDies, rows
  <1>7. ASSUME UNCHANGED <<rq, store>>, api' \subseteq api,
               \A j \in Jobs : /\ \/ status'[j] \in {"absent", "deleted"}
                                  \/ Exists(j) /\ transcript'[j] = transcript[j]
                               /\ status'[j] = "absent" => status[j] = "absent"
                               /\ "raw" \in store[j] =>
                                    Exists(j)' /\ transcript'[j] = transcript[j]
        PROVE  OrderInv'
    <2>1. \A j \in Jobs : LiveOf(j)' = LiveOf(j) /\ SegmentationTokens(j)' = SegmentationTokens(j)
      BY <1>7 DEF LiveOf, Live, SegmentationTokens, At
    <2>2. \A p \in RqIds : /\ ReadsTranscript(p)' = ReadsTranscript(p)
                          /\ ReadsAudio(p)' = ReadsAudio(p)
      BY <1>7 DEF ReadsTranscript, ReadsAudio, At
    <2>3. AbsentIsIdle'
      BY <1>7, <2>1 DEF OrderInv, AbsentIsIdle, Exists
    <2>4. ReadersFindTranscript'
      <3>1. ASSUME NEW j \in Jobs, NEW p \in LiveOf(j)', ReadsTranscript(p)', Exists(j)'
            PROVE  transcript'[j]
        <4>1. p \in RqIds /\ p \in LiveOf(j) /\ ReadsTranscript(p)
          BY <2>1, <2>2, <3>1 DEF LiveOf
        <4>2. \/ status'[j] \in {"absent", "deleted"}
              \/ Exists(j) /\ transcript'[j] = transcript[j]
          BY <1>7
        <4>3. Exists(j) /\ transcript'[j] = transcript[j]
          BY <4>2, <3>1 DEF Exists
        <4> QED BY <4>1, <4>3 DEF OrderInv, ReadersFindTranscript
      <3> QED BY <3>1 DEF ReadersFindTranscript
    <2>6. ReadersFindAudio'
      BY <1>7, <2>1, <2>2 DEF OrderInv, ReadersFindAudio, LiveOf
    <2>5. OneSegmentationJob'
      BY <2>1 DEF OrderInv, OneSegmentationJob
    <2>7. RawHasRow'
      BY <1>7 DEF OrderInv, RawHasRow
    <2> QED BY <2>3, <2>4, <2>5, <2>6, <2>7 DEF OrderInv
  <1>8. CASE CancelWrite(k)
    <2>1. \A j \in Jobs : /\ \/ status'[j] \in {"absent", "deleted"}
                             \/ Exists(j) /\ transcript'[j] = transcript[j]
                          /\ status'[j] = "absent" => status[j] = "absent"
                          /\ Exists(j) => Exists(j)' /\ transcript'[j] = transcript[j]
      BY <1>8 DEF CancelWrite, Exists, TypeOK, rows
    <2> QED BY <1>7, <1>8, <2>1 DEF CancelWrite, OrderInv, RawHasRow
  <1>9. CASE DeleteRows(k)
    <2>1. \A j \in Jobs : /\ \/ status'[j] \in {"absent", "deleted"}
                             \/ Exists(j) /\ transcript'[j] = transcript[j]
                          /\ status'[j] = "absent" => status[j] = "absent"
                          /\ j # k /\ Exists(j) => Exists(j)' /\ transcript'[j] = transcript[j]
      BY <1>9 DEF DeleteRows, Exists, TypeOK
    <2>2. "raw" \notin store[k]
      BY <1>9 DEF DeleteRows, OrderInv, RawHasRow
    <2> QED BY <1>7, <1>9, <2>1, <2>2 DEF DeleteRows, OrderInv, RawHasRow
  <1> QED BY <1>1, <1>2, <1>4, <1>5, <1>6, <1>8, <1>9 DEF ApiStep

LEMMA OrderNext == TypeInv /\ OrderInv /\ [Next]_vars => OrderInv'
  <1> SUFFICES ASSUME TypeInv, OrderInv, [Next]_vars PROVE OrderInv'
    OBVIOUS
  <1>1. CASE \E j \in Jobs : ApiStep(j)
    BY <1>1, OrderApi
  <1>2. CASE \E r \in RqIds : WorkerStep(r) \/ Interrupted(r)
    BY <1>2, OrderQuiet, OrderPutAudio, OrderListen, OrderCommitTranscript, OrderEnqueue
    DEF WorkerStep, Ingest, Transcription, Segmentation, Scoring
  <1>3. CASE UNCHANGED vars
    BY <1>3 DEF vars, rows, OrderInv, AbsentIsIdle, ReadersFindTranscript,
                OneSegmentationJob, RawHasRow, ReadersFindAudio, ReadsTranscript, ReadsAudio,
                SegmentationTokens, LiveOf, Live, At, Exists
  <1> QED BY <1>1, <1>2, <1>3 DEF Next

LEMMA OrderInit == Init => OrderInv
  BY DEF Init, OrderInv, AbsentIsIdle, ReadersFindTranscript, OneSegmentationJob,
         RawHasRow, ReadersFindAudio, SegmentationTokens, LiveOf, Live, Unused

(* At most one run per stream job is or will enqueue segmentation, and what *)
(* the later stages read was written by the earlier ones, whatever is       *)
(* retried, cancelled or deleted meanwhile.                                 *)
THEOREM StageOrder == Spec => [](OneSegmentationJob /\ InputsFirst)
  <1>1. Init => OrderInv
    BY OrderInit
  <1>2. TypeInv /\ OrderInv /\ [Next]_vars => OrderInv'
    BY OrderNext
  <1>3. OrderInv => OneSegmentationJob /\ InputsFirst
    BY DEF OrderInv, ReadersFindTranscript, ReadersFindAudio, InputsFirst, TranscriptFirst, AudioFirst,
           ReadsTranscript, ReadsAudio
  <1>4. Init => TypeInv
    BY TypeInvInit
  <1>5. TypeInv /\ [Next]_vars => TypeInv'
    BY TypeInvNext
  <1> QED BY <1>1, <1>2, <1>3, <1>4, <1>5, PTL DEF Spec

(* Every stage finds the transcript and the audio track that it reads.      *)
THEOREM InputsAreThere == Spec => []InputsFirst
  BY StageOrder, PTL

-----------------------------------------------------------------------------
(* CancelStops: a run in the queue has the cancel check before it, and one  *)
(* past it works on another stream job.                                     *)
StaysStopped(j) ==
  /\ Stopped(j)' \/ status'[j] \in HasFailed \cup {"deleted"}
  /\ store'[j] \subseteq store[j]
  /\ renders'[j] = renders[j]

(* The job's columns stay, and a run that is at work on it after the step   *)
(* was so before.                                                           *)
LEMMA StoppedFrame ==
  ASSUME NEW j \in Jobs, Stopped(j),
         status'[j] = status[j], store'[j] \subseteq store[j], renders'[j] = renders[j],
         \A r \in RqIds : Live(r)' /\ rq'[r].job = j =>
           rq'[r] = rq[r] \/ rq'[r].pc \in {"scheduled", "queued", "ack"}
  PROVE  StaysStopped(j)
  <1>1. ASSUME NEW r \in LiveOf(j)'
        PROVE  rq'[r].pc \in {"scheduled", "queued", "ack"}
    BY <1>1 DEF LiveOf, Live, Stopped
  <1> QED BY <1>1 DEF StaysStopped, Stopped

LEMMA StoppedApi ==
  ASSUME TypeInv, NEW j \in Jobs, Stopped(j), NEW k \in Jobs, ApiStep(k)
  PROVE  StaysStopped(j)
  <1>t. status \in [Jobs -> Statuses] /\ store \in [Jobs -> SUBSET {"raw", "audio"}]
    BY DEF TypeInv, TypeOK
  <1>s. status[j] = "cancelled"
    BY DEF Stopped
  <1>1. CASE CreateJob(k)
    <2>1. k # j
      BY <1>1, <1>s DEF CreateJob
    <2> QED BY <1>1, <1>t, <2>1, StoppedFrame DEF CreateJob
  <1>2. CASE EnqueueIngest(k)
    <2>1. PICK q \in RqIds : rq' = [rq EXCEPT ![q] = NewRqJob(k, "ingest")]
      BY <1>2 DEF EnqueueIngest, EnqueueInto
    <2>2. NewRqJob(k, "ingest").pc = "queued"
      BY DEF NewRqJob, Unused
    <2>3. \A r \in RqIds : rq'[r] = rq[r] \/ rq'[r].pc = "queued"
      BY <2>1, <2>2 DEF TypeInv, TypeOK
    <2> QED BY <1>2, <2>3, StoppedFrame DEF EnqueueIngest
  <1>3. CASE CancelCheck(k) \/ RequestDies(k)
    BY <1>3, StoppedFrame DEF CancelCheck, RequestDies
  <1>4. CASE CancelWrite(k)
    <2>1. status'[j] = "cancelled"
      BY <1>4, <1>t, <1>s DEF CancelWrite
    <2> QED BY <1>4, <1>s, <2>1, StoppedFrame DEF CancelWrite
  <1>5. CASE DeleteFiles(k)
    <2>1. store'[j] \subseteq store[j]
      BY <1>5, <1>t DEF DeleteFiles
    <2> QED BY <1>5, <2>1, StoppedFrame DEF DeleteFiles
  <1>6. CASE DeleteRows(k)
    <2>1. store' = store /\ renders' = renders /\ rq' = rq
      BY <1>6 DEF DeleteRows
    <2>2. CASE k = j
      <3>1. status'[j] = "deleted"
        BY <1>6, <1>t, <2>2 DEF DeleteRows
      <3> QED BY <2>1, <3>1 DEF StaysStopped
    <2>3. CASE k # j
      <3>1. status'[j] = status[j]
        BY <1>6, <1>t, <2>3 DEF DeleteRows
      <3> QED BY <2>1, <3>1, StoppedFrame
    <2> QED BY <2>2, <2>3
  <1> QED BY <1>1, <1>2, <1>3, <1>4, <1>5, <1>6 DEF ApiStep

(* A run that has another stream job, and any jobs it enqueues for that.    *)
LEMMA StoppedElsewhere ==
  ASSUME NEW j \in Jobs, Stopped(j), NEW r \in RqIds,
         status'[j] = status[j], store'[j] = store[j], renders'[j] = renders[j],
         Live(r)' => rq'[r].job # j,
         \A p \in RqIds \ {r} : rq'[p] = rq[p] \/ rq'[p].pc = "queued"
  PROVE  StaysStopped(j)
  BY StoppedFrame

LEMMA StoppedRaise ==
  ASSUME TypeInv, NEW j \in Jobs, Stopped(j), NEW r \in RqIds, Live(r), Raise(r),
         store' = store, renders' = renders
  PROVE  StaysStopped(j)
  <1>1. Touches(r)
    BY RaiseTouches
  <1>2. \A p \in RqIds \ {r} : rq'[p] = rq[p]
    BY DEF Raise, Finish, TypeInv, TypeOK
  <1>3. Live(r)' => rq'[r].pc = "scheduled"
    BY <1>1 DEF Raise, Finish, Touches, Live, Unused, RqJob, TypeInv, TypeOK
  <1>4. status'[j] = status[j] \/ status'[j] \in HasFailed
    BY <1>1, StatusNames DEF Raise, MarkFailed, Touches, TypeInv, TypeOK
  <1>5. CASE status'[j] = status[j]
    BY <1>2, <1>3, <1>5, StoppedFrame
  <1>6. CASE status'[j] \in HasFailed
    BY <1>6 DEF StaysStopped
  <1> QED BY <1>4, <1>5, <1>6

LEMMA StoppedWorker ==
  ASSUME TypeInv, NEW j \in Jobs, Stopped(j), NEW r \in RqIds, WorkerStep(r) \/ Interrupted(r)
  PROVE  StaysStopped(j)
  <1> USE DEF TypeInv, TypeOK
  <1>s. status[j] = "cancelled"
    BY DEF Stopped
  <1>l. Live(r) /\ rq[r].job \in Jobs /\ rq[r].stage \in Stages /\ rq[r] \in RqJob
    <2>1. Live(r)
      BY DEF WorkerStep, Interrupted, Ingest, Transcription, Segmentation, Scoring, Live, At,
             RunRetry, Dequeue, Begin, Fetch, InputGone, StageFails, Ack, PutAudio, Listen, CommitIngest,
             EnqueueTranscription, CommitTranscript, EnqueueSegmentation, CommitCandidates,
             EnqueueScoring, CommitScores, EnqueueRendering
    <2> QED BY <2>1, LiveRun DEF RqOK
  <1>e. rq[r].pc \notin {"scheduled", "queued", "ack"} => rq[r].job # j
    BY <1>l DEF Stopped, LiveOf
  <1>r. ASSUME Raise(r), store' = store, renders' = renders PROVE StaysStopped(j)
    BY <1>l, <1>r, StoppedRaise
  <1>g. ASSUME NEW pc \in Pcs, Goto(r, pc), UNCHANGED <<store, renders>>,
               pc = "queued" \/ rq[r].job # j, status'[j] = status[j]
        PROVE  StaysStopped(j)
    <2>1. rq'[r].pc = pc /\ rq'[r].job = rq[r].job /\ \A p \in RqIds \ {r} : rq'[p] = rq[p]
      BY <1>l, <1>g DEF Goto, RqJob
    <2> QED BY <1>g, <2>1, StoppedFrame
  <1>f. ASSUME Finish(r), UNCHANGED <<store, renders>>, status'[j] = status[j] PROVE StaysStopped(j)
    <2>1. ~Live(r)' /\ \A p \in RqIds \ {r} : rq'[p] = rq[p]
      BY <1>f DEF Finish, Live, Unused
    <2> QED BY <1>f, <2>1, StoppedFrame
  <1>n. ASSUME NEW s \in Stages, EnqueueNext(r, s), UNCHANGED <<status, store, renders>>
        PROVE  StaysStopped(j)
    <2>1. PICK q \in RqIds \ {r} :
            /\ rq'[q] = NewRqJob(rq[r].job, s)
            /\ rq'[r] = [rq[r] EXCEPT !.pc = "ack"]
            /\ \A p \in RqIds \ {q, r} : rq'[p] = rq[p]
      BY <1>l, <1>n, EnqueueTouches
    <2>2. rq'[q].pc = "queued" /\ rq'[r].pc = "ack"
      BY <1>l, <2>1 DEF NewRqJob, Unused, RqJob
    <2> QED BY <1>n, <2>1, <2>2, StoppedFrame
  <1>p. {"queued", "begin", "work", "commit", "enqueue", "ack"} \subseteq Pcs
        /\ {"transcription", "segmentation", "scoring"} \subseteq Stages
    BY DEF Pcs, Stages
  <1>1. CASE RunRetry(r)
    BY <1>1, <1>g, <1>p DEF RunRetry
  <1>2. CASE Dequeue(r)
    <2>1. CASE status[rq[r].job] = "cancelled"
      BY <1>2, <2>1, <1>f DEF Dequeue
    <2>2. CASE status[rq[r].job] # "cancelled"
      BY <1>2, <2>2, <1>s, <1>g, <1>p DEF Dequeue
    <2> QED BY <2>1, <2>2
  <1>3. CASE Begin(r)
    <2>1. rq[r].job # j /\ UNCHANGED <<store, renders>>
      BY <1>3, <1>e DEF Begin
    <2>2. CASE Exists(rq[r].job)
      <3>1. status'[j] = status[j]
        BY <1>3, <1>l, <2>1, <2>2 DEF Begin
      <3>2. rq'[r].job = rq[r].job /\ \A p \in RqIds \ {r} : rq'[p] = rq[p]
        BY <1>3, <1>l, <2>2 DEF Begin, RqJob
      <3> QED BY <2>1, <3>1, <3>2, StoppedElsewhere
    <2>3. CASE ~Exists(rq[r].job)
      BY <1>3, <2>3, <1>f DEF Begin
    <2> QED BY <2>2, <2>3
  <1>4. CASE Fetch(r)
    BY <1>4, <1>e, <1>g, <1>p DEF Fetch
  <1>5. CASE InputGone(r) \/ Interrupted(r)
    BY <1>5, <1>r DEF InputGone, Interrupted
  <1>6. CASE StageFails(r)
    <2>1. rq[r].job # j
      BY <1>6, <1>e DEF StageFails
    <2>2. status'[j] = status[j]
      BY <1>6, <1>l, <2>1 DEF StageFails, MarkFailed
    <2> QED BY <1>6, <2>2, <1>f DEF StageFails
  <1>7. CASE Ack(r)
    BY <1>7, <1>f DEF Ack
  <1>8. CASE PutAudio(r)
    <2>1. rq[r].job # j /\ UNCHANGED <<status, renders>>
      BY <1>8, <1>e DEF PutAudio, At
    <2>2. store'[j] = store[j]
      BY <1>8, <1>l, <2>1 DEF PutAudio
    <2>3. rq'[r].job = rq[r].job /\ \A p \in RqIds \ {r} : rq'[p] = rq[p]
      BY <1>8, <1>l DEF PutAudio, Goto, RqJob
    <2> QED BY <2>1, <2>2, <2>3, StoppedElsewhere
  <1>9. CASE CommitIngest(r)
    <2>1. CASE Exists(rq[r].job)
      <3>1. rq[r].job # j /\ UNCHANGED <<store, renders>> /\ Goto(r, "enqueue")
        BY <1>9, <2>1, <1>e DEF CommitIngest, At
      <3>2. status'[j] = status[j]
        BY <1>9, <1>l, <2>1, <3>1 DEF CommitIngest
      <3> QED BY <3>1, <3>2, <1>g, <1>p
    <2>2. CASE ~Exists(rq[r].job)
      BY <1>9, <2>2, <1>r DEF CommitIngest, CommitFails
    <2> QED BY <2>1, <2>2
  <1>10. CASE EnqueueTranscription(r)
    BY <1>10, <1>n, <1>p DEF EnqueueTranscription
  <1>11. CASE CommitTranscript(r)
    <2>1. CASE InsertsTranscript(rq[r].job)
      <3>1. rq[r].job # j /\ UNCHANGED <<store, renders>> /\ Goto(r, "enqueue")
        BY <1>11, <2>1, <1>e DEF CommitTranscript, At
      <3>2. status'[j] = status[j]
        BY <1>11, <1>l, <2>1, <3>1 DEF CommitTranscript
      <3> QED BY <3>1, <3>2, <1>g, <1>p
    <2>2. CASE ~InsertsTranscript(rq[r].job)
      BY <1>11, <2>2, <1>r DEF CommitTranscript, CommitFails
    <2> QED BY <2>1, <2>2
  <1>12. CASE EnqueueSegmentation(r)
    BY <1>12, <1>n, <1>p DEF EnqueueSegmentation
  <1>13. CASE CommitCandidates(r)
    <2>1. CASE Exists(rq[r].job)
      <3>1. rq[r].job # j /\ UNCHANGED <<store, renders>> /\ Goto(r, "enqueue")
        BY <1>13, <2>1, <1>e DEF CommitCandidates, At
      <3>2. status'[j] = status[j]
        BY <1>13, <1>l, <2>1, <3>1 DEF CommitCandidates
      <3> QED BY <3>1, <3>2, <1>g, <1>p
    <2>2. CASE ~Exists(rq[r].job)
      BY <1>13, <2>2, <1>r DEF CommitCandidates, CommitFails
    <2> QED BY <2>1, <2>2
  <1>14. CASE EnqueueScoring(r)
    BY <1>14, <1>n, <1>p DEF EnqueueScoring
  <1>15. CASE CommitScores(r)
    <2>1. CASE Exists(rq[r].job)
      <3>1. rq[r].job # j /\ UNCHANGED <<store, renders>>
        BY <1>15, <2>1, <1>e DEF CommitScores, At
      <3>2. status'[j] = status[j]
        BY <1>15, <1>l, <2>1, <3>1 DEF CommitScores
      <3>3. PICK S : rq' = [rq EXCEPT ![r].pc = "enqueue", ![r].todo = S]
        BY <1>15, <2>1 DEF CommitScores
      <3>4. rq'[r].job = rq[r].job /\ \A p \in RqIds \ {r} : rq'[p] = rq[p]
        BY <1>l, <3>3 DEF RqJob
      <3> QED BY <3>1, <3>2, <3>4, StoppedElsewhere
    <2>2. CASE ~Exists(rq[r].job)
      BY <1>15, <2>2, <1>r DEF CommitScores, CommitFails
    <2> QED BY <2>1, <2>2
  <1>16. CASE EnqueueRendering(r)
    <2>1. rq[r].job # j /\ UNCHANGED <<status, store>>
      BY <1>16, <1>e DEF EnqueueRendering, At
    <2>2. CASE rq[r].todo = {}
      BY <1>16, <2>1, <2>2, <1>g, <1>p DEF EnqueueRendering
    <2>3. CASE rq[r].todo # {}
      <3>1. PICK c \in rq[r].todo :
              /\ renders' = [renders EXCEPT ![rq[r].job] = @ \cup {c}]
              /\ rq' = [rq EXCEPT ![r].todo = @ \ {c}]
        BY <1>16, <2>3 DEF EnqueueRendering
      <3>2. renders'[j] = renders[j]
        BY <1>l, <2>1, <3>1
      <3>3. rq'[r].job = rq[r].job /\ \A p \in RqIds \ {r} : rq'[p] = rq[p]
        BY <1>l, <3>1 DEF RqJob
      <3> QED BY <2>1, <3>2, <3>3, StoppedElsewhere
    <2> QED BY <2>2, <2>3
  <1>17. CASE Listen(r)
    <2>1. rq[r].job # j /\ UNCHANGED <<status, renders>>
      BY <1>17, <1>e DEF Listen, At
    <2>2. store'[j] = store[j]
      BY <1>17, <1>l, <2>1 DEF Listen
    <2>3. rq'[r].job = rq[r].job /\ \A p \in RqIds \ {r} : rq'[p] = rq[p]
      BY <1>17, <1>l DEF Listen, Goto, RqJob
    <2> QED BY <2>1, <2>2, <2>3, StoppedElsewhere
  <1> QED BY <1>1, <1>2, <1>3, <1>4, <1>5, <1>6, <1>7, <1>8, <1>9, <1>10, <1>11, <1>12, <1>13,
             <1>14, <1>15, <1>16, <1>17 DEF WorkerStep, Ingest, Transcription, Segmentation, Scoring

(* Once a job is cancelled and no run is past its cancel check, it stays    *)
(* stopped, or is deleted, or a last attempt's on_failure marks it failed;  *)
(* nothing is stored or rendered for it, whatever is queued or retried.     *)
THEOREM CancelHolds == Spec => CancelStops
  <1>1. TypeInv /\ [Next]_vars =>
          [\A j \in Jobs : Stopped(j) => StaysStopped(j)]_vars
    BY StoppedApi, StoppedWorker DEF Next
  <1>2. TypeInv /\ [Next]_vars => TypeInv'
    BY TypeInvNext
  <1>3. [\A j \in Jobs : Stopped(j) => StaysStopped(j)]_vars <=>
        [\A j \in Jobs : Stopped(j) =>
           /\ Stopped(j)' \/ status'[j] \in HasFailed \cup {"deleted"}
           /\ store'[j] \subseteq store[j]
           /\ renders'[j] = renders[j]]_vars
    BY DEF StaysStopped
  <1> QED BY <1>1, <1>2, <1>3, TypeInvInit, PTL DEF Spec, CancelStops

-----------------------------------------------------------------------------
(* WorksOnce, while nothing is interrupted: one run of a stream job         *)
(* has the work of a stream job in hand, it has it until the clips are      *)
(* there, and then owes a rendering job for what it has not enqueued yet.   *)
Working(j) == {r \in LiveOf(j) : rq[r].pc # "ack" /\ ~At(r, "scoring", "enqueue")}
Owed(j, c) == \E r \in LiveOf(j) : At(r, "scoring", "enqueue") /\ c \in rq[r].todo
Chain(j) ==
  /\ \A q, r \in Working(j) : q = r
  /\ <<"create", j>> \in api => Working(j) = {} /\ clips[j] = {}
  /\ clips[j] # {} => Working(j) = {} /\ Exists(j)
  /\ Cardinality(clips[j]) <= MaxClips
  /\ \A c \in clips[j] : c[1] \in renders[j] \/ Owed(j, c[1])
Chains == \A j \in Jobs : Chain(j)

(* A step of a run that keeps its work or ends it.                          *)
LEMMA ChainRun ==
  ASSUME Chains, NEW r \in RqIds, Live(r),
         \A p \in RqIds \ {r} : rq'[p] = rq[p],
         Live(r)' => rq'[r].job = rq[r].job,
         ~At(r, "scoring", "enqueue"), ~At(r, "scoring", "enqueue")',
         rq[r].pc = "ack" => rq'[r].pc \in {"ack", "free"},
         \A j \in Jobs : Exists(j) => Exists(j)',
         UNCHANGED <<api, clips, renders>>
  PROVE  Chains'
  <1> SUFFICES ASSUME NEW j \in Jobs PROVE Chain(j)'
    BY DEF Chains
  <1>1. Chain(j)
    BY DEF Chains
  <1>2. \A p \in RqIds \ {r} : p \in Working(j)' => p \in Working(j)
    BY DEF Working, LiveOf, Live, At
  <1>3. r \in Working(j)' => r \in Working(j)
    BY DEF Working, LiveOf, Live, At
  <1>4. Working(j)' \subseteq Working(j)
    BY <1>2, <1>3 DEF Working, LiveOf
  <1>5. ASSUME NEW c, Owed(j, c) PROVE Owed(j, c)'
    <2>1. PICK p \in LiveOf(j) : At(p, "scoring", "enqueue") /\ c \in rq[p].todo
      BY <1>5 DEF Owed
    <2>2. p \in RqIds \ {r} /\ rq'[p] = rq[p]
      BY <2>1 DEF LiveOf
    <2>3. p \in LiveOf(j)' /\ At(p, "scoring", "enqueue")' /\ c \in rq'[p].todo
      BY <2>1, <2>2 DEF LiveOf, Live, At
    <2> QED BY <2>3 DEF Owed
  <1> QED BY <1>1, <1>4, <1>5 DEF Chain

LEMMA ChainRaise ==
  ASSUME TypeInv, Chains, NEW r \in RqIds, Live(r), Raise(r), rq[r].pc # "ack",
         ~At(r, "scoring", "enqueue"), UNCHANGED <<api, clips, renders>>
  PROVE  Chains'
  <1> USE DEF TypeInv, TypeOK
  <1>1. rq[r].job \in Jobs /\ rq[r].stage \in Stages /\ rq[r] \in RqJob
    BY LiveRun DEF RqOK
  <1>2. /\ \A p \in RqIds \ {r} : rq'[p] = rq[p]
        /\ Live(r)' => rq'[r].job = rq[r].job
        /\ ~At(r, "scoring", "enqueue")'
    BY <1>1 DEF Raise, Finish, Live, At, Unused, RqJob
  <1>3. \A j \in Jobs : Exists(j) => Exists(j)'
    BY <1>1, ExistingStatuses DEF Raise, MarkFailed, Exists
  <1> QED BY <1>2, <1>3, ChainRun

LEMMA ChainQuiet ==
  ASSUME TypeInv, Chains, NEW r \in RqIds,
         \/ RunRetry(r) \/ Dequeue(r) \/ Begin(r) \/ Fetch(r) \/ InputGone(r) \/ StageFails(r) \/ Ack(r)
         \/ PutAudio(r) \/ Listen(r) \/ CommitIngest(r) \/ CommitTranscript(r) \/ CommitCandidates(r)
  PROVE  Chains'
  <1> USE DEF TypeInv
  <1>1. Live(r) /\ rq[r].job \in Jobs /\ rq[r].stage \in Stages /\ rq[r] \in RqJob
    BY LiveRun
    DEF TypeOK, RqOK, RunRetry, Dequeue, Begin, Fetch, InputGone, StageFails, Ack, PutAudio, Listen,
        CommitIngest, CommitTranscript, CommitCandidates, At, Live
  <1>2. UNCHANGED <<api, clips, renders>>
    BY DEF RunRetry, Dequeue, Begin, Fetch, InputGone, StageFails, Ack, PutAudio, Listen, CommitIngest,
           CommitTranscript, CommitCandidates, CommitFails, rows
  <1>3. ~At(r, "scoring", "enqueue")
    BY DEF RunRetry, Dequeue, Begin, Fetch, InputGone, StageFails, Ack, PutAudio, Listen, CommitIngest,
           CommitTranscript, CommitCandidates, At
  <1>4. ASSUME Raise(r), rq[r].pc # "ack" PROVE Chains'
    BY <1>1, <1>2, <1>3, <1>4, ChainRaise
  <1>f. ASSUME Finish(r), \A j \in Jobs : Exists(j) => Exists(j)' PROVE Chains'
    <2>1. /\ \A p \in RqIds \ {r} : rq'[p] = rq[p]
          /\ rq'[r].pc = "free" /\ ~Live(r)' /\ ~At(r, "scoring", "enqueue")'
      BY <1>f DEF Finish, Unused, Live, At, TypeOK
    <2> QED BY <1>1, <1>2, <1>3, <1>f, <2>1, ChainRun
  <1>g. ASSUME NEW pc \in Pcs, Goto(r, pc), rq[r].pc # "ack", pc = "enqueue" => rq[r].stage # "scoring",
               \A j \in Jobs : Exists(j) => Exists(j)'
        PROVE  Chains'
    <2>1. /\ \A p \in RqIds \ {r} : rq'[p] = rq[p]
          /\ rq'[r].job = rq[r].job /\ rq'[r].pc = pc /\ rq'[r].stage = rq[r].stage
      BY <1>1, <1>g DEF Goto, TypeOK, RqJob
    <2>2. ~At(r, "scoring", "enqueue")'
      BY <1>g, <2>1 DEF At
    <2> QED BY <1>1, <1>2, <1>3, <1>g, <2>1, <2>2, ChainRun
  <1>p. {"queued", "begin", "work", "commit", "enqueue"} \subseteq Pcs
    BY DEF Pcs
  <1>5. CASE RunRetry(r) \/ Dequeue(r) \/ Fetch(r) \/ Ack(r) \/ PutAudio(r) \/ Listen(r)
    <2>1. \A j \in Jobs : Exists(j) => Exists(j)'
      BY <1>5 DEF RunRetry, Dequeue, Fetch, Ack, PutAudio, Listen, Exists
    <2>2. CASE RunRetry(r)
      BY <1>g, <1>p, <2>1, <2>2 DEF RunRetry
    <2>3. CASE Dequeue(r)
      BY <1>f, <1>g, <1>p, <2>1, <2>3 DEF Dequeue
    <2>4. CASE Fetch(r)
      BY <1>g, <1>p, <2>1, <2>4 DEF Fetch
    <2>5. CASE Ack(r)
      BY <1>f, <2>1, <2>5 DEF Ack
    <2>6. CASE PutAudio(r) \/ Listen(r)
      BY <1>g, <1>p, <2>1, <2>6 DEF PutAudio, Listen, At
    <2> QED BY <1>5, <2>2, <2>3, <2>4, <2>5, <2>6
  <1>6. CASE Begin(r)
    <2>1. \A j \in Jobs : Exists(j) => Exists(j)'
      BY <1>1, <1>6, ExistingStatuses DEF Begin, Exists, TypeOK
    <2>2. CASE Exists(rq[r].job)
      <3>1. /\ \A p \in RqIds \ {r} : rq'[p] = rq[p]
            /\ rq'[r].job = rq[r].job /\ rq'[r].pc = "fetch"
        BY <1>1, <1>6, <2>2 DEF Begin, TypeOK, RqJob
      <3> QED BY <1>1, <1>2, <1>3, <1>6, <2>1, <3>1, ChainRun DEF At, Begin
    <2>3. CASE ~Exists(rq[r].job)
      BY <1>6, <1>f, <2>1, <2>3 DEF Begin
    <2> QED BY <2>2, <2>3
  <1>7. CASE InputGone(r)
    BY <1>4, <1>7 DEF InputGone
  <1>8. CASE StageFails(r)
    <2>1. \A j \in Jobs : Exists(j) => Exists(j)'
      BY <1>1, <1>8, ExistingStatuses DEF StageFails, MarkFailed, Exists, TypeOK
    <2> QED BY <1>8, <1>f, <2>1 DEF StageFails
  <1>9. CASE CommitIngest(r)
    <2>1. CASE Exists(rq[r].job)
      <3>1. \A j \in Jobs : Exists(j) => Exists(j)'
        BY <1>1, <1>9, <2>1 DEF CommitIngest, Exists, TypeOK
      <3> QED BY <1>9, <1>g, <1>p, <2>1, <3>1 DEF CommitIngest, At
    <2> QED BY <1>4, <1>9, <2>1 DEF CommitIngest, CommitFails, At
  <1>10. CASE CommitTranscript(r)
    <2>1. CASE InsertsTranscript(rq[r].job)
      <3>1. \A j \in Jobs : Exists(j) => Exists(j)'
        BY <1>1, <1>10, <2>1 DEF CommitTranscript, Exists, TypeOK
      <3> QED BY <1>10, <1>g, <1>p, <2>1, <3>1 DEF CommitTranscript, At
    <2> QED BY <1>4, <1>10, <2>1 DEF CommitTranscript, CommitFails, At
  <1>11. CASE CommitCandidates(r)
    <2>1. CASE Exists(rq[r].job)
      <3>1. \A j \in Jobs : Exists(j) => Exists(j)'
        BY <1>1, <1>11, <2>1 DEF CommitCandidates, Exists, TypeOK
      <3> QED BY <1>11, <1>g, <1>p, <2>1, <3>1 DEF CommitCandidates, At
    <2> QED BY <1>4, <1>11, <2>1 DEF CommitCandidates, CommitFails, At
  <1> QED BY <1>5, <1>6, <1>7, <1>8, <1>9, <1>10, <1>11

(* The work is handed to the run of the next stage.                         *)
LEMMA ChainEnqueue ==
  ASSUME TypeInv, Chains, NEW r \in RqIds,
         EnqueueTranscription(r) \/ EnqueueSegmentation(r) \/ EnqueueScoring(r)
  PROVE  Chains'
  <1> USE DEF TypeInv
  <1>1. /\ Live(r) /\ UNCHANGED <<status, api, clips, renders>>
        /\ rq[r].pc = "enqueue" /\ rq[r].stage # "scoring"
    BY DEF EnqueueTranscription, EnqueueSegmentation, EnqueueScoring, At, Live, rows
  <1>2. PICK s \in Stages : EnqueueNext(r, s)
    BY DEF EnqueueTranscription, EnqueueSegmentation, EnqueueScoring, Stages
  <1>3. rq[r].job \in Jobs /\ rq[r] \in RqJob
    BY <1>1, LiveRun DEF TypeOK, RqOK
  <1>4. PICK q \in RqIds \ {r} :
          /\ ~Live(q)
          /\ rq'[q] = NewRqJob(rq[r].job, s)
          /\ rq'[r] = [rq[r] EXCEPT !.pc = "ack"]
          /\ \A p \in RqIds \ {q, r} : rq'[p] = rq[p]
    BY <1>1, <1>2, EnqueueTouches
  <1>5. /\ rq'[r].pc = "ack" /\ rq'[r].job = rq[r].job
        /\ rq'[q].pc = "queued" /\ rq'[q].job = rq[r].job
    BY <1>3, <1>4 DEF RqJob, NewRqJob, Unused
  <1>6. r \in Working(rq[r].job)
    BY <1>1 DEF Working, LiveOf, At
  <1> SUFFICES ASSUME NEW j \in Jobs PROVE Chain(j)'
    BY DEF Chains
  <1>7. Chain(j)
    BY DEF Chains
  <1>8. \A p \in RqIds \ {q, r} : p \in Working(j)' => p \in Working(j)
    BY <1>4 DEF Working, LiveOf, Live, At
  <1>9. r \notin Working(j)' /\ (q \in Working(j)' => j = rq[r].job)
    BY <1>5 DEF Working, LiveOf
  <1>10. \A p \in Working(j) : j = rq[r].job => p = r
    BY <1>6, <1>7 DEF Chain
  <1>11. \A p \in Working(j)' : IF j = rq[r].job THEN p = q ELSE p \in Working(j)
    BY <1>8, <1>9, <1>10 DEF Working, LiveOf
  <1>12. ASSUME NEW c, Owed(j, c) PROVE Owed(j, c)'
    <2>1. PICK p \in LiveOf(j) : At(p, "scoring", "enqueue") /\ c \in rq[p].todo
      BY <1>12 DEF Owed
    <2>2. p \in RqIds \ {q, r} /\ rq'[p] = rq[p]
      BY <1>1, <1>4, <2>1 DEF LiveOf, At
    <2>3. p \in LiveOf(j)' /\ At(p, "scoring", "enqueue")' /\ c \in rq'[p].todo
      BY <2>1, <2>2 DEF LiveOf, Live, At
    <2> QED BY <2>3 DEF Owed
  <1>13. Working(j)' # {} => Working(j) # {}
    BY <1>6, <1>11
  <1>14. \A p1, p2 \in Working(j)' : p1 = p2
    BY <1>7, <1>11 DEF Chain
  <1>15. UNCHANGED <<api, clips, renders>> /\ (Exists(j) <=> Exists(j)')
    BY <1>1 DEF Exists
  <1> QED BY <1>7, <1>12, <1>13, <1>14, <1>15 DEF Chain

(* Scoring ends the work, and owes what it has selected.                    *)
LEMMA ChainCommitScores ==
  ASSUME TypeInv, Chains, NEW r \in RqIds, CommitScores(r)
  PROVE  Chains'
  <1> USE DEF TypeInv
  <1>1. Live(r) /\ rq[r].job \in Jobs /\ rq[r].stage = "scoring" /\ rq[r].pc = "work" /\ rq[r] \in RqJob
    BY LiveRun DEF TypeOK, RqOK, CommitScores, At, Live
  <1>2. CASE ~Exists(rq[r].job)
    BY <1>1, <1>2, ChainRaise DEF CommitScores, CommitFails, rows, At
  <1>3. CASE Exists(rq[r].job)
    <2>k. PICK k \in Jobs : rq[r].job = k
      BY <1>1
    <2>1. PICK S \in Selections(rq[r].seen) :
            /\ clips' = [clips EXCEPT ![k] = @ \cup (S \X {Cardinality(clips[k])})]
            /\ rq' = [rq EXCEPT ![r].pc = "enqueue", ![r].todo = S]
      BY <1>3, <2>k DEF CommitScores
    <2>2. status' = [status EXCEPT ![k] = "scored"] /\ UNCHANGED <<api, renders>>
      BY <1>3, <2>k DEF CommitScores
    <2>3. S \subseteq rq[r].seen /\ Cardinality(S) <= MaxClips
      BY <2>1 DEF Selections
    <2>4. r \in Working(k)
      BY <1>1, <2>k DEF Working, LiveOf, At
    <2>5. Working(k) = {r} /\ clips[k] = {} /\ Chain(k)
      BY <2>4 DEF Chains, Chain
    <2>6. clips'[k] = S \X {0}
      BY <2>1, <2>5, FS_EmptySet DEF TypeOK
    <2>7. Cardinality(clips'[k]) <= MaxClips
      <3>1. IsFiniteSet(S)
        BY <2>3, FS_Subset DEF Finite
      <3>2. IsFiniteSet({0}) /\ Cardinality({0}) = 1
        BY FS_Singleton
      <3>3. Cardinality(S \X {0}) = Cardinality(S) * 1
        BY <3>1, <3>2, FS_Product
      <3>4. Cardinality(S) \in Nat
        BY <3>1, FS_CardinalityType
      <3> QED BY <2>3, <2>6, <3>3, <3>4
    <2>8. /\ \A p \in RqIds \ {r} : rq'[p] = rq[p]
          /\ rq'[r].pc = "enqueue" /\ rq'[r].stage = "scoring" /\ rq'[r].job = k /\ rq'[r].todo = S
      BY <1>1, <2>k, <2>1 DEF TypeOK, RqJob
    <2>9. r \notin Working(k)' /\ r \in LiveOf(k)' /\ At(r, "scoring", "enqueue")'
      BY <2>8 DEF Working, LiveOf, Live, At
    <2> SUFFICES ASSUME NEW j \in Jobs PROVE Chain(j)'
      BY DEF Chains
    <2>10. CASE j = k
      <3>1. Working(k)' = {}
        BY <2>5, <2>8, <2>9 DEF Working, LiveOf, Live, At
      <3>2. \A c \in clips'[k] : Owed(k, c[1])'
        BY <2>6, <2>8, <2>9 DEF Owed
      <3>3. Exists(k)'
        BY <2>2 DEF Exists, TypeOK
      <3>4. <<"create", k>> \notin api
        BY <2>4, <2>5 DEF Chain
      <3> QED BY <2>2, <2>7, <2>10, <3>1, <3>2, <3>3, <3>4 DEF Chain
    <2>11. CASE j # k
      <3>1. Chain(j)
        BY DEF Chains
      <3>2. Working(j)' = Working(j)
        BY <2>k, <2>8, <2>11 DEF Working, LiveOf, Live, At
      <3>3. clips'[j] = clips[j] /\ (Exists(j)' <=> Exists(j))
        BY <2>1, <2>2, <2>11 DEF Exists, TypeOK
      <3>4. \A c : Owed(j, c) => Owed(j, c)'
        BY <2>k, <2>8, <2>11 DEF Owed, LiveOf, Live, At
      <3> QED BY <2>2, <3>1, <3>2, <3>3, <3>4 DEF Chain
    <2> QED BY <2>10, <2>11
  <1> QED BY <1>2, <1>3

(* A rendering job is enqueued for what was owed one.                       *)
LEMMA ChainEnqueueRendering ==
  ASSUME TypeInv, Chains, NEW r \in RqIds, EnqueueRendering(r)
  PROVE  Chains'
  <1> USE DEF TypeInv
  <1>1. Live(r) /\ rq[r].job \in Jobs /\ At(r, "scoring", "enqueue") /\ rq[r] \in RqJob
    BY LiveRun DEF TypeOK, RqOK, EnqueueRendering, At, Live
  <1>k. PICK k \in Jobs : rq[r].job = k
    BY <1>1
  <1>2. UNCHANGED <<status, api, clips>>
    BY DEF EnqueueRendering, rows
  <1>3. /\ \A p \in RqIds \ {r} : rq'[p] = rq[p]
        /\ rq'[r].job = k
        /\ rq'[r].pc = "ack" \/ At(r, "scoring", "enqueue")'
        /\ \A c \in rq[r].todo : c \in renders'[k] \/ (At(r, "scoring", "enqueue")' /\ c \in rq'[r].todo)
        /\ \A j \in Jobs : renders[j] \subseteq renders'[j]
    <2>1. CASE rq[r].todo = {}
      BY <1>1, <1>k, <2>1 DEF EnqueueRendering, Goto, TypeOK, RqJob
    <2>2. CASE rq[r].todo # {}
      <3>1. PICK c \in rq[r].todo :
              /\ renders' = [renders EXCEPT ![k] = @ \cup {c}]
              /\ rq' = [rq EXCEPT ![r].todo = @ \ {c}]
        BY <1>k, <2>2 DEF EnqueueRendering
      <3> QED BY <1>1, <1>k, <3>1 DEF TypeOK, RqJob, At
    <2> QED BY <2>1, <2>2
  <1> SUFFICES ASSUME NEW j \in Jobs PROVE Chain(j)'
    BY DEF Chains
  <1>4. Chain(j)
    BY DEF Chains
  <1>5. Working(j)' = Working(j)
    BY <1>1, <1>3 DEF Working, LiveOf, Live, At
  <1>6. ASSUME NEW c, Owed(j, c) PROVE c \in renders'[j] \/ Owed(j, c)'
    <2>1. PICK p \in LiveOf(j) : At(p, "scoring", "enqueue") /\ c \in rq[p].todo
      BY <1>6 DEF Owed
    <2>2. CASE p = r
      BY <1>k, <1>3, <2>1, <2>2 DEF Owed, LiveOf, Live, At
    <2>3. CASE p # r
      BY <1>3, <2>1, <2>3 DEF Owed, LiveOf, Live, At
    <2> QED BY <2>2, <2>3
  <1>7. Exists(j)' <=> Exists(j)
    BY <1>2 DEF Exists
  <1>8. renders[j] \subseteq renders'[j]
    BY <1>3
  <1> QED BY <1>2, <1>4, <1>5, <1>6, <1>7, <1>8 DEF Chain

LEMMA ChainApi ==
  ASSUME TypeInv, OrderInv, Chains, NEW k \in Jobs, ApiStep(k)
  PROVE  Chains'
  <1> USE DEF TypeInv
  <1> SUFFICES ASSUME NEW j \in Jobs PROVE Chain(j)'
    BY DEF Chains
  <1>1. Chain(j)
    BY DEF Chains
  <1>2. ASSUME UNCHANGED <<rq, clips, renders>>, Exists(j) => Exists(j)',
               <<"create", j>> \in api' => <<"create", j>> \in api
        PROVE  Chain(j)'
    BY <1>1, <1>2 DEF Chain, Working, Owed, LiveOf, Live, At
  <1>3. CASE CreateJob(k)
    <2>1. /\ UNCHANGED <<rq, clips, renders>> /\ status[k] = "absent"
          /\ status' = [status EXCEPT ![k] = "queued"] /\ api' = api \cup {<<"create", k>>}
      BY <1>3 DEF CreateJob, rows
    <2>2. Exists(j) => Exists(j)'
      BY <2>1 DEF Exists, TypeOK
    <2>3. CASE j = k
      <3>1. LiveOf(k) = {}
        BY <2>1 DEF OrderInv, AbsentIsIdle
      <3>2. clips[k] = {} /\ Working(k) = {}
        BY <1>1, <2>1, <2>3, <3>1 DEF Chain, Exists, Working
      <3>3. clips'[k] = {} /\ Working(k)' = {}
        BY <2>1, <3>2 DEF Working, LiveOf, Live, At
      <3>4. Cardinality(clips'[k]) <= MaxClips
        BY <1>1, <2>1, <2>3 DEF Chain
      <3> QED BY <2>3, <3>3, <3>4 DEF Chain
    <2>4. CASE j # k
      BY <1>2, <2>1, <2>2, <2>4
    <2> QED BY <2>3, <2>4
  <1>4. CASE EnqueueIngest(k)
    <2>1. PICK r \in RqIds : ~Live(r) /\ rq' = [rq EXCEPT ![r] = NewRqJob(k, "ingest")]
      BY <1>4 DEF EnqueueIngest, EnqueueInto
    <2>2. /\ UNCHANGED <<status, clips, renders>>
          /\ <<"create", k>> \in api /\ api' = api \ {<<"create", k>>}
      BY <1>4 DEF EnqueueIngest, rows
    <2>3. \A p \in RqIds \ {r} : rq'[p] = rq[p]
      BY <2>1 DEF TypeOK
    <2>4. rq'[r].pc = "queued" /\ rq'[r].job = k /\ rq'[r].stage = "ingest"
      BY <2>1 DEF TypeOK, NewRqJob, Unused
    <2>5. \A c : Owed(j, c) => Owed(j, c)'
      BY <2>1, <2>3 DEF Owed, LiveOf, Live, At
    <2>6. Exists(j)' <=> Exists(j)
      BY <2>2 DEF Exists
    <2>7. CASE j = k
      <3>1. Working(k) = {} /\ clips[k] = {}
        BY <1>1, <2>2, <2>7 DEF Chain
      <3>2. \A p \in Working(k)' : p = r
        BY <2>3, <3>1 DEF Working, LiveOf, Live, At
      <3> QED BY <1>1, <2>2, <2>7, <3>1, <3>2 DEF Chain
    <2>8. CASE j # k
      <3>1. Working(j)' = Working(j)
        BY <2>1, <2>3, <2>4, <2>8 DEF Working, LiveOf, Live, At
      <3>2. <<"create", j>> \in api' <=> <<"create", j>> \in api
        BY <2>2, <2>8
      <3> QED BY <1>1, <2>2, <2>5, <2>6, <3>1, <3>2 DEF Chain
    <2> QED BY <2>7, <2>8
  <1>5. CASE CancelCheck(k)
    BY <1>2, <1>5 DEF CancelCheck, rows, Exists
  <1>6. CASE CancelWrite(k)
    BY <1>2, <1>6 DEF CancelWrite, rows, Exists, TypeOK
  <1>7. CASE DeleteFiles(k)
    BY <1>2, <1>7 DEF DeleteFiles, rows, Exists
  <1>8. CASE DeleteRows(k)
    <2>1. /\ UNCHANGED <<rq, renders>> /\ api' \subseteq api
          /\ clips' = [clips EXCEPT ![k] = {}] /\ status' = [status EXCEPT ![k] = "deleted"]
      BY <1>8 DEF DeleteRows
    <2>2. Working(j)' = Working(j)
      BY <2>1 DEF Working, LiveOf, Live, At
    <2>3. CASE j = k
      <3>1. clips'[k] = {}
        BY <2>1 DEF TypeOK
      <3>2. Cardinality(clips'[k]) <= MaxClips
        BY <3>1, FS_EmptySet, PipelineAssumption
      <3> QED BY <1>1, <2>1, <2>2, <2>3, <3>1, <3>2 DEF Chain
    <2>4. CASE j # k
      <3>1. clips'[j] = clips[j] /\ (Exists(j)' <=> Exists(j))
        BY <2>1, <2>4 DEF Exists, TypeOK
      <3>2. \A c : Owed(j, c)' <=> Owed(j, c)
        BY <2>1 DEF Owed, LiveOf, Live, At
      <3> QED BY <1>1, <2>1, <2>2, <3>1, <3>2 DEF Chain
    <2> QED BY <2>3, <2>4
  <1>9. CASE RequestDies(k)
    BY <1>2, <1>9 DEF RequestDies, rows, Exists
  <1> QED BY <1>3, <1>4, <1>5, <1>6, <1>7, <1>8, <1>9 DEF ApiStep

WhileUninterrupted == faults = 0 => Chains

LEMMA ChainNext ==
  TypeInv /\ OrderInv /\ WhileUninterrupted /\ [Next]_vars => WhileUninterrupted'
  <1> SUFFICES ASSUME TypeInv, OrderInv, WhileUninterrupted, [Next]_vars, faults' = 0
               PROVE  Chains'
    BY DEF WhileUninterrupted
  <1>1. CASE UNCHANGED vars
    <2>1. faults = 0 /\ UNCHANGED <<status, api, clips, renders, rq>>
      BY <1>1 DEF vars, rows
    <2>2. Chains
      BY <2>1 DEF WhileUninterrupted
    <2> SUFFICES ASSUME NEW j \in Jobs PROVE Chain(j)'
      BY DEF Chains
    <2>3. Working(j)' = Working(j) /\ (Exists(j)' <=> Exists(j))
      BY <2>1 DEF Working, LiveOf, Live, At, Exists
    <2>4. \A c : Owed(j, c)' <=> Owed(j, c)
      BY <2>1 DEF Owed, LiveOf, Live, At
    <2> QED BY <2>1, <2>2, <2>3, <2>4 DEF Chains, Chain
  <1>2. ASSUME NEW k \in Jobs, ApiStep(k) PROVE Chains'
    <2>1. faults \in Nat /\ (faults = 0 => Chains)
      BY PipelineAssumption DEF TypeInv, TypeOK, WhileUninterrupted
    <2>2. CASE faults' = faults
      BY <1>2, <2>1, <2>2, ChainApi
    <2>3. CASE faults' = faults + 1
      BY <2>1, <2>3
    <2>4. faults' = faults \/ faults' = faults + 1
      BY <1>2 DEF ApiStep, CreateJob, EnqueueIngest, CancelCheck, CancelWrite, DeleteFiles, DeleteRows,
                  RequestDies
    <2> QED BY <2>2, <2>3, <2>4
  <1>3. ASSUME NEW r \in RqIds, WorkerStep(r) PROVE Chains'
    <2>1. faults' = faults
      BY <1>3 DEF WorkerStep, RunRetry, Dequeue, Begin, Fetch, InputGone, Ingest, PutAudio, Listen, CommitIngest,
                  EnqueueTranscription, Transcription, CommitTranscript, EnqueueSegmentation, Segmentation,
                  CommitCandidates, EnqueueScoring, Scoring, CommitScores, EnqueueRendering, StageFails, Ack
    <2>2. Chains
      BY <2>1 DEF WhileUninterrupted
    <2> QED
      BY <1>3, <2>2, ChainQuiet, ChainEnqueue, ChainCommitScores, ChainEnqueueRendering
      DEF WorkerStep, Ingest, Transcription, Segmentation, Scoring
  <1>4. ASSUME NEW r \in RqIds, Interrupted(r) PROVE FALSE
    <2>1. faults' = faults + 1 /\ faults \in Nat
      BY <1>4, PipelineAssumption DEF Interrupted, TypeInv, TypeOK
    <2> QED BY <2>1
  <1> QED BY <1>1, <1>2, <1>3, <1>4 DEF Next

LEMMA ChainInit == Init => WhileUninterrupted
  <1> SUFFICES ASSUME Init, NEW j \in Jobs PROVE Chain(j)
    BY DEF WhileUninterrupted, Chains
  <1>1. Working(j) = {} /\ clips[j] = {}
    BY DEF Init, Working, LiveOf, Live, Unused
  <1>2. Cardinality(clips[j]) <= MaxClips
    BY <1>1, FS_EmptySet, PipelineAssumption
  <1> QED BY <1>1, <1>2 DEF Chain

LEMMA ChainsAlways == Spec => [](TypeInv /\ WhileUninterrupted)
  <1>1. Init => WhileUninterrupted
    BY ChainInit
  <1>2. TypeInv /\ OrderInv /\ WhileUninterrupted /\ [Next]_vars => WhileUninterrupted'
    BY ChainNext
  <1>3. Init => TypeInv
    BY TypeInvInit
  <1>4. TypeInv /\ [Next]_vars => TypeInv'
    BY TypeInvNext
  <1>5. Init => OrderInv
    BY OrderInit
  <1>6. TypeInv /\ OrderInv /\ [Next]_vars => OrderInv'
    BY OrderNext
  <1> QED BY <1>1, <1>2, <1>3, <1>4, <1>5, <1>6, PTL DEF Spec

LEMMA ChainsAreSingle == WhileUninterrupted => SingleChain
  <1>1. \A j \in Jobs : CarryingOn(j) \subseteq Working(j)
    BY DEF CarryingOn, Working, At
  <1>2. Chains => \A j \in Jobs : \A q, r \in Working(j) : q = r
    BY DEF Chains, Chain
  <1> QED BY <1>1, <1>2 DEF WhileUninterrupted, SingleChain

-----------------------------------------------------------------------------
(* How much a stream job can come to cost.  A run that is to segment it, or *)
(* one that is to score it, stands for one transcript or one segmentation;  *)
(* every loss may double one of them, and no more: Paid.                    *)

(* How a finite set's size follows what joins and leaves it.                *)
LEMMA Sizes ==
  ASSUME NEW A, IsFiniteSet(A), NEW B
  PROVE  /\ Cardinality(A) \in Nat
         /\ B \subseteq A => IsFiniteSet(B) /\ Cardinality(B) \in Nat /\ Cardinality(B) <= Cardinality(A)
         /\ \A q : B \subseteq A \cup {q} =>
              IsFiniteSet(B) /\ Cardinality(B) \in Nat /\ Cardinality(B) <= Cardinality(A) + 1
         /\ \A r \in A : B \subseteq A \ {r} =>
              IsFiniteSet(B) /\ Cardinality(B) \in Nat /\ Cardinality(B) + 1 <= Cardinality(A)
         /\ \A q : \A r \in A : B \subseteq (A \ {r}) \cup {q} =>
              IsFiniteSet(B) /\ Cardinality(B) \in Nat /\ Cardinality(B) <= Cardinality(A)
  <1>1. Cardinality(A) \in Nat
    BY FS_CardinalityType
  <1>2. ASSUME NEW C, IsFiniteSet(C), NEW D, D \subseteq C
        PROVE  IsFiniteSet(D) /\ Cardinality(D) \in Nat /\ Cardinality(D) <= Cardinality(C)
    BY <1>2, FS_Subset, FS_CardinalityType
  <1>3. ASSUME NEW C, IsFiniteSet(C), NEW q, NEW D, D \subseteq C \cup {q}
        PROVE  IsFiniteSet(D) /\ Cardinality(D) \in Nat /\ Cardinality(D) <= Cardinality(C) + 1
    <2>1. IsFiniteSet(C \cup {q}) /\ Cardinality(C \cup {q}) <= Cardinality(C) + 1
      <3>1. Cardinality(C) \in Nat
        BY <1>3, FS_CardinalityType
      <3>2. IsFiniteSet(C \cup {q})
        BY <1>3, FS_AddElement
      <3>3. CASE q \in C
        <4>1. C \cup {q} = C
          BY <3>3
        <4> QED BY <3>1, <3>2, <4>1
      <3>4. CASE q \notin C
        <4>1. Cardinality(C \cup {q}) = Cardinality(C) + 1
          BY <1>3, <3>4, FS_AddElement
        <4> QED BY <3>1, <3>2, <4>1
      <3> QED BY <3>3, <3>4
    <2>2. IsFiniteSet(D) /\ Cardinality(D) \in Nat /\ Cardinality(D) <= Cardinality(C \cup {q})
      BY <1>2, <1>3, <2>1
    <2>3. Cardinality(C \cup {q}) \in Nat /\ Cardinality(C) \in Nat
      BY <1>3, <2>1, FS_CardinalityType
    <2> QED BY <2>1, <2>2, <2>3
  <1>4. ASSUME NEW r \in A
        PROVE  IsFiniteSet(A \ {r}) /\ Cardinality(A \ {r}) = Cardinality(A) - 1
    BY FS_RemoveElement
  <1>5. ASSUME NEW r \in A, B \subseteq A \ {r}
        PROVE  IsFiniteSet(B) /\ Cardinality(B) \in Nat /\ Cardinality(B) + 1 <= Cardinality(A)
    <2>1. IsFiniteSet(B) /\ Cardinality(B) \in Nat /\ Cardinality(B) <= Cardinality(A \ {r})
      BY <1>2, <1>4, <1>5
    <2> QED BY <1>1, <1>4, <2>1
  <1>6. ASSUME NEW q, NEW r \in A, B \subseteq (A \ {r}) \cup {q}
        PROVE  IsFiniteSet(B) /\ Cardinality(B) \in Nat /\ Cardinality(B) <= Cardinality(A)
    <2>1. IsFiniteSet(B) /\ Cardinality(B) \in Nat /\ Cardinality(B) <= Cardinality(A \ {r}) + 1
      BY <1>3, <1>4, <1>6
    <2> QED BY <1>1, <1>4, <2>1
  <1> QED BY <1>1, <1>2, <1>3, <1>5, <1>6

(* Runs that may still propose candidates, or choose clips: of either kind  *)
(* a job has one, and one more for every interruption, less the times it    *)
(* has been done.                                                           *)
MayPropose(r) ==
  \/ At(r, "transcription", "enqueue")
  \/ rq[r].stage = "segmentation" /\ rq[r].pc \notin {"enqueue", "ack"}
MayChoose(r) ==
  \/ At(r, "transcription", "enqueue")
  \/ rq[r].stage = "segmentation" /\ rq[r].pc # "ack"
  \/ rq[r].stage = "scoring" /\ rq[r].pc \notin {"enqueue", "ack"}
ToPropose(j) == {r \in LiveOf(j) : MayPropose(r)}
ToChoose(j) == {r \in LiveOf(j) : MayChoose(r)}
Numbers(numbered) == {n[2] : n \in numbered}

OncePerLoss(j) ==
  /\ IsFiniteSet(ToPropose(j)) /\ IsFiniteSet(ToChoose(j))
  /\ IsFiniteSet(Numbers(AllCandidates(j))) /\ IsFiniteSet(Numbers(clips[j]))
  /\ Exists(j) =>
       /\ Cardinality(Numbers(AllCandidates(j))) + Cardinality(ToPropose(j)) <= faults + 1
       /\ Cardinality(Numbers(clips[j])) + Cardinality(ToChoose(j)) <= faults + 1
       /\ Cardinality(clips[j]) + Cardinality(ToChoose(j)) * MaxClips <= (faults + 1) * MaxClips

(* What is in the rows of a job, and in what a scoring run has read and     *)
(* written of them.                                                         *)
Follows(r, j) ==
  rq[r].seen \subseteq AllCandidates(j) /\ rq[r].todo \subseteq {c[1] : c \in clips[j]}
RowsFollow(j) ==
  /\ ~Exists(j) => ~transcript[j]
  /\ ~transcript[j] => AllCandidates(j) = {} /\ clips[j] = {}
  /\ Exists(j) => \A r \in LiveOf(j) : Follows(r, j)

Paid == \A j \in Jobs : OncePerLoss(j) /\ RowsFollow(j)

LEMMA Products ==
  ASSUME NEW a \in Nat, NEW b \in Nat, NEW m \in Nat
  PROVE  /\ a * m \in Nat /\ b * m \in Nat
         /\ a <= b => a * m <= b * m
         /\ a + 1 <= b => a * m + m <= b * m
         /\ (a + 1) * m = a * m + m
  <1>1. a * m \in Nat /\ b * m \in Nat /\ (a + 1) * m = a * m + m
    OBVIOUS
  <1>2. ASSUME a <= b PROVE a * m <= b * m
    <2>1. b - a \in Nat /\ (b - a) * m \in Nat
      BY <1>2
    <2>2. b * m = a * m + (b - a) * m
      OBVIOUS
    <2> QED BY <1>1, <2>1, <2>2
  <1>3. ASSUME a + 1 <= b PROVE a * m + m <= b * m
    <2>1. b - (a + 1) \in Nat /\ (b - (a + 1)) * m \in Nat
      BY <1>3
    <2>2. b * m = (a + 1) * m + (b - (a + 1)) * m
      OBVIOUS
    <2> QED BY <1>1, <2>1, <2>2
  <1> QED BY <1>1, <1>2, <1>3

(* The runs of a job change hands, and an interruption may add one.         *)
LEMMA RunsChange ==
  ASSUME faults \in Nat, NEW j \in Jobs, OncePerLoss(j), NEW q,
         \/ faults' = faults + 1 /\ ToPropose(j)' \subseteq ToPropose(j) \cup {q}
         \/ faults' = faults /\ ToPropose(j)' \subseteq ToPropose(j)
         \/ faults' = faults /\ \E r \in ToPropose(j) : ToPropose(j)' \subseteq (ToPropose(j) \ {r}) \cup {q},
         \/ faults' = faults + 1 /\ ToChoose(j)' \subseteq ToChoose(j) \cup {q}
         \/ faults' = faults /\ ToChoose(j)' \subseteq ToChoose(j)
         \/ faults' = faults /\ \E r \in ToChoose(j) : ToChoose(j)' \subseteq (ToChoose(j) \ {r}) \cup {q},
         AllCandidates(j)' = AllCandidates(j), clips'[j] = clips[j], IsFiniteSet(clips[j]),
         Exists(j)' => Exists(j)
  PROVE  OncePerLoss(j)'
  <1> DEFINE m == MaxClips
             P == Cardinality(Numbers(AllCandidates(j)))
             p == Cardinality(ToPropose(j))
             pp == Cardinality(ToPropose(j)')
             C == Cardinality(Numbers(clips[j]))
             n == Cardinality(clips[j])
             c == Cardinality(ToChoose(j))
             cc == Cardinality(ToChoose(j)')
             f == faults
             ff == faults'
  <1>1. m \in Nat /\ f \in Nat /\ ff \in Nat
    BY PipelineAssumption
  <1>2. P \in Nat /\ p \in Nat /\ C \in Nat /\ c \in Nat /\ n \in Nat
    BY FS_CardinalityType DEF OncePerLoss
  <1>3. IsFiniteSet(ToPropose(j)') /\ pp \in Nat /\ ((pp <= p /\ ff = f) \/ (pp <= p + 1 /\ ff = f + 1))
    <2> DEFINE A == ToPropose(j)
               B == ToPropose(j)'
    <2>1. /\ IsFiniteSet(A)
          /\ \/ ff = f + 1 /\ B \subseteq A \cup {q}
             \/ ff = f /\ B \subseteq A
             \/ ff = f /\ \E r \in A : B \subseteq (A \ {r}) \cup {q}
      BY DEF OncePerLoss
    <2>2. p = Cardinality(A) /\ pp = Cardinality(B)
      OBVIOUS
    <2> HIDE DEF A, B, f, ff, p, pp
    <2>3. /\ IsFiniteSet(B) /\ Cardinality(B) \in Nat
          /\ \/ Cardinality(B) <= Cardinality(A) /\ ff = f
             \/ Cardinality(B) <= Cardinality(A) + 1 /\ ff = f + 1
      <3>1. CASE ff = f + 1 /\ B \subseteq A \cup {q}
        BY <2>1, <3>1, Sizes
      <3>2. CASE ff = f /\ B \subseteq A
        BY <2>1, <3>2, Sizes
      <3>3. CASE ff = f /\ \E r \in A : B \subseteq (A \ {r}) \cup {q}
        BY <2>1, <3>3, Sizes
      <3> QED BY <2>1, <3>1, <3>2, <3>3
    <2> QED BY <2>2, <2>3 DEF B
  <1>4. IsFiniteSet(ToChoose(j)') /\ cc \in Nat /\ ((cc <= c /\ ff = f) \/ (cc <= c + 1 /\ ff = f + 1))
    <2> DEFINE A == ToChoose(j)
               B == ToChoose(j)'
    <2>1. /\ IsFiniteSet(A)
          /\ \/ ff = f + 1 /\ B \subseteq A \cup {q}
             \/ ff = f /\ B \subseteq A
             \/ ff = f /\ \E r \in A : B \subseteq (A \ {r}) \cup {q}
      BY DEF OncePerLoss
    <2>2. c = Cardinality(A) /\ cc = Cardinality(B)
      OBVIOUS
    <2> HIDE DEF A, B, f, ff, c, cc
    <2>3. /\ IsFiniteSet(B) /\ Cardinality(B) \in Nat
          /\ \/ Cardinality(B) <= Cardinality(A) /\ ff = f
             \/ Cardinality(B) <= Cardinality(A) + 1 /\ ff = f + 1
      <3>1. CASE ff = f + 1 /\ B \subseteq A \cup {q}
        BY <2>1, <3>1, Sizes
      <3>2. CASE ff = f /\ B \subseteq A
        BY <2>1, <3>2, Sizes
      <3>3. CASE ff = f /\ \E r \in A : B \subseteq (A \ {r}) \cup {q}
        BY <2>1, <3>3, Sizes
      <3> QED BY <2>1, <3>1, <3>2, <3>3
    <2> QED BY <2>2, <2>3 DEF B
  <1>5. Exists(j)' => P + p <= f + 1 /\ C + c <= f + 1 /\ n + c * m <= (f + 1) * m
    BY DEF OncePerLoss
  <1>6. IsFiniteSet(Numbers(AllCandidates(j))) /\ IsFiniteSet(Numbers(clips[j]))
    BY DEF OncePerLoss
  <1> HIDE DEF P, p, pp, C, n, c, cc, f, ff, m
  <1>7. Exists(j)' => P + pp <= ff + 1 /\ C + cc <= ff + 1
    BY <1>1, <1>2, <1>3, <1>4, <1>5
  <1>8. ASSUME Exists(j)' PROVE n + cc * m <= (ff + 1) * m
    <2>1. n + c * m <= (f + 1) * m
      BY <1>5, <1>8
    <2>2. CASE cc <= c /\ ff = f
      BY <1>1, <1>2, <1>4, <2>1, <2>2, Products
    <2>3. CASE cc <= c + 1 /\ ff = f + 1
      <3>1. cc * m <= (c + 1) * m /\ (c + 1) * m = c * m + m /\ c * m \in Nat /\ cc * m \in Nat
        BY <1>1, <1>2, <1>4, <2>3, Products
      <3>2. (ff + 1) * m = (f + 1) * m + m /\ (f + 1) * m \in Nat
        BY <1>1, <2>3, Products
      <3> QED BY <1>1, <1>2, <2>1, <3>1, <3>2
    <2> QED BY <1>4, <2>2, <2>3
  <1> QED BY <1>3, <1>4, <1>6, <1>7, <1>8 DEF OncePerLoss, Numbers, P, pp, C, n, cc, ff, m

(* The rows under the job j are what they were.                             *)
SameRows(j) ==
  /\ transcript'[j] = transcript[j] /\ AllCandidates(j)' = AllCandidates(j)
  /\ clips'[j] = clips[j] /\ (Exists(j)' <=> Exists(j))

(* Of the run r there is left at most what there was, but for a retry.      *)
Remains(r) ==
  Live(r)' =>
    /\ rq'[r].job = rq[r].job
    /\ rq'[r].seen \subseteq rq[r].seen \/ rq'[r].seen \subseteq AllCandidates(rq[r].job)
    /\ rq'[r].todo \subseteq rq[r].todo
    /\ faults' # faults + 1 => (MayPropose(r)' => MayPropose(r)) /\ (MayChoose(r)' => MayChoose(r))

LEMMA PaidRemains ==
  ASSUME TypeInv, NEW j \in Jobs, OncePerLoss(j), RowsFollow(j), NEW r \in RqIds, Live(r),
         \A p \in RqIds \ {r} : rq'[p] = rq[p], Remains(r), SameRows(j),
         faults' \in {faults, faults + 1}
  PROVE  OncePerLoss(j)' /\ RowsFollow(j)'
  <1>1. \A p \in RqIds \ {r} : /\ p \in LiveOf(j)' <=> p \in LiveOf(j)
                               /\ MayPropose(p)' <=> MayPropose(p)
                               /\ MayChoose(p)' <=> MayChoose(p)
    BY DEF LiveOf, Live, MayPropose, MayChoose, At
  <1>2. r \in LiveOf(j)' => r \in LiveOf(j)
    BY DEF LiveOf, Remains
  <1>3. OncePerLoss(j)'
    <2>1. \/ faults' = faults + 1 /\ ToPropose(j)' \subseteq ToPropose(j) \cup {r}
          \/ faults' = faults /\ ToPropose(j)' \subseteq ToPropose(j)
      <3>1. ToPropose(j)' \subseteq ToPropose(j) \cup {r}
        BY <1>1 DEF ToPropose, LiveOf
      <3>2. ASSUME faults' # faults + 1, r \in ToPropose(j)' PROVE r \in ToPropose(j)
        BY <1>2, <3>2 DEF ToPropose, Remains, LiveOf
      <3> QED BY <3>1, <3>2
    <2>2. \/ faults' = faults + 1 /\ ToChoose(j)' \subseteq ToChoose(j) \cup {r}
          \/ faults' = faults /\ ToChoose(j)' \subseteq ToChoose(j)
      <3>1. ToChoose(j)' \subseteq ToChoose(j) \cup {r}
        BY <1>1 DEF ToChoose, LiveOf
      <3>2. ASSUME faults' # faults + 1, r \in ToChoose(j)' PROVE r \in ToChoose(j)
        BY <1>2, <3>2 DEF ToChoose, Remains, LiveOf
      <3> QED BY <3>1, <3>2
    <2>3. faults \in Nat /\ IsFiniteSet(clips[j])
      BY PipelineAssumption DEF TypeInv, TypeOK, Finite
    <2> QED BY <2>1, <2>2, <2>3, RunsChange DEF SameRows
  <1>4. RowsFollow(j)'
    <2>1. ASSUME Exists(j)', NEW p \in LiveOf(j)' PROVE Follows(p, j)'
      <3>1. p \in LiveOf(j) /\ Follows(p, j)
        BY <1>1, <1>2, <2>1 DEF RowsFollow, SameRows, LiveOf
      <3>2. CASE p = r
        BY <2>1, <3>1, <3>2 DEF Follows, Remains, SameRows, LiveOf
      <3>3. CASE p # r
        <4>1. rq'[p] = rq[p]
          BY <3>1, <3>3 DEF LiveOf
        <4> QED BY <3>1, <4>1 DEF Follows, SameRows
      <3> QED BY <3>2, <3>3
    <2> QED BY <2>1 DEF RowsFollow, SameRows
  <1> QED BY <1>3, <1>4

LEMMA PaidRaise ==
  ASSUME TypeInv, Paid, NEW r \in RqIds, Live(r), Raise(r),
         UNCHANGED rows, faults' \in {faults, faults + 1},
         faults' = faults => rq[r].pc \notin {"enqueue", "ack"}
  PROVE  Paid'
  <1> USE DEF TypeInv, TypeOK
  <1>1. rq[r].job \in Jobs /\ rq[r].stage \in Stages /\ rq[r] \in RqJob
    BY LiveRun DEF RqOK
  <1>2. \A p \in RqIds \ {r} : rq'[p] = rq[p]
    BY DEF Raise, Finish
  <1>3. \A j \in Jobs : SameRows(j)
    BY <1>1, ExistingStatuses DEF SameRows, Raise, MarkFailed, Exists, rows, AllCandidates
  <1>4. Remains(r)
    BY <1>1 DEF Remains, Raise, Finish, Live, Unused, RqJob, MayPropose, MayChoose, At
  <1> QED BY <1>2, <1>3, <1>4, PaidRemains DEF Paid

(* Steps that add no row and start no run.                                  *)
LEMMA PaidQuiet ==
  ASSUME TypeInv, Paid, NEW r \in RqIds,
         \/ RunRetry(r) \/ Dequeue(r) \/ Begin(r) \/ Fetch(r) \/ InputGone(r) \/ StageFails(r)
         \/ Ack(r) \/ PutAudio(r) \/ Listen(r) \/ CommitIngest(r) \/ EnqueueRendering(r) \/ Interrupted(r)
  PROVE  Paid'
  <1> USE DEF TypeInv
  <1>1. Live(r) /\ rq[r].job \in Jobs /\ rq[r].stage \in Stages /\ rq[r] \in RqJob
    BY LiveRun
    DEF TypeOK, RqOK, RunRetry, Dequeue, Begin, Fetch, InputGone, StageFails, Ack, PutAudio, Listen,
        CommitIngest, EnqueueRendering, Interrupted, At, Live
  <1>2. UNCHANGED rows /\ faults' \in {faults, faults + 1}
    BY DEF RunRetry, Dequeue, Begin, Fetch, InputGone, StageFails, Ack, PutAudio, Listen, CommitIngest,
           CommitFails, EnqueueRendering, Interrupted, rows
  <1>3. ASSUME \A p \in RqIds \ {r} : rq'[p] = rq[p], Remains(r), \A j \in Jobs : Exists(j)' <=> Exists(j)
        PROVE  Paid'
    <2>1. \A j \in Jobs : SameRows(j)
      BY <1>2, <1>3 DEF SameRows, rows, AllCandidates
    <2> QED BY <1>1, <1>2, <1>3, <2>1, PaidRemains DEF Paid
  <1>4. CASE RunRetry(r) \/ Dequeue(r) \/ Fetch(r) \/ Ack(r) \/ PutAudio(r) \/ Listen(r)
    <2>1. UNCHANGED status
      BY <1>4 DEF RunRetry, Dequeue, Fetch, Ack, PutAudio, Listen
    <2>2. \A p \in RqIds \ {r} : rq'[p] = rq[p]
      BY <1>1, <1>4 DEF RunRetry, Dequeue, Fetch, Ack, PutAudio, Listen, Goto, Finish, TypeOK
    <2>3. Remains(r)
      BY <1>1, <1>4 DEF Remains, RunRetry, Dequeue, Fetch, Ack, PutAudio, Listen, Goto, Finish, TypeOK, RqJob,
                        Live, Unused, MayPropose, MayChoose, At
    <2> QED BY <1>3, <2>1, <2>2, <2>3 DEF Exists
  <1>5. CASE Begin(r)
    <2>1. \A j \in Jobs : Exists(j)' <=> Exists(j)
      BY <1>1, <1>5, ExistingStatuses DEF Begin, Exists, TypeOK
    <2>2. \A p \in RqIds \ {r} : rq'[p] = rq[p]
      BY <1>1, <1>5 DEF Begin, Finish, TypeOK
    <2>3. CASE Exists(rq[r].job)
      <3>1. /\ rq[r].pc = "begin" /\ rq'[r].pc = "fetch" /\ rq'[r].job = rq[r].job
            /\ rq'[r].stage = rq[r].stage /\ rq'[r].todo = rq[r].todo
            /\ rq'[r].seen \subseteq pending[rq[r].job]
        BY <1>1, <1>5, <2>3 DEF Begin, TypeOK, RqJob
      <3>2. Remains(r)
        BY <3>1 DEF Remains, AllCandidates, MayPropose, MayChoose, At
      <3> QED BY <1>3, <2>1, <2>2, <3>2
    <2>4. CASE ~Exists(rq[r].job)
      <3>1. Remains(r)
        BY <1>1, <1>5, <2>4 DEF Begin, Finish, Remains, Live, Unused, TypeOK
      <3> QED BY <1>3, <2>1, <2>2, <3>1
    <2> QED BY <2>3, <2>4
  <1>6. CASE InputGone(r) \/ Interrupted(r)
    <2>1. Raise(r) /\ (faults' = faults => rq[r].pc \notin {"enqueue", "ack"})
      BY <1>6, PipelineAssumption DEF InputGone, Interrupted, TypeOK
    <2> QED BY <1>1, <1>2, <2>1, PaidRaise
  <1>7. CASE StageFails(r)
    <2>1. \A j \in Jobs : Exists(j)' <=> Exists(j)
      BY <1>1, <1>7, ExistingStatuses DEF StageFails, MarkFailed, Exists, TypeOK
    <2>2. (\A p \in RqIds \ {r} : rq'[p] = rq[p]) /\ Remains(r)
      BY <1>1, <1>7 DEF StageFails, Finish, Remains, Live, Unused, TypeOK
    <2> QED BY <1>3, <2>1, <2>2
  <1>8. CASE CommitIngest(r)
    <2>1. CASE Exists(rq[r].job)
      <3>1. \A j \in Jobs : Exists(j)' <=> Exists(j)
        BY <1>1, <1>8, <2>1 DEF CommitIngest, Exists, TypeOK
      <3>2. (\A p \in RqIds \ {r} : rq'[p] = rq[p]) /\ Remains(r)
        BY <1>1, <1>8, <2>1 DEF CommitIngest, Goto, Remains, MayPropose, MayChoose, At, TypeOK, RqJob
      <3> QED BY <1>3, <3>1, <3>2
    <2>2. CASE ~Exists(rq[r].job)
      <3>1. Raise(r) /\ rq[r].pc = "commit"
        BY <1>8, <2>2 DEF CommitIngest, CommitFails, At
      <3> QED BY <1>1, <1>2, <3>1, PaidRaise
    <2> QED BY <2>1, <2>2
  <1>9. CASE EnqueueRendering(r)
    <2>1. UNCHANGED status
      BY <1>9 DEF EnqueueRendering
    <2>2. (\A p \in RqIds \ {r} : rq'[p] = rq[p]) /\ Remains(r)
      BY <1>1, <1>9 DEF EnqueueRendering, Goto, Remains, MayPropose, MayChoose, At, TypeOK, RqJob
    <2> QED BY <1>3, <2>1, <2>2 DEF Exists
  <1> QED BY <1>4, <1>5, <1>6, <1>7, <1>8, <1>9

(* A run hands its place on to the run of the next stage.                   *)
LEMMA PaidEnqueue ==
  ASSUME TypeInv, Paid, NEW r \in RqIds,
         EnqueueTranscription(r) \/ EnqueueSegmentation(r) \/ EnqueueScoring(r)
  PROVE  Paid'
  <1> USE DEF TypeInv
  <1>1. Live(r) /\ UNCHANGED <<status, rows, faults>> /\ rq[r].pc = "enqueue"
    BY DEF EnqueueTranscription, EnqueueSegmentation, EnqueueScoring, At, Live
  <1>2. PICK s \in Stages :
          /\ EnqueueNext(r, s)
          /\ \/ rq[r].stage = "ingest" /\ s = "transcription"
             \/ rq[r].stage = "transcription" /\ s = "segmentation"
             \/ rq[r].stage = "segmentation" /\ s = "scoring"
    BY DEF EnqueueTranscription, EnqueueSegmentation, EnqueueScoring, At, Stages
  <1>k. PICK k \in Jobs : rq[r].job = k /\ rq[r] \in RqJob
    BY <1>1, LiveRun DEF TypeOK, RqOK
  <1>3. PICK q \in RqIds \ {r} :
          /\ ~Live(q)
          /\ rq'[q] = NewRqJob(k, s)
          /\ rq'[r] = [rq[r] EXCEPT !.pc = "ack"]
          /\ \A p \in RqIds \ {q, r} : rq'[p] = rq[p]
    BY <1>1, <1>2, <1>k, EnqueueTouches
  <1>4. /\ rq'[r].pc = "ack" /\ rq'[r].job = k /\ rq'[r].stage = rq[r].stage
        /\ rq'[r].seen = rq[r].seen /\ rq'[r].todo = rq[r].todo
        /\ rq'[q].pc = "queued" /\ rq'[q].job = k /\ rq'[q].stage = s
        /\ rq'[q].seen = {} /\ rq'[q].todo = {}
    BY <1>k, <1>3 DEF RqJob, NewRqJob, Unused
  <1>5. \A p \in RqIds \ {q, r} : \A j \in Jobs :
          /\ p \in LiveOf(j)' <=> p \in LiveOf(j)
          /\ MayPropose(p)' <=> MayPropose(p)
          /\ MayChoose(p)' <=> MayChoose(p)
    BY <1>3 DEF LiveOf, Live, MayPropose, MayChoose, At
  <1>6. /\ \A j \in Jobs : q \in LiveOf(j)' => j = k
        /\ \A j \in Jobs : r \in LiveOf(j) => j = k
        /\ r \in LiveOf(k) /\ r \in LiveOf(k)' /\ \A j \in Jobs : r \in LiveOf(j)' => j = k
        /\ ~MayPropose(r)' /\ ~MayChoose(r)'
        /\ MayPropose(q)' => MayPropose(r)
        /\ MayChoose(q)' => MayChoose(r)
    BY <1>1, <1>2, <1>k, <1>4 DEF LiveOf, Live, MayPropose, MayChoose, At
  <1> SUFFICES ASSUME NEW j \in Jobs PROVE OncePerLoss(j)' /\ RowsFollow(j)'
    BY DEF Paid
  <1>7. SameRows(j) /\ OncePerLoss(j) /\ RowsFollow(j)
    BY <1>1 DEF SameRows, rows, AllCandidates, Exists, Paid
  <1>8. OncePerLoss(j)'
    <2>1. \/ ToPropose(j)' \subseteq ToPropose(j)
          \/ \E p \in ToPropose(j) : ToPropose(j)' \subseteq (ToPropose(j) \ {p}) \cup {q}
      <3>1. ToPropose(j)' \subseteq (ToPropose(j) \ {r}) \cup {q}
        BY <1>5, <1>6 DEF ToPropose, LiveOf
      <3>2. q \in ToPropose(j)' => r \in ToPropose(j)
        BY <1>6 DEF ToPropose
      <3> QED BY <3>1, <3>2
    <2>2. \/ ToChoose(j)' \subseteq ToChoose(j)
          \/ \E p \in ToChoose(j) : ToChoose(j)' \subseteq (ToChoose(j) \ {p}) \cup {q}
      <3>1. ToChoose(j)' \subseteq (ToChoose(j) \ {r}) \cup {q}
        BY <1>5, <1>6 DEF ToChoose, LiveOf
      <3>2. q \in ToChoose(j)' => r \in ToChoose(j)
        BY <1>6 DEF ToChoose
      <3> QED BY <3>1, <3>2
    <2>3. faults \in Nat /\ faults' = faults /\ IsFiniteSet(clips[j])
      BY <1>1, PipelineAssumption DEF TypeOK, Finite
    <2> QED BY <1>7, <2>1, <2>2, <2>3, RunsChange DEF SameRows
  <1>9. RowsFollow(j)'
    <2>1. ASSUME Exists(j), NEW p \in LiveOf(j)' PROVE Follows(p, j)'
      <3>1. CASE p = q
        BY <1>4, <3>1 DEF Follows
      <3>2. CASE p # q
        <4>1. p \in LiveOf(j) /\ rq'[p].seen = rq[p].seen /\ rq'[p].todo = rq[p].todo
          BY <1>3, <1>4, <1>5, <1>6, <2>1, <3>2 DEF LiveOf
        <4>2. Follows(p, j)
          BY <1>7, <2>1, <4>1 DEF RowsFollow
        <4> QED BY <1>7, <4>1, <4>2 DEF Follows, SameRows
      <3> QED BY <3>1, <3>2
    <2> QED BY <1>7, <2>1 DEF RowsFollow, SameRows
  <1> QED BY <1>8, <1>9

(* The transcript is there: what it makes possible is paid for.             *)
LEMMA PaidCommitTranscript ==
  ASSUME TypeInv, OrderInv, Paid, NEW r \in RqIds, CommitTranscript(r)
  PROVE  Paid'
  <1> USE DEF TypeInv
  <1>1. Live(r) /\ rq[r].job \in Jobs /\ rq[r] \in RqJob
    BY LiveRun DEF TypeOK, RqOK, CommitTranscript, At, Live
  <1>k. PICK k \in Jobs : rq[r].job = k
    BY <1>1
  <1>2. CASE ~InsertsTranscript(k)
    BY <1>1, <1>2, <1>k, PaidRaise DEF CommitTranscript, CommitFails, At
  <1>3. CASE InsertsTranscript(k)
    <2>1. /\ transcript' = [transcript EXCEPT ![k] = TRUE]
          /\ status' = [status EXCEPT ![k] = "transcribed"]
          /\ UNCHANGED <<pending, selected, rejected, clips, faults>>
      BY <1>3, <1>k DEF CommitTranscript
    <2>2. /\ \A p \in RqIds \ {r} : rq'[p] = rq[p]
          /\ rq'[r].job = k /\ rq'[r].pc = "enqueue" /\ rq[r].pc = "work"
          /\ rq'[r].stage = "transcription" /\ rq[r].stage = "transcription"
          /\ rq'[r].seen = rq[r].seen /\ rq'[r].todo = rq[r].todo
      BY <1>1, <1>3, <1>k DEF CommitTranscript, Goto, At, TypeOK, RqJob
    <2>3. Exists(k) /\ ~transcript[k]
      BY <1>3 DEF InsertsTranscript
    <2> SUFFICES ASSUME NEW j \in Jobs PROVE OncePerLoss(j)' /\ RowsFollow(j)'
      BY DEF Paid
    <2>4. OncePerLoss(j) /\ RowsFollow(j)
      BY DEF Paid
    <2>5. CASE j # k
      <3>1. SameRows(j)
        BY <2>1, <2>5 DEF SameRows, AllCandidates, Exists, TypeOK
      <3>2. LiveOf(j)' = LiveOf(j) /\ r \notin LiveOf(j)
        BY <1>1, <1>k, <2>2, <2>5 DEF LiveOf, Live
      <3>3. \A p \in RqIds \ {r} : /\ MayPropose(p)' <=> MayPropose(p)
                                   /\ MayChoose(p)' <=> MayChoose(p)
        BY <2>2 DEF MayPropose, MayChoose, At
      <3>4. ToPropose(j)' = ToPropose(j) /\ ToChoose(j)' = ToChoose(j)
        BY <3>2, <3>3 DEF ToPropose, ToChoose, LiveOf
      <3>5. OncePerLoss(j)'
        BY <2>1, <2>4, <3>1, <3>4 DEF OncePerLoss, SameRows, Numbers
      <3>6. RowsFollow(j)'
        <4>1. \A p \in LiveOf(j) : rq'[p] = rq[p]
          BY <2>2, <3>2 DEF LiveOf
        <4> QED BY <2>4, <3>1, <3>2, <4>1 DEF RowsFollow, SameRows, Follows
      <3> QED BY <3>5, <3>6
    <2>6. CASE j = k
      <3>1. ToPropose(k)' \subseteq {r} /\ ToChoose(k)' \subseteq {r}
        <4>1. \A p \in LiveOf(k) : ~ReadsTranscript(p)
          BY <2>3 DEF OrderInv, ReadersFindTranscript
        <4>2. \A p \in RqIds \ {r} : p \notin ToPropose(k)' /\ p \notin ToChoose(k)'
          BY <2>2, <4>1 DEF ToPropose, ToChoose, LiveOf, Live, MayPropose, MayChoose, At, ReadsTranscript
        <4> QED BY <4>2 DEF ToPropose, ToChoose, LiveOf
      <3>2. AllCandidates(k) = {} /\ clips[k] = {}
        BY <2>3, <2>4, <2>6 DEF RowsFollow
      <3>3. AllCandidates(k)' = {} /\ clips'[k] = {} /\ transcript'[k]
        BY <2>1, <3>2 DEF AllCandidates, TypeOK
      <3>4. OncePerLoss(k)'
        <4>1. IsFiniteSet({r}) /\ Cardinality({r}) = 1
          BY FS_Singleton
        <4>2. /\ IsFiniteSet(ToPropose(k)') /\ Cardinality(ToPropose(k)') \in Nat
              /\ Cardinality(ToPropose(k)') <= 1
          BY <3>1, <4>1, Sizes
        <4>3. /\ IsFiniteSet(ToChoose(k)') /\ Cardinality(ToChoose(k)') \in Nat
              /\ Cardinality(ToChoose(k)') <= 1
          BY <3>1, <4>1, Sizes
        <4>4. Numbers(AllCandidates(k)') = {} /\ Numbers(clips'[k]) = {}
          BY <3>3 DEF Numbers
        <4>5. IsFiniteSet({}) /\ Cardinality({}) = 0
          BY FS_EmptySet
        <4> DEFINE c == Cardinality(ToChoose(k)')
                   m == MaxClips
                   f == faults
        <4>6. m \in Nat /\ f \in Nat /\ f + 1 \in Nat /\ c \in Nat /\ c <= f + 1 /\ faults' = f
          BY <2>1, <4>3, PipelineAssumption DEF TypeOK
        <4>7. c * m <= (f + 1) * m /\ c * m \in Nat
          <5> HIDE DEF c, m, f
          <5> QED BY <4>6, Products
        <4> QED BY <3>3, <4>2, <4>3, <4>4, <4>5, <4>6, <4>7 DEF OncePerLoss, Numbers
      <3>5. RowsFollow(k)'
        <4>1. \A p \in LiveOf(k)' : p \in LiveOf(k) /\ rq'[p].seen = rq[p].seen /\ rq'[p].todo = rq[p].todo
          BY <1>1, <1>k, <2>2 DEF LiveOf, Live
        <4>2. \A p \in LiveOf(k) : rq[p].seen = {} /\ rq[p].todo = {}
          BY <2>3, <2>4, <2>6, <3>2 DEF RowsFollow, Follows
        <4>3. \A p \in LiveOf(k)' : rq'[p].seen = {} /\ rq'[p].todo = {}
          BY <4>1, <4>2
        <4>4. Exists(k)'
          BY <2>1 DEF Exists, TypeOK
        <4> QED BY <3>3, <4>3, <4>4 DEF RowsFollow, Follows
      <3> QED BY <2>6, <3>4, <3>5
    <2> QED BY <2>5, <2>6
  <1> QED BY <1>2, <1>3

(* Of a job whose rows change under one of its runs alone: what is left to  *)
(* show is about that job.                                                  *)
LEMMA PaidElsewhere ==
  ASSUME TypeInv, Paid, NEW r \in RqIds, NEW k \in Jobs, Live(r), rq[r].job = k,
         rq'[r].job = k, \A p \in RqIds \ {r} : rq'[p] = rq[p],
         NEW j \in Jobs \ {k}, SameRows(j), faults' = faults
  PROVE  OncePerLoss(j)' /\ RowsFollow(j)'
  <1>1. OncePerLoss(j) /\ RowsFollow(j)
    BY DEF Paid
  <1>2. LiveOf(j)' = LiveOf(j) /\ r \notin LiveOf(j)
    BY DEF LiveOf, Live
  <1>3. \A p \in RqIds \ {r} : /\ MayPropose(p)' <=> MayPropose(p)
                               /\ MayChoose(p)' <=> MayChoose(p)
    BY DEF MayPropose, MayChoose, At
  <1>4. ToPropose(j)' = ToPropose(j) /\ ToChoose(j)' = ToChoose(j)
    BY <1>2, <1>3 DEF ToPropose, ToChoose, LiveOf
  <1>5. OncePerLoss(j)'
    BY <1>1, <1>4 DEF OncePerLoss, SameRows, Numbers
  <1>6. RowsFollow(j)'
    <2>1. \A p \in LiveOf(j) : rq'[p] = rq[p]
      BY <1>2 DEF LiveOf
    <2> QED BY <1>1, <1>2, <2>1 DEF RowsFollow, SameRows, Follows
  <1> QED BY <1>5, <1>6

LEMMA PaidCommitCandidates ==
  ASSUME TypeInv, OrderInv, Paid, NEW r \in RqIds, CommitCandidates(r)
  PROVE  Paid'
  <1> USE DEF TypeInv
  <1>1. Live(r) /\ rq[r].job \in Jobs /\ rq[r] \in RqJob
    BY LiveRun DEF TypeOK, RqOK, CommitCandidates, At, Live
  <1>k. PICK k \in Jobs : rq[r].job = k
    BY <1>1
  <1>2. CASE ~Exists(k)
    BY <1>1, <1>2, <1>k, PaidRaise DEF CommitCandidates, CommitFails, At, rows
  <1>3. CASE Exists(k)
    <2>1. PICK ws \in SUBSET Windows \ {{}} :
            pending' = [pending EXCEPT ![k] = @ \cup (ws \X {Cardinality(AllCandidates(k))})]
      BY <1>3, <1>k DEF CommitCandidates
    <2> DEFINE n == Cardinality(AllCandidates(k))
    <2>2. /\ status' = [status EXCEPT ![k] = "segmented"]
          /\ UNCHANGED <<transcript, selected, rejected, clips, faults>>
      BY <1>3, <1>k DEF CommitCandidates
    <2>3. /\ \A p \in RqIds \ {r} : rq'[p] = rq[p]
          /\ rq'[r].job = k /\ rq'[r].pc = "enqueue" /\ rq[r].pc = "work"
          /\ rq'[r].stage = "segmentation" /\ rq[r].stage = "segmentation"
          /\ rq'[r].seen = rq[r].seen /\ rq'[r].todo = rq[r].todo
      BY <1>1, <1>3, <1>k DEF CommitCandidates, Goto, At, TypeOK, RqJob
    <2>4. r \in LiveOf(k)
      BY <1>1, <1>k DEF LiveOf
    <2>5. transcript[k]
      BY <1>3, <2>3, <2>4 DEF OrderInv, ReadersFindTranscript, ReadsTranscript
    <2>6. OncePerLoss(k) /\ RowsFollow(k)
      BY DEF Paid
    <2>7. pending'[k] = pending[k] \cup (ws \X {n})
      BY <2>1 DEF TypeOK
    <2>8. AllCandidates(k)' = AllCandidates(k) \cup (ws \X {n})
      BY <2>2, <2>7 DEF AllCandidates
    <2> HIDE DEF n
    <2>9. OncePerLoss(k)'
      <3>1. ToPropose(k)' \subseteq ToPropose(k) \ {r} /\ r \in ToPropose(k)
        <4>1. \A p \in RqIds \ {r} : p \in ToPropose(k)' => p \in ToPropose(k)
          BY <2>3 DEF ToPropose, LiveOf, Live, MayPropose, At
        <4>2. r \notin ToPropose(k)' /\ r \in ToPropose(k)
          BY <2>3, <2>4 DEF ToPropose, MayPropose, At
        <4> QED BY <4>1, <4>2 DEF ToPropose, LiveOf
      <3>2. ToChoose(k)' = ToChoose(k)
        <4>1. \A p \in RqIds \ {r} : p \in ToChoose(k)' <=> p \in ToChoose(k)
          BY <2>3 DEF ToChoose, LiveOf, Live, MayChoose, At
        <4>2. r \in ToChoose(k)' /\ r \in ToChoose(k)
          BY <1>1, <2>3, <2>4 DEF ToChoose, LiveOf, Live, MayChoose, At
        <4> QED BY <4>1, <4>2 DEF ToChoose, LiveOf
      <3>3. Numbers(AllCandidates(k)') \subseteq Numbers(AllCandidates(k)) \cup {n}
        BY <2>8 DEF Numbers
      <3> DEFINE N == Numbers(AllCandidates(k))
                 M == Numbers(AllCandidates(k)')
                 P == ToPropose(k)
                 Q == ToPropose(k)'
      <3>4. IsFiniteSet(N) /\ IsFiniteSet(P) /\ Q \subseteq P \ {r} /\ r \in P /\ M \subseteq N \cup {n}
        BY <2>6, <3>1, <3>3 DEF OncePerLoss
      <3>5. Cardinality(N) + Cardinality(P) <= faults + 1
        BY <1>3, <2>6 DEF OncePerLoss
      <3>6. faults \in Nat /\ faults' = faults
        BY <2>2, PipelineAssumption DEF TypeOK
      <3>7. Exists(k)' /\ Numbers(clips'[k]) = Numbers(clips[k]) /\ clips'[k] = clips[k]
        BY <2>2 DEF Exists, TypeOK, Numbers
      <3> HIDE DEF N, M, P, Q
      <3>8. /\ Cardinality(N) \in Nat /\ IsFiniteSet(M)
            /\ Cardinality(M) \in Nat /\ Cardinality(M) <= Cardinality(N) + 1
        BY <3>4, Sizes
      <3>9. /\ Cardinality(P) \in Nat /\ IsFiniteSet(Q)
            /\ Cardinality(Q) \in Nat /\ Cardinality(Q) + 1 <= Cardinality(P)
        BY <3>4, Sizes
      <3>10. Cardinality(M) + Cardinality(Q) <= faults' + 1
        BY <3>5, <3>6, <3>8, <3>9
      <3> QED BY <1>3, <2>6, <3>2, <3>6, <3>7, <3>8, <3>9, <3>10 DEF OncePerLoss, M, Q
    <2>10. RowsFollow(k)'
      <3>1. ASSUME NEW p \in LiveOf(k)' PROVE Follows(p, k)'
        <4>1. p \in LiveOf(k) /\ rq'[p].seen = rq[p].seen /\ rq'[p].todo = rq[p].todo
          BY <1>1, <1>k, <2>3, <3>1 DEF LiveOf, Live
        <4>2. Follows(p, k)
          BY <1>3, <2>6, <4>1 DEF RowsFollow
        <4> QED BY <2>2, <2>8, <4>1, <4>2 DEF Follows
      <3>2. transcript'[k] /\ Exists(k)'
        BY <2>2, <2>5 DEF Exists, TypeOK
      <3> QED BY <3>1, <3>2 DEF RowsFollow
    <2>11. ASSUME NEW j \in Jobs \ {k} PROVE OncePerLoss(j)' /\ RowsFollow(j)'
      <3>1. SameRows(j)
        BY <2>1, <2>2 DEF SameRows, AllCandidates, Exists, TypeOK
      <3> QED BY <1>1, <1>k, <2>2, <2>3, <3>1, PaidElsewhere
    <2> QED BY <2>9, <2>10, <2>11 DEF Paid
  <1> QED BY <1>2, <1>3

LEMMA PaidCommitScores ==
  ASSUME TypeInv, OrderInv, Paid, NEW r \in RqIds, CommitScores(r)
  PROVE  Paid'
  <1> USE DEF TypeInv
  <1>1. Live(r) /\ rq[r].job \in Jobs /\ rq[r] \in RqJob
    BY LiveRun DEF TypeOK, RqOK, CommitScores, At, Live
  <1>k. PICK k \in Jobs : rq[r].job = k
    BY <1>1
  <1>2. CASE ~Exists(k)
    BY <1>1, <1>2, <1>k, PaidRaise DEF CommitScores, CommitFails, At, rows
  <1>3. CASE Exists(k)
    <2> DEFINE cs == rq[r].seen
    <2>1. PICK S \in Selections(cs) :
            /\ pending' = [pending EXCEPT ![k] = @ \ cs]
            /\ selected' = [selected EXCEPT ![k] = (@ \ cs) \cup S]
            /\ rejected' = [rejected EXCEPT ![k] = (@ \cup cs) \ S]
            /\ clips' = [clips EXCEPT ![k] = @ \cup (S \X {Cardinality(clips[k])})]
            /\ rq' = [rq EXCEPT ![r].pc = "enqueue", ![r].todo = S]
      BY <1>3, <1>k DEF CommitScores
    <2> DEFINE n == Cardinality(clips[k])
    <2>2. status' = [status EXCEPT ![k] = "scored"] /\ UNCHANGED <<transcript, faults>>
      BY <1>3, <1>k DEF CommitScores
    <2>3. /\ \A p \in RqIds \ {r} : rq'[p] = rq[p]
          /\ rq'[r].job = k /\ rq'[r].pc = "enqueue" /\ rq[r].pc = "work"
          /\ rq'[r].stage = "scoring" /\ rq[r].stage = "scoring"
          /\ rq'[r].seen = rq[r].seen /\ rq'[r].todo = S
      BY <1>1, <1>3, <1>k, <2>1 DEF CommitScores, At, TypeOK, RqJob
    <2>4. r \in LiveOf(k)
      BY <1>1, <1>k DEF LiveOf
    <2>5. transcript[k]
      BY <1>3, <2>3, <2>4 DEF OrderInv, ReadersFindTranscript, ReadsTranscript
    <2>6. OncePerLoss(k) /\ RowsFollow(k)
      BY DEF Paid
    <2>7. S \subseteq cs /\ Cardinality(S) <= MaxClips /\ cs \subseteq AllCandidates(k)
      BY <1>3, <2>1, <2>4, <2>6 DEF Selections, RowsFollow, Follows
    <2>8. AllCandidates(k)' = AllCandidates(k)
      BY <2>1, <2>7 DEF AllCandidates, TypeOK
    <2>9. clips'[k] = clips[k] \cup (S \X {n})
      BY <2>1 DEF TypeOK
    <2>10. IsFiniteSet(S)
      BY <2>7, FS_Subset DEF Finite
    <2> HIDE DEF n, cs
    <2>11. OncePerLoss(k)'
      <3>1. ToChoose(k)' \subseteq ToChoose(k) \ {r} /\ r \in ToChoose(k)
        <4>1. \A p \in RqIds \ {r} : p \in ToChoose(k)' => p \in ToChoose(k)
          BY <2>3 DEF ToChoose, LiveOf, Live, MayChoose, At
        <4>2. r \notin ToChoose(k)' /\ r \in ToChoose(k)
          BY <2>3, <2>4 DEF ToChoose, MayChoose, At
        <4> QED BY <4>1, <4>2 DEF ToChoose, LiveOf
      <3>2. ToPropose(k)' = ToPropose(k)
        <4>1. \A p \in RqIds \ {r} : p \in ToPropose(k)' <=> p \in ToPropose(k)
          BY <2>3 DEF ToPropose, LiveOf, Live, MayPropose, At
        <4>2. r \notin ToPropose(k)' /\ r \notin ToPropose(k)
          BY <2>3 DEF ToPropose, MayPropose, At
        <4> QED BY <4>1, <4>2 DEF ToPropose, LiveOf
      <3>3. Numbers(clips'[k]) \subseteq Numbers(clips[k]) \cup {n}
        BY <2>9 DEF Numbers
      <3>f. faults \in Nat /\ faults' = faults /\ MaxClips \in Nat /\ faults + 1 \in Nat
        BY <2>2, PipelineAssumption DEF TypeOK
      <3> DEFINE N == Numbers(clips[k])
                 M == Numbers(clips'[k])
                 P == ToChoose(k)
                 Q == ToChoose(k)'
                 B == clips[k]
                 C == clips'[k]
                 T == S \X {n}
                 m == MaxClips
                 g == faults + 1
      <3>4. /\ IsFiniteSet(N) /\ IsFiniteSet(P) /\ Q \subseteq P \ {r} /\ r \in P
            /\ M \subseteq N \cup {n} /\ IsFiniteSet(B) /\ C = B \cup T
        BY <2>6, <2>9, <3>1, <3>3 DEF OncePerLoss, Finite
      <3>5. /\ Cardinality(N) + Cardinality(P) <= g
            /\ Cardinality(B) + Cardinality(P) * m <= g * m
        BY <1>3, <2>6 DEF OncePerLoss
      <3>6. m \in Nat /\ g \in Nat
        BY <3>f
      <3>7. Exists(k)'
        BY <2>2 DEF Exists, TypeOK
      <3>8. /\ Cardinality(Numbers(AllCandidates(k))) + Cardinality(ToPropose(k)') <= faults' + 1
            /\ IsFiniteSet(Numbers(AllCandidates(k))) /\ IsFiniteSet(ToPropose(k)')
        BY <1>3, <2>6, <3>2, <3>f DEF OncePerLoss
      <3>9. IsFiniteSet(T) /\ Cardinality(T) <= m /\ Cardinality(T) \in Nat
        <4>1. IsFiniteSet({n}) /\ Cardinality({n}) = 1
          BY FS_Singleton
        <4>2. IsFiniteSet(T) /\ Cardinality(T) = Cardinality(S) * 1
          BY <2>10, <4>1, FS_Product
        <4>3. Cardinality(S) \in Nat
          BY <2>10, FS_CardinalityType
        <4> QED BY <2>7, <4>2, <4>3
      <3> HIDE DEF N, M, P, Q, B, C, T, m, g
      <3>10. /\ Cardinality(N) \in Nat /\ IsFiniteSet(M)
             /\ Cardinality(M) \in Nat /\ Cardinality(M) <= Cardinality(N) + 1
        BY <3>4, Sizes
      <3>11. /\ Cardinality(P) \in Nat /\ IsFiniteSet(Q)
             /\ Cardinality(Q) \in Nat /\ Cardinality(Q) + 1 <= Cardinality(P)
        BY <3>4, Sizes
      <3>12. Cardinality(M) + Cardinality(Q) <= g
        BY <3>5, <3>6, <3>10, <3>11
      <3>13. Cardinality(C) \in Nat /\ Cardinality(B) \in Nat /\ Cardinality(C) <= Cardinality(B) + m
        <4>1. /\ IsFiniteSet(B \cup T)
              /\ Cardinality(B \cup T) = Cardinality(B) + Cardinality(T) - Cardinality(B \cap T)
          BY <3>4, <3>9, FS_Union
        <4>2. IsFiniteSet(B \cap T)
          BY <3>4, FS_Subset
        <4>3. Cardinality(B \cap T) \in Nat /\ Cardinality(B) \in Nat /\ Cardinality(C) \in Nat
          BY <3>4, <4>1, <4>2, FS_CardinalityType
        <4> QED BY <3>4, <3>6, <3>9, <4>1, <4>3
      <3>14. Cardinality(C) + Cardinality(Q) * m <= g * m
        <4>1. Cardinality(Q) * m + m <= Cardinality(P) * m
          BY <3>6, <3>11, Products
        <4>2. Cardinality(Q) * m \in Nat /\ Cardinality(P) * m \in Nat /\ g * m \in Nat
          BY <3>6, <3>11, Products
        <4> QED BY <3>5, <3>6, <3>13, <4>1, <4>2
      <3> QED BY <2>8, <3>7, <3>8, <3>10, <3>11, <3>12, <3>14, <3>f DEF OncePerLoss, M, Q, C, g, m
    <2>12. RowsFollow(k)'
      <3>1. ASSUME NEW p \in LiveOf(k)' PROVE Follows(p, k)'
        <4>1. p \in LiveOf(k) /\ rq'[p].seen = rq[p].seen
          BY <1>1, <1>k, <2>3, <3>1 DEF LiveOf, Live
        <4>2. Follows(p, k)
          BY <1>3, <2>6, <4>1 DEF RowsFollow
        <4>3. CASE p = r
          <5>1. \A c \in S : <<c, n>> \in clips'[k] /\ <<c, n>>[1] = c
            BY <2>9
          <5>2. rq'[r].todo \subseteq {c[1] : c \in clips'[k]}
            BY <2>3, <5>1
          <5> QED BY <2>8, <4>1, <4>2, <4>3, <5>2 DEF Follows
        <4>4. CASE p # r
          <5>1. rq'[p].todo = rq[p].todo
            BY <2>3, <4>1, <4>4 DEF LiveOf
          <5> QED BY <2>8, <2>9, <4>1, <4>2, <5>1 DEF Follows
        <4> QED BY <4>3, <4>4
      <3>2. transcript'[k] /\ Exists(k)'
        BY <2>2, <2>5 DEF Exists, TypeOK
      <3> QED BY <3>1, <3>2 DEF RowsFollow
    <2>13. ASSUME NEW j \in Jobs \ {k} PROVE OncePerLoss(j)' /\ RowsFollow(j)'
      <3>1. SameRows(j)
        BY <2>1, <2>2 DEF SameRows, AllCandidates, Exists, TypeOK
      <3> QED BY <1>1, <1>k, <2>2, <2>3, <3>1, PaidElsewhere
    <2> QED BY <2>11, <2>12, <2>13 DEF Paid
  <1> QED BY <1>2, <1>3

(* Requests let the runs be, or add one of ingest.                          *)
LEMMA PaidIdle ==
  ASSUME TypeInv, NEW j \in Jobs, OncePerLoss(j), RowsFollow(j), SameRows(j),
         faults' \in {faults, faults + 1},
         ToPropose(j)' \subseteq ToPropose(j), ToChoose(j)' \subseteq ToChoose(j),
         \A p \in LiveOf(j)' : \/ p \in LiveOf(j) /\ rq'[p] = rq[p]
                               \/ rq'[p].seen = {} /\ rq'[p].todo = {}
  PROVE  OncePerLoss(j)' /\ RowsFollow(j)'
  <1>1. OncePerLoss(j)'
    <2>1. \/ faults' = faults + 1 /\ ToPropose(j)' \subseteq ToPropose(j) \cup {0}
          \/ faults' = faults /\ ToPropose(j)' \subseteq ToPropose(j)
      OBVIOUS
    <2>2. \/ faults' = faults + 1 /\ ToChoose(j)' \subseteq ToChoose(j) \cup {0}
          \/ faults' = faults /\ ToChoose(j)' \subseteq ToChoose(j)
      OBVIOUS
    <2>3. faults \in Nat /\ IsFiniteSet(clips[j])
      BY PipelineAssumption DEF TypeInv, TypeOK, Finite
    <2> QED BY <2>1, <2>2, <2>3, RunsChange DEF SameRows
  <1>2. RowsFollow(j)'
    <2>1. ASSUME Exists(j)', NEW p \in LiveOf(j)' PROVE Follows(p, j)'
      <3>1. CASE p \in LiveOf(j) /\ rq'[p] = rq[p]
        <4>1. Follows(p, j)
          BY <2>1, <3>1 DEF RowsFollow, SameRows
        <4> QED BY <3>1, <4>1 DEF Follows, SameRows
      <3>2. CASE rq'[p].seen = {} /\ rq'[p].todo = {}
        BY <3>2 DEF Follows
      <3> QED BY <3>1, <3>2
    <2> QED BY <2>1 DEF RowsFollow, SameRows
  <1> QED BY <1>1, <1>2

(* A job that has neither rows nor runs.                                    *)
LEMMA PaidBlank ==
  ASSUME NEW j \in Jobs, ToPropose(j)' = {}, ToChoose(j)' = {}, AllCandidates(j)' = {}, clips'[j] = {},
         ~transcript'[j], LiveOf(j)' = {}, faults' \in Nat
  PROVE  OncePerLoss(j)' /\ RowsFollow(j)'
  <1>1. IsFiniteSet({}) /\ Cardinality({}) = 0
    BY FS_EmptySet
  <1>2. Numbers(AllCandidates(j)') = {} /\ Numbers(clips'[j]) = {}
    BY DEF Numbers
  <1> DEFINE f == faults'
             m == MaxClips
  <1>3. m \in Nat /\ f \in Nat
    BY PipelineAssumption
  <1>4. f + 1 \in Nat /\ 0 + 0 * m <= (f + 1) * m
    <2> HIDE DEF f, m
    <2>1. 0 * m = 0 /\ (f + 1) * m = f * m + m /\ f * m \in Nat
      BY <1>3, Products
    <2> QED BY <1>3, <2>1
  <1>5. OncePerLoss(j)'
    <2>1. /\ Cardinality(Numbers(AllCandidates(j)')) = 0 /\ Cardinality(Numbers(clips'[j])) = 0
          /\ Cardinality(ToPropose(j)') = 0 /\ Cardinality(ToChoose(j)') = 0 /\ Cardinality(clips'[j]) = 0
      BY <1>1, <1>2, Zenon
    <2>2. 0 + 0 <= f + 1
      <3> HIDE DEF f
      <3> QED BY <1>4
    <2>3. /\ IsFiniteSet(Numbers(AllCandidates(j)')) /\ IsFiniteSet(Numbers(clips'[j]))
          /\ IsFiniteSet(ToPropose(j)') /\ IsFiniteSet(ToChoose(j)')
      BY <1>1, <1>2
    <2>4. Cardinality(clips'[j]) + Cardinality(ToChoose(j)') * MaxClips <= (faults' + 1) * MaxClips
      BY <1>4, <2>1
    <2> QED BY <2>1, <2>2, <2>3, <2>4 DEF OncePerLoss, Numbers
  <1> QED BY <1>5 DEF RowsFollow

LEMMA PaidApi ==
  ASSUME TypeInv, OrderInv, Paid, NEW k \in Jobs, ApiStep(k)
  PROVE  Paid'
  <1> USE DEF TypeInv
  <1> SUFFICES ASSUME NEW j \in Jobs PROVE OncePerLoss(j)' /\ RowsFollow(j)'
    BY DEF Paid
  <1>1. OncePerLoss(j) /\ RowsFollow(j)
    BY DEF Paid
  <1>f. faults \in Nat
    BY PipelineAssumption DEF TypeOK
  <1>2. ASSUME rq' = rq, SameRows(j), faults' \in {faults, faults + 1}
        PROVE  OncePerLoss(j)' /\ RowsFollow(j)'
    <2>1. LiveOf(j)' = LiveOf(j) /\ ToPropose(j)' = ToPropose(j) /\ ToChoose(j)' = ToChoose(j)
      BY <1>2 DEF LiveOf, Live, ToPropose, ToChoose, MayPropose, MayChoose, At
    <2> QED BY <1>1, <1>2, <2>1, PaidIdle
  <1>3. CASE CreateJob(k)
    <2>1. /\ UNCHANGED <<rq, rows, faults>> /\ status[k] = "absent"
          /\ status' = [status EXCEPT ![k] = "queued"]
      BY <1>3 DEF CreateJob
    <2>2. CASE j = k
      <3>1. LiveOf(k) = {}
        BY <2>1 DEF OrderInv, AbsentIsIdle
      <3>2. LiveOf(k)' = {} /\ ToPropose(k)' = {} /\ ToChoose(k)' = {}
        BY <2>1, <3>1 DEF LiveOf, Live, ToPropose, ToChoose
      <3>3. ~transcript[k] /\ AllCandidates(k) = {} /\ clips[k] = {}
        BY <1>1, <2>1, <2>2 DEF RowsFollow, Exists
      <3>4. ~transcript'[k] /\ AllCandidates(k)' = {} /\ clips'[k] = {} /\ faults' \in Nat
        BY <1>f, <2>1, <3>3 DEF rows, AllCandidates
      <3> QED BY <2>2, <3>2, <3>4, PaidBlank
    <2>3. CASE j # k
      <3>1. SameRows(j)
        BY <2>1, <2>3 DEF SameRows, rows, AllCandidates, Exists, TypeOK
      <3> QED BY <1>2, <2>1, <3>1
    <2> QED BY <2>2, <2>3
  <1>4. CASE EnqueueIngest(k)
    <2>1. PICK r \in RqIds : ~Live(r) /\ rq' = [rq EXCEPT ![r] = NewRqJob(k, "ingest")]
      BY <1>4 DEF EnqueueIngest, EnqueueInto
    <2>2. UNCHANGED <<status, rows, faults>>
      BY <1>4 DEF EnqueueIngest
    <2>3. \A p \in RqIds \ {r} : rq'[p] = rq[p]
      BY <2>1 DEF TypeOK
    <2>4. rq'[r].pc = "queued" /\ rq'[r].stage = "ingest" /\ rq'[r].seen = {} /\ rq'[r].todo = {}
      BY <2>1 DEF TypeOK, NewRqJob, Unused
    <2>5. SameRows(j)
      BY <2>2 DEF SameRows, rows, AllCandidates, Exists
    <2>6. ~MayPropose(r)' /\ ~MayChoose(r)'
      BY <2>4 DEF MayPropose, MayChoose, At
    <2>7. \A p \in RqIds \ {r} : /\ p \in LiveOf(j)' <=> p \in LiveOf(j)
                                 /\ MayPropose(p)' <=> MayPropose(p)
                                 /\ MayChoose(p)' <=> MayChoose(p)
      BY <2>3 DEF LiveOf, Live, MayPropose, MayChoose, At
    <2>8. ToPropose(j)' \subseteq ToPropose(j) /\ ToChoose(j)' \subseteq ToChoose(j)
      BY <2>6, <2>7 DEF ToPropose, ToChoose, LiveOf
    <2>9. \A p \in LiveOf(j)' : \/ p \in LiveOf(j) /\ rq'[p] = rq[p]
                                \/ rq'[p].seen = {} /\ rq'[p].todo = {}
      BY <2>3, <2>4, <2>7 DEF LiveOf
    <2> QED BY <1>1, <2>2, <2>5, <2>8, <2>9, PaidIdle
  <1>5. CASE CancelCheck(k) \/ DeleteFiles(k) \/ RequestDies(k)
    <2>1. UNCHANGED <<status, rows, rq>> /\ faults' \in {faults, faults + 1}
      BY <1>5 DEF CancelCheck, DeleteFiles, RequestDies
    <2>2. SameRows(j)
      BY <2>1 DEF SameRows, rows, AllCandidates, Exists
    <2> QED BY <1>2, <2>1, <2>2
  <1>6. CASE CancelWrite(k)
    <2>1. UNCHANGED <<rows, rq, faults>>
      BY <1>6 DEF CancelWrite
    <2>2. SameRows(j)
      BY <1>6 DEF CancelWrite, SameRows, rows, AllCandidates, Exists, TypeOK
    <2> QED BY <1>2, <2>1, <2>2
  <1>7. CASE DeleteRows(k)
    <2>1. /\ UNCHANGED <<rq, faults>> /\ status' = [status EXCEPT ![k] = "deleted"]
          /\ transcript' = [transcript EXCEPT ![k] = FALSE]
          /\ pending' = [pending EXCEPT ![k] = {}]
          /\ selected' = [selected EXCEPT ![k] = {}]
          /\ rejected' = [rejected EXCEPT ![k] = {}]
          /\ clips' = [clips EXCEPT ![k] = {}]
      BY <1>7 DEF DeleteRows
    <2>2. CASE j # k
      <3>1. SameRows(j)
        BY <2>1, <2>2 DEF SameRows, AllCandidates, Exists, TypeOK
      <3> QED BY <1>2, <2>1, <3>1
    <2>3. CASE j = k
      <3>1. ~transcript'[k] /\ AllCandidates(k)' = {} /\ clips'[k] = {} /\ ~Exists(k)'
        BY <2>1 DEF AllCandidates, Exists, TypeOK
      <3>2. ToPropose(k)' = ToPropose(k) /\ ToChoose(k)' = ToChoose(k)
        BY <2>1 DEF LiveOf, Live, ToPropose, ToChoose, MayPropose, MayChoose, At
      <3>3. Numbers(AllCandidates(k)') = {} /\ Numbers(clips'[k]) = {} /\ IsFiniteSet({})
        BY <3>1, FS_EmptySet DEF Numbers
      <3>4. OncePerLoss(k)'
        BY <1>1, <2>3, <3>1, <3>2, <3>3 DEF OncePerLoss
      <3> QED BY <2>3, <3>1, <3>4 DEF RowsFollow
    <2> QED BY <2>2, <2>3
  <1> QED BY <1>3, <1>4, <1>5, <1>6, <1>7 DEF ApiStep

LEMMA PaidNext == TypeInv /\ OrderInv /\ Paid /\ [Next]_vars => Paid'
  <1> SUFFICES ASSUME TypeInv, OrderInv, Paid, [Next]_vars PROVE Paid'
    OBVIOUS
  <1>1. CASE UNCHANGED vars
    BY <1>1 DEF vars, rows, Paid, OncePerLoss, RowsFollow, Follows, ToPropose, ToChoose, MayPropose,
                MayChoose, At, LiveOf, Live, AllCandidates, Exists, Numbers
  <1>2. ASSUME NEW k \in Jobs, ApiStep(k) PROVE Paid'
    BY <1>2, PaidApi
  <1>3. ASSUME NEW r \in RqIds, WorkerStep(r) \/ Interrupted(r) PROVE Paid'
    BY <1>3, PaidQuiet, PaidEnqueue, PaidCommitTranscript, PaidCommitCandidates, PaidCommitScores
    DEF WorkerStep, Ingest, Transcription, Segmentation, Scoring
  <1> QED BY <1>1, <1>2, <1>3 DEF Next

LEMMA PaidInit == Init => Paid
  <1> SUFFICES ASSUME Init, NEW j \in Jobs PROVE OncePerLoss(j) /\ RowsFollow(j)
    BY DEF Paid
  <1>1. LiveOf(j) = {} /\ ToPropose(j) = {} /\ ToChoose(j) = {} /\ AllCandidates(j) = {} /\ clips[j] = {}
        /\ ~transcript[j] /\ ~Exists(j)
    BY DEF Init, LiveOf, Live, Unused, ToPropose, ToChoose, AllCandidates, Exists
  <1>2. Numbers(AllCandidates(j)) = {} /\ Numbers(clips[j]) = {} /\ IsFiniteSet({})
    BY <1>1, FS_EmptySet DEF Numbers
  <1> QED BY <1>1, <1>2 DEF OncePerLoss, RowsFollow

-----------------------------------------------------------------------------
(* What has ended stays ended: while nothing is interrupted, and on_failure *)
(* waits for the last attempt, no run is at work on a job that is scored or *)
(* has failed.  And no rendering is asked for before there is a job.        *)
Ended == {"scored"} \cup HasFailed
OutcomeStands(j) == status[j] \in Ended => <<"create", j>> \notin api /\ Working(j) = {}
Outcomes == \A j \in Jobs : OutcomeStands(j)
NothingAsked == \A j \in Jobs : status[j] = "absent" => renders[j] = {}

LEMMA NotEnded ==
  /\ \A st \in {"absent", "queued", "cancelled", "deleted", "ingested", "transcribed", "segmented"} : st \notin Ended
  /\ \A s \in Stages : Doing[s] \notin Ended
  BY DEF Ended, HasFailed, Stages, Doing, Failed

LEMMA OutcomeRun ==
  ASSUME Chains, Outcomes, NEW r \in RqIds, NEW k \in Jobs, Live(r), rq[r].job = k,
         \A p \in RqIds \ {r} : rq'[p] = rq[p], Live(r)' => rq'[r].job = k, api' = api,
         \A j \in Jobs \ {k} : status'[j] = status[j],
         r \in Working(k)' => r \in Working(k),
         \/ status'[k] = status[k]
         \/ status'[k] \notin Ended
         \/ r \in Working(k) /\ r \notin Working(k)'
  PROVE  Outcomes'
  <1> SUFFICES ASSUME NEW j \in Jobs PROVE OutcomeStands(j)'
    BY DEF Outcomes
  <1>1. OutcomeStands(j) /\ Chain(j)
    BY DEF Outcomes, Chains
  <1>2. \A p \in RqIds \ {r} : p \in Working(j)' => p \in Working(j)
    BY DEF Working, LiveOf, Live, At
  <1>3. r \in Working(j)' => r \in Working(j)
    BY DEF Working, LiveOf
  <1>4. Working(j)' \subseteq Working(j)
    BY <1>2, <1>3 DEF Working, LiveOf
  <1>5. CASE status'[j] = status[j]
    BY <1>1, <1>4, <1>5 DEF OutcomeStands
  <1>6. CASE status'[j] \notin Ended
    BY <1>6 DEF OutcomeStands
  <1>7. CASE j = k /\ r \in Working(k) /\ r \notin Working(k)'
    <2>1. Working(j) = {r} /\ <<"create", j>> \notin api
      BY <1>1, <1>7 DEF Chain
    <2>2. Working(j)' = {}
      BY <1>4, <1>7, <2>1
    <2> QED BY <2>1, <2>2 DEF OutcomeStands
  <1> QED BY <1>5, <1>6, <1>7

LEMMA OutcomeRaise ==
  ASSUME ~EagerCallback, TypeInv, Chains, Outcomes, NEW r \in RqIds, Live(r), Raise(r),
         rq[r].pc \in {"fetch", "work", "commit"}, api' = api
  PROVE  Outcomes'
  <1> USE DEF TypeInv, TypeOK
  <1>1. rq[r].stage \in Stages /\ rq[r] \in RqJob
    BY LiveRun DEF RqOK
  <1>k. PICK k \in Jobs : rq[r].job = k
    BY LiveRun DEF RqOK
  <1>2. /\ \A p \in RqIds \ {r} : rq'[p] = rq[p]
        /\ Live(r)' => rq'[r].job = k
        /\ \A j \in Jobs \ {k} : status'[j] = status[j]
        /\ r \in Working(k)
    BY <1>1, <1>k DEF Raise, Finish, Live, Unused, RqJob, MarkFailed, Working, LiveOf, At
  <1>3. CASE rq[r].left > 0
    <2>1. status' = status
      BY <1>1, <1>3 DEF Raise, RqJob
    <2> QED BY <1>k, <1>2, <2>1, OutcomeRun
  <1>4. CASE ~(rq[r].left > 0)
    <2>1. r \notin Working(k)'
      BY <1>4 DEF Raise, Finish, Unused, Working, LiveOf, Live
    <2> QED BY <1>k, <1>2, <2>1, OutcomeRun
  <1> QED BY <1>3, <1>4

LEMMA OutcomeQuiet ==
  ASSUME ~EagerCallback, TypeInv, Chains, Outcomes, NEW r \in RqIds,
         \/ RunRetry(r) \/ Dequeue(r) \/ Begin(r) \/ Fetch(r) \/ InputGone(r) \/ StageFails(r) \/ Ack(r)
         \/ PutAudio(r) \/ Listen(r) \/ CommitIngest(r) \/ CommitTranscript(r) \/ CommitCandidates(r)
         \/ CommitScores(r) \/ EnqueueRendering(r)
  PROVE  Outcomes'
  <1> USE DEF TypeInv
  <1>1. Live(r) /\ rq[r].job \in Jobs /\ rq[r].stage \in Stages /\ rq[r] \in RqJob
    BY LiveRun
    DEF TypeOK, RqOK, RunRetry, Dequeue, Begin, Fetch, InputGone, StageFails, Ack, PutAudio, Listen,
        CommitIngest, CommitTranscript, CommitCandidates, CommitScores, EnqueueRendering, At, Live
  <1>k. PICK k \in Jobs : rq[r].job = k
    BY <1>1
  <1>2. api' = api
    BY DEF RunRetry, Dequeue, Begin, Fetch, InputGone, StageFails, Ack, PutAudio, Listen, CommitIngest,
           CommitTranscript, CommitCandidates, CommitScores, EnqueueRendering
  <1>3. ASSUME Finish(r), \/ status'[k] = status[k] \/ r \in Working(k),
               \A j \in Jobs \ {k} : status'[j] = status[j]
        PROVE  Outcomes'
    <2>1. (\A p \in RqIds \ {r} : rq'[p] = rq[p]) /\ ~Live(r)' /\ r \notin Working(k)'
      BY <1>3 DEF Finish, Unused, Live, Working, LiveOf, TypeOK
    <2> QED BY <1>1, <1>2, <1>3, <1>k, <2>1, OutcomeRun
  <1>4. CASE RunRetry(r) \/ Dequeue(r) \/ Fetch(r) \/ Ack(r) \/ PutAudio(r) \/ Listen(r) \/ EnqueueRendering(r)
    <2>1. status' = status
      BY <1>4 DEF RunRetry, Dequeue, Fetch, Ack, PutAudio, Listen, EnqueueRendering
    <2>2. /\ \A p \in RqIds \ {r} : rq'[p] = rq[p]
          /\ Live(r)' => rq'[r].job = k
      BY <1>1, <1>k, <1>4 DEF RunRetry, Dequeue, Fetch, Ack, PutAudio, Listen, EnqueueRendering, Goto, Finish,
                              Live, Unused, TypeOK, RqJob
    <2>3. r \in Working(k)' => r \in Working(k)
      BY <1>1, <1>k, <1>4 DEF RunRetry, Dequeue, Fetch, Ack, PutAudio, Listen, EnqueueRendering, Goto, Finish,
                              Live, Unused, TypeOK, RqJob, Working, LiveOf, At
    <2> QED BY <1>1, <1>2, <1>k, <2>1, <2>2, <2>3, OutcomeRun
  <1>5. CASE Begin(r)
    <2>1. CASE Exists(k)
      <3>1. /\ \A p \in RqIds \ {r} : rq'[p] = rq[p]
            /\ rq'[r].job = k /\ rq[r].pc = "begin"
            /\ \A j \in Jobs \ {k} : status'[j] = status[j]
            /\ status'[k] \notin Ended
        BY <1>1, <1>k, <1>5, <2>1, NotEnded DEF Begin, TypeOK, RqJob
      <3>2. r \in Working(k)
        BY <1>1, <1>k, <3>1 DEF Working, LiveOf, At
      <3> QED BY <1>1, <1>2, <1>k, <3>1, <3>2, OutcomeRun
    <2>2. CASE ~Exists(k)
      BY <1>3, <1>k, <1>5, <2>2 DEF Begin
    <2> QED BY <2>1, <2>2
  <1>6. CASE InputGone(r)
    BY <1>1, <1>2, <1>6, OutcomeRaise DEF InputGone
  <1>7. CASE StageFails(r)
    <2>1. Finish(r) /\ rq[r].pc \in {"fetch", "work"} /\ \A j \in Jobs \ {k} : status'[j] = status[j]
      BY <1>k, <1>7 DEF StageFails, MarkFailed, TypeOK
    <2>2. r \in Working(k)
      BY <1>1, <1>k, <2>1 DEF Working, LiveOf, At
    <2> QED BY <1>3, <2>1, <2>2
  <1>8. CASE CommitIngest(r) \/ CommitTranscript(r) \/ CommitCandidates(r)
    <2>1. CASE Raise(r)
      <3>1. rq[r].pc \in {"fetch", "work", "commit"}
        BY <1>8 DEF CommitIngest, CommitTranscript, CommitCandidates, At
      <3> QED BY <1>1, <1>2, <2>1, <3>1, OutcomeRaise
    <2>2. CASE ~Raise(r)
      <3>1. Goto(r, "enqueue") /\ rq[r].pc \in {"work", "commit"} /\ rq[r].stage # "scoring"
        BY <1>8, <2>2 DEF CommitIngest, CommitTranscript, CommitCandidates, CommitFails, At
      <3>2. \E st \in {"ingested", "transcribed", "segmented"} : status' = [status EXCEPT ![k] = st]
        BY <1>k, <1>8, <2>2 DEF CommitIngest, CommitTranscript, CommitCandidates, CommitFails
      <3>3. status'[k] \notin Ended /\ \A j \in Jobs \ {k} : status'[j] = status[j]
        BY <3>2, NotEnded DEF TypeOK
      <3>4. (\A p \in RqIds \ {r} : rq'[p] = rq[p]) /\ rq'[r].job = k
        BY <1>1, <1>k, <3>1 DEF Goto, TypeOK, RqJob
      <3>5. r \in Working(k)
        BY <1>1, <1>k, <3>1 DEF Working, LiveOf, At
      <3> QED BY <1>1, <1>2, <1>k, <3>3, <3>4, <3>5, OutcomeRun
    <2> QED BY <2>1, <2>2
  <1>9. CASE CommitScores(r)
    <2>1. rq[r].pc = "work" /\ r \in Working(k)
      BY <1>1, <1>k, <1>9 DEF CommitScores, Working, LiveOf, At
    <2>2. CASE Exists(k)
      <3>1. /\ \A p \in RqIds \ {r} : rq'[p] = rq[p]
            /\ rq'[r].job = k /\ rq'[r].pc = "enqueue" /\ rq'[r].stage = "scoring"
            /\ \A j \in Jobs \ {k} : status'[j] = status[j]
        BY <1>1, <1>k, <1>9, <2>2 DEF CommitScores, At, TypeOK, RqJob
      <3>2. r \notin Working(k)'
        BY <3>1 DEF Working, At
      <3> QED BY <1>1, <1>2, <1>k, <2>1, <3>1, <3>2, OutcomeRun
    <2>3. CASE ~Exists(k)
      BY <1>1, <1>2, <1>k, <1>9, <2>1, <2>3, OutcomeRaise DEF CommitScores, CommitFails
    <2> QED BY <2>2, <2>3
  <1> QED BY <1>4, <1>5, <1>6, <1>7, <1>8, <1>9

LEMMA OutcomeEnqueue ==
  ASSUME TypeInv, Outcomes, NEW r \in RqIds,
         EnqueueTranscription(r) \/ EnqueueSegmentation(r) \/ EnqueueScoring(r)
  PROVE  Outcomes'
  <1> USE DEF TypeInv
  <1>1. /\ Live(r) /\ UNCHANGED <<status, api>>
        /\ rq[r].pc = "enqueue" /\ rq[r].stage # "scoring"
    BY DEF EnqueueTranscription, EnqueueSegmentation, EnqueueScoring, At, Live
  <1>2. PICK s \in Stages : EnqueueNext(r, s)
    BY DEF EnqueueTranscription, EnqueueSegmentation, EnqueueScoring, Stages
  <1>k. PICK k \in Jobs : rq[r].job = k
    BY <1>1, LiveRun DEF TypeOK, RqOK
  <1>3. PICK q \in RqIds \ {r} :
          /\ rq'[q] = NewRqJob(k, s)
          /\ rq'[r] = [rq[r] EXCEPT !.pc = "ack"]
          /\ \A p \in RqIds \ {q, r} : rq'[p] = rq[p]
    BY <1>1, <1>2, <1>k, EnqueueTouches
  <1>4. r \in Working(k) /\ rq[r] \in RqJob
    BY <1>1, <1>k DEF Working, LiveOf, At, TypeOK
  <1>5. rq'[r].pc = "ack" /\ rq'[q].job = k
    BY <1>3, <1>4 DEF RqJob, NewRqJob, Unused
  <1> SUFFICES ASSUME NEW j \in Jobs PROVE OutcomeStands(j)'
    BY DEF Outcomes
  <1>6. OutcomeStands(j)
    BY DEF Outcomes
  <1>7. CASE j = k
    BY <1>1, <1>4, <1>6, <1>7 DEF OutcomeStands
  <1>8. CASE j # k
    <2>1. Working(j)' \subseteq Working(j)
      BY <1>3, <1>5, <1>8 DEF Working, LiveOf, Live, At
    <2> QED BY <1>1, <1>6, <2>1 DEF OutcomeStands
  <1> QED BY <1>7, <1>8

LEMMA OutcomeApi ==
  ASSUME TypeInv, Outcomes, NEW k \in Jobs, ApiStep(k)
  PROVE  Outcomes'
  <1> USE DEF TypeInv
  <1> SUFFICES ASSUME NEW j \in Jobs PROVE OutcomeStands(j)'
    BY DEF Outcomes
  <1>1. OutcomeStands(j)
    BY DEF Outcomes
  <1>2. CASE EnqueueIngest(k)
    <2>1. PICK r \in RqIds : rq' = [rq EXCEPT ![r] = NewRqJob(k, "ingest")]
      BY <1>2 DEF EnqueueIngest, EnqueueInto
    <2>2. /\ UNCHANGED status
          /\ <<"create", k>> \in api /\ api' = api \ {<<"create", k>>}
      BY <1>2 DEF EnqueueIngest
    <2>3. (\A p \in RqIds \ {r} : rq'[p] = rq[p]) /\ rq'[r].job = k
      BY <2>1 DEF TypeOK, NewRqJob, Unused
    <2>4. CASE j = k
      BY <1>1, <2>2, <2>4 DEF OutcomeStands
    <2>5. CASE j # k
      <3>1. Working(j)' \subseteq Working(j)
        BY <2>3, <2>5 DEF Working, LiveOf, Live, At
      <3> QED BY <1>1, <2>2, <3>1 DEF OutcomeStands
    <2> QED BY <2>4, <2>5
  <1>3. CASE ~EnqueueIngest(k)
    <2>1. rq' = rq
      BY <1>3 DEF ApiStep, CreateJob, CancelCheck, CancelWrite, DeleteFiles, DeleteRows, RequestDies
    <2>2. Working(j)' = Working(j)
      BY <2>1 DEF Working, LiveOf, Live, At
    <2>3. status'[j] = status[j] \/ status'[j] \notin Ended
      BY <1>3, NotEnded
      DEF ApiStep, CreateJob, CancelCheck, CancelWrite, DeleteFiles, DeleteRows, RequestDies, TypeOK
    <2>4. <<"create", j>> \in api' => <<"create", j>> \in api \/ status'[j] \notin Ended
      BY <1>3, NotEnded
      DEF ApiStep, CreateJob, CancelCheck, CancelWrite, DeleteFiles, DeleteRows, RequestDies, TypeOK
    <2> QED BY <1>1, <2>2, <2>3, <2>4 DEF OutcomeStands
  <1> QED BY <1>2, <1>3

LEMMA AskedNext ==
  ASSUME TypeInv, OrderInv, NothingAsked, NEW r \in RqIds, WorkerStep(r) \/ Interrupted(r)
  PROVE  NothingAsked'
  <1> USE DEF TypeInv
  <1> SUFFICES ASSUME NEW j \in Jobs, status'[j] = "absent" PROVE renders'[j] = {}
    BY DEF NothingAsked
  <1>1. Live(r) /\ rq[r].job \in Jobs /\ rq[r].stage \in Stages
    BY LiveRun
    DEF TypeOK, RqOK, WorkerStep, RunRetry, Dequeue, Begin, Fetch, InputGone, Ingest, PutAudio, Listen, CommitIngest,
        EnqueueTranscription, Transcription, CommitTranscript, EnqueueSegmentation, Segmentation,
        CommitCandidates, EnqueueScoring, Scoring, CommitScores, EnqueueRendering, StageFails, Ack,
        Interrupted, At, Live
  <1>2. status[j] = "absent"
    <2>1. Raise(r) => status'[j] = status[j] \/ status'[j] # "absent"
      BY <1>1, ExistingStatuses DEF Raise, MarkFailed, TypeOK
    <2>2. Begin(r) \/ StageFails(r) => status'[j] = status[j] \/ status'[j] # "absent"
      BY <1>1, ExistingStatuses DEF Begin, StageFails, MarkFailed, TypeOK
    <2>3. CommitIngest(r) \/ CommitTranscript(r) \/ CommitCandidates(r) \/ CommitScores(r) =>
            Raise(r) \/ status'[j] = status[j] \/ status'[j] # "absent"
      BY <1>1 DEF CommitIngest, CommitTranscript, CommitCandidates, CommitScores, CommitFails, TypeOK
    <2>4. status'[j] = status[j] \/ status'[j] # "absent"
      BY <2>1, <2>2, <2>3
      DEF WorkerStep, RunRetry, Dequeue, Fetch, InputGone, Ingest, PutAudio, Listen,
          EnqueueTranscription, Transcription, EnqueueSegmentation, Segmentation,
          EnqueueScoring, Scoring, EnqueueRendering, Ack, Interrupted
    <2> QED BY <2>4
  <1>3. j # rq[r].job
    BY <1>1, <1>2 DEF OrderInv, AbsentIsIdle, LiveOf
  <1>4. renders'[j] = renders[j]
    BY <1>1, <1>3
    DEF WorkerStep, RunRetry, Dequeue, Begin, Fetch, InputGone, Ingest, PutAudio, Listen, CommitIngest,
        EnqueueTranscription, Transcription, CommitTranscript, EnqueueSegmentation, Segmentation,
        CommitCandidates, EnqueueScoring, Scoring, CommitScores, EnqueueRendering, StageFails, Ack,
        Interrupted, CommitFails, TypeOK
  <1> QED BY <1>2, <1>4 DEF NothingAsked

(* The two, for as long as they hold.                                       *)
OutcomeInv == (faults = 0 => Outcomes) /\ NothingAsked

LEMMA OutcomeNext ==
  ~EagerCallback /\ TypeInv /\ OrderInv /\ WhileUninterrupted /\ OutcomeInv /\ [Next]_vars => OutcomeInv'
  <1> SUFFICES ASSUME ~EagerCallback, TypeInv, OrderInv, WhileUninterrupted, OutcomeInv, [Next]_vars
               PROVE  OutcomeInv'
    OBVIOUS
  <1>1. CASE UNCHANGED vars
    BY <1>1 DEF vars, OutcomeInv, Outcomes, OutcomeStands, NothingAsked, Working, LiveOf, Live, At
  <1>f. faults \in Nat
    BY PipelineAssumption DEF TypeInv, TypeOK
  <1>2. ASSUME NEW k \in Jobs, ApiStep(k) PROVE OutcomeInv'
    <2>1. faults' \in {faults, faults + 1}
      BY <1>2 DEF ApiStep, CreateJob, EnqueueIngest, CancelCheck, CancelWrite, DeleteFiles, DeleteRows,
                  RequestDies
    <2>2. faults' = 0 => Outcomes'
      BY <1>2, <1>f, <2>1, OutcomeApi DEF OutcomeInv
    <2>3. renders' = renders /\ \A j \in Jobs : status'[j] = "absent" => status[j] = "absent"
      BY <1>2 DEF ApiStep, CreateJob, EnqueueIngest, CancelCheck, CancelWrite, DeleteFiles, DeleteRows,
                  RequestDies, TypeInv, TypeOK
    <2> QED BY <2>2, <2>3 DEF OutcomeInv, NothingAsked
  <1>3. ASSUME NEW r \in RqIds, WorkerStep(r) \/ Interrupted(r) PROVE OutcomeInv'
    <2>a. NothingAsked'
      BY <1>3, AskedNext DEF OutcomeInv
    <2>1. ASSUME faults' = 0, WorkerStep(r) PROVE Outcomes'
      <3>1. faults' = faults
        BY <2>1 DEF WorkerStep, RunRetry, Dequeue, Begin, Fetch, InputGone, Ingest, PutAudio, Listen, CommitIngest,
                    EnqueueTranscription, Transcription, CommitTranscript, EnqueueSegmentation, Segmentation,
                    CommitCandidates, EnqueueScoring, Scoring, CommitScores, EnqueueRendering, StageFails, Ack
      <3>2. ASSUME faults = 0 PROVE Outcomes'
        <4>1. Chains /\ Outcomes
          BY <3>2 DEF WhileUninterrupted, OutcomeInv
        <4> QED
          BY <2>1, <4>1, OutcomeQuiet, OutcomeEnqueue
          DEF WorkerStep, Ingest, Transcription, Segmentation, Scoring
      <3> QED BY <2>1, <3>1, <3>2
    <2>2. ASSUME faults' = 0, Interrupted(r) PROVE FALSE
      <3>1. faults' = faults + 1
        BY <2>2 DEF Interrupted
      <3> QED BY <1>f, <2>2, <3>1
    <2> QED BY <1>3, <2>a, <2>1, <2>2 DEF OutcomeInv
  <1> QED BY <1>1, <1>2, <1>3 DEF Next

-----------------------------------------------------------------------------
(* Pipeline implements ClipProduction, step by step.                        *)

Same == UNCHANGED <<Reports, transcript, Proposed, clips, Asked, faults>>

LEMMA ReportOf ==
  /\ Report("absent") = "none" /\ Report("deleted") = "forgotten"
  /\ Report("cancelled") = "cancelled" /\ Report("scored") = "done"
  /\ Report("queued") = "underway"
  /\ \A s \in Stages : Report(Doing[s]) = "underway" /\ Report(Failed[s]) = "failed"
  /\ \A st \in {"ingested", "transcribed", "segmented"} : Report(st) = "underway"
  /\ \A st \in Statuses : /\ Report(st) \in {"none", "forgotten"} <=> st \in {"absent", "deleted"}
                          /\ Report(st) = "none" => st = "absent"
                          /\ st \notin Ended \cup {"absent", "deleted"} => Report(st) \in {"underway", "cancelled"}
  <1>1. /\ Report("absent") = "none" /\ Report("deleted") = "forgotten"
        /\ Report("cancelled") = "cancelled" /\ Report("scored") = "done"
        /\ Report("queued") = "underway"
    BY DEF Report, HasFailed, Failed, Stages
  <1>2. \A s \in Stages : Report(Doing[s]) = "underway"
    BY DEF Report, HasFailed, Failed, Stages, Doing
  <1>3. \A s \in Stages : Report(Failed[s]) = "failed"
    BY DEF Report, HasFailed, Failed, Stages
  <1>4. \A st \in {"ingested", "transcribed", "segmented"} : Report(st) = "underway"
    BY DEF Report, HasFailed, Failed, Stages
  <1>5. ASSUME NEW st \in Statuses
        PROVE  /\ Report(st) \in {"none", "forgotten"} <=> st \in {"absent", "deleted"}
               /\ Report(st) = "none" => st = "absent"
               /\ st \notin Ended \cup {"absent", "deleted"} => Report(st) \in {"underway", "cancelled"}
    <2>1. CASE st \in {"absent", "deleted", "cancelled", "scored"}
      BY <1>1, <2>1 DEF Ended
    <2>2. CASE st \in HasFailed
      <3>1. PICK s \in Stages : st = Failed[s]
        BY <2>2 DEF HasFailed
      <3> QED BY <1>3, <2>2, <3>1, ExistingStatuses DEF Ended
    <2>3. CASE st \notin HasFailed \cup {"absent", "deleted", "cancelled", "scored"}
      <3>1. Report(st) = "underway"
        BY <2>3 DEF Report
      <3> QED BY <2>3, <3>1
    <2> QED BY <2>1, <2>2, <2>3
  <1> QED BY <1>1, <1>2, <1>3, <1>4, <1>5

(* A step that touches the status of one job reports of that job only.      *)
LEMMA Told ==
  ASSUME status \in [Jobs -> Statuses], NEW k \in Jobs, NEW st, status' = [status EXCEPT ![k] = st]
  PROVE  Reports' = [Reports EXCEPT ![k] = Report(st)]
  BY DEF Reports

LEMMA AskedSame ==
  ASSUME renders' = renders, \A j \in Jobs : Exists(j)' <=> Exists(j)
  PROVE  Asked' = Asked
  BY DEF Asked

LEMMA ProposedSame ==
  ASSUME UNCHANGED <<pending, selected, rejected>>
  PROVE  Proposed' = Proposed
  BY DEF Proposed, AllCandidates

LEMMA KnownIs ==
  ASSUME TypeInv, NEW k \in Jobs
  PROVE  Exists(k) <=> Production!Known(k)
  BY ReportOf DEF Production!Known, Reports, Exists, TypeInv, TypeOK

(* The outcome of a job a run is at work on is open.                        *)
LEMMA AtWork ==
  ASSUME TypeInv, OutcomeInv, NEW k \in Jobs, Exists(k), Working(k) # {}
  PROVE  Production!Open(k)
  <1>1. Production!Known(k)
    BY KnownIs
  <1>2. faults \in Nat
    BY PipelineAssumption DEF TypeInv, TypeOK
  <1>3. CASE faults = 0
    <2>1. status[k] \notin Ended \cup {"absent", "deleted"} /\ status[k] \in Statuses
      BY <1>3 DEF OutcomeInv, Outcomes, OutcomeStands, Exists, TypeInv, TypeOK
    <2> QED BY <1>1, <2>1, ReportOf DEF Production!Open, Reports
  <1>4. CASE faults > 0
    BY <1>1, <1>4 DEF Production!Open
  <1> QED BY <1>2, <1>3, <1>4

(* A step that reports this of the job k.                                   *)
Tells(k, this) == \E st : Report(st) = this /\ status' = [status EXCEPT ![k] = st]

LEMMA TellsIs ==
  ASSUME NEW k, NEW st, status' = [status EXCEPT ![k] = st]
  PROVE  Tells(k, Report(st))
  BY DEF Tells

(* A run's step that says how it goes.                                      *)
LEMMA Proceeds ==
  ASSUME TypeInv, OutcomeInv, NEW k \in Jobs, Exists(k), Working(k) # {},
         Tells(k, "underway") \/ Tells(k, "failed"), UNCHANGED <<rows, renders, faults>>
  PROVE  Production!Proceed(k)
  <1>s. PICK st : Report(st) \in {"underway", "failed"} /\ status' = [status EXCEPT ![k] = st]
    BY DEF Tells
  <1>1. Production!Open(k)
    BY AtWork
  <1>2. Reports' = [Reports EXCEPT ![k] = Report(st)]
    BY <1>s, Told DEF TypeInv, TypeOK
  <1>3. \A j \in Jobs : Exists(j)' <=> Exists(j)
    <2>1. st \notin {"absent", "deleted"}
      BY <1>s, ReportOf
    <2> QED BY <1>s, <2>1 DEF Exists, TypeInv, TypeOK
  <1>4. UNCHANGED <<transcript, Proposed, clips, Asked, faults>>
    BY <1>3, AskedSame, ProposedSame DEF rows
  <1> QED BY <1>s, <1>1, <1>2, <1>4 DEF Production!Proceed, Production!Becomes

LEMMA StaysSame ==
  ASSUME UNCHANGED <<status, rows, renders, faults>>
  PROVE  Same
  BY AskedSame, ProposedSame DEF Same, Reports, rows, Exists

(* on_failure is told, or not yet.                                          *)
LEMMA RaiseProduces ==
  ASSUME TypeInv, NEW r \in RqIds, Live(r), NEW k \in Jobs, rq[r].job = k, Raise(r),
         UNCHANGED <<rows, renders>>
  PROVE  \/ UNCHANGED status
         \/ Exists(k) /\ Tells(k, "failed")
  <1>1. rq[r].stage \in Stages
    BY LiveRun DEF TypeInv, TypeOK, RqOK
  <1> QED BY <1>1, ReportOf DEF Raise, MarkFailed, Tells

LEMMA WorkRaises ==
  ASSUME TypeInv, OutcomeInv, NEW r \in RqIds, Live(r), NEW k \in Jobs, rq[r].job = k, Raise(r),
         UNCHANGED <<rows, renders, faults>>, rq[r].pc \in {"fetch", "work", "commit"}
  PROVE  Same \/ Production!Proceed(k)
  <1>1. r \in Working(k)
    BY DEF Working, LiveOf, At
  <1>2. CASE UNCHANGED status
    BY <1>2, StaysSame
  <1>3. CASE Exists(k) /\ Tells(k, "failed")
    <2>2. Working(k) # {}
      BY <1>1
    <2> QED BY <1>3, <2>2, Proceeds
  <1> QED BY <1>2, <1>3, RaiseProduces

LEMMA RunLoses ==
  ASSUME TypeInv, NEW r \in RqIds, Interrupted(r)
  PROVE  Production!Lose
  <1> USE DEF TypeInv
  <1>1. Live(r) /\ Raise(r) /\ UNCHANGED <<rows, renders>> /\ faults' = faults + 1
    BY DEF Interrupted, Live
  <1>k. PICK k \in Jobs : rq[r].job = k
    BY <1>1, LiveRun DEF TypeOK, RqOK
  <1>2. UNCHANGED <<transcript, Proposed, clips>>
    BY <1>1, ProposedSame DEF rows
  <1>3. CASE UNCHANGED status
    <2>1. UNCHANGED <<Reports, Asked>>
      BY <1>1, <1>3, AskedSame DEF Reports, Exists
    <2> QED BY <1>1, <1>2, <2>1 DEF Production!Lose
  <1>4. CASE Exists(k) /\ Tells(k, "failed")
    <2>s. PICK st : Report(st) = "failed" /\ status' = [status EXCEPT ![k] = st]
      BY <1>4 DEF Tells
    <2>1. Reports' = [Reports EXCEPT ![k] = "failed"] /\ Production!Known(k)
      BY <1>4, <2>s, Told, KnownIs DEF TypeOK
    <2>2. st \notin {"absent", "deleted"}
      BY <2>s, ReportOf
    <2>3. \A j \in Jobs : Exists(j)' <=> Exists(j)
      BY <1>4, <2>s, <2>2 DEF Exists, TypeOK
    <2>4. UNCHANGED Asked
      BY <1>1, <2>3, AskedSame
    <2> QED BY <1>1, <1>2, <2>1, <2>4 DEF Production!Lose, Production!Becomes
  <1> QED BY <1>1, <1>3, <1>4, <1>k, RaiseProduces

(* ClipProduction's words for numbers of rows.                              *)
LEMMA NumbersAre ==
  ASSUME NEW S, NEW T
  PROVE  /\ Production!Cardinality(S) = Cardinality(S)
         /\ Production!Times(S) = Cardinality(Numbers(S))
         /\ Production!OnceMore(S, T) = S \cup (T \X {Cardinality(S)})
  <1>1. ASSUME NEW A PROVE Production!Cardinality(A) = Cardinality(A)
    BY DEF Production!Cardinality, Cardinality
  <1>2. Production!Times(S) = Cardinality(Numbers(S))
    BY <1>1 DEF Production!Times, Numbers
  <1>3. Production!OnceMore(S, T) = S \cup (T \X {Cardinality(S)})
    BY <1>1 DEF Production!OnceMore
  <1> QED BY <1>1, <1>2, <1>3

LEMMA QuietProduces ==
  ASSUME TypeInv, OutcomeInv, NEW r \in RqIds,
         \/ RunRetry(r) \/ Dequeue(r) \/ Begin(r) \/ Fetch(r) \/ InputGone(r) \/ StageFails(r) \/ Ack(r)
         \/ PutAudio(r) \/ Listen(r) \/ CommitIngest(r)
         \/ EnqueueTranscription(r) \/ EnqueueSegmentation(r) \/ EnqueueScoring(r)
  PROVE  Same \/ \E k \in Jobs : Production!Proceed(k)
  <1> USE DEF TypeInv
  <1>1. Live(r) /\ rq[r].job \in Jobs /\ rq[r].stage \in Stages /\ rq[r] \in RqJob
    BY LiveRun
    DEF TypeOK, RqOK, RunRetry, Dequeue, Begin, Fetch, InputGone, StageFails, Ack, PutAudio, Listen,
        CommitIngest, EnqueueTranscription, EnqueueSegmentation, EnqueueScoring, At, Live
  <1>k. PICK k \in Jobs : rq[r].job = k
    BY <1>1
  <1>2. UNCHANGED <<rows, renders, faults>>
    BY DEF RunRetry, Dequeue, Begin, Fetch, InputGone, StageFails, Ack, PutAudio, Listen, CommitIngest,
           EnqueueTranscription, EnqueueSegmentation, EnqueueScoring, CommitFails, rows
  <1>3. CASE UNCHANGED status
    BY <1>2, <1>3, StaysSame
  <1>4. ASSUME Exists(k), rq[r].pc \in {"begin", "fetch", "work", "commit"}, Tells(k, "underway") \/ Tells(k, "failed")
        PROVE  Production!Proceed(k)
    <2>1. r \in Working(k)
      BY <1>1, <1>k, <1>4 DEF Working, LiveOf, At
    <2>2. Working(k) # {}
      BY <2>1
    <2> QED BY <1>2, <1>4, <2>2, Proceeds
  <1>5. CASE RunRetry(r) \/ Dequeue(r) \/ Fetch(r) \/ Ack(r) \/ PutAudio(r) \/ Listen(r)
             \/ EnqueueTranscription(r) \/ EnqueueSegmentation(r) \/ EnqueueScoring(r)
    BY <1>3, <1>5 DEF RunRetry, Dequeue, Fetch, Ack, PutAudio, Listen, EnqueueTranscription, EnqueueSegmentation,
                      EnqueueScoring
  <1>6. CASE Begin(r)
    <2>1. CASE ~Exists(k)
      BY <1>3, <1>6, <1>k, <2>1 DEF Begin
    <2>2. CASE Exists(k)
      <3>1. rq[r].pc = "begin" /\ status' = [status EXCEPT ![k] = Doing[rq[r].stage]]
        BY <1>6, <1>k, <2>2 DEF Begin
      <3>2. Report(Doing[rq[r].stage]) = "underway"
        BY <1>1, ReportOf
      <3>3. Tells(k, Report(Doing[rq[r].stage]))
        BY <3>1, TellsIs
      <3>4. Tells(k, "underway")
        BY <3>2, <3>3
      <3> QED BY <1>4, <2>2, <3>1, <3>4
    <2> QED BY <2>1, <2>2
  <1>7. CASE InputGone(r)
    <2>1. Raise(r) /\ rq[r].pc \in {"fetch", "work", "commit"}
      BY <1>7 DEF InputGone
    <2> QED BY <1>1, <1>2, <1>k, <2>1, WorkRaises
  <1>8. CASE StageFails(r)
    <2>1. CASE ~Exists(k)
      BY <1>3, <1>8, <1>k, <2>1 DEF StageFails, MarkFailed
    <2>2. CASE Exists(k)
      <3>1. rq[r].pc \in {"fetch", "work"} /\ status' = [status EXCEPT ![k] = Failed[rq[r].stage]]
        BY <1>8, <1>k, <2>2 DEF StageFails, MarkFailed
      <3>2. Report(Failed[rq[r].stage]) = "failed"
        BY <1>1, ReportOf
      <3>3. Tells(k, Report(Failed[rq[r].stage]))
        BY <3>1, TellsIs
      <3>4. Tells(k, "failed")
        BY <3>2, <3>3
      <3> QED BY <1>4, <2>2, <3>1, <3>4
    <2> QED BY <2>1, <2>2
  <1>9. CASE CommitIngest(r)
    <2>1. rq[r].pc = "commit"
      BY <1>9 DEF CommitIngest, At
    <2>2. CASE ~Exists(k)
      <3>1. Raise(r)
        BY <1>9, <1>k, <2>2 DEF CommitIngest, CommitFails
      <3> QED BY <1>1, <1>2, <1>k, <2>1, <3>1, WorkRaises
    <2>3. CASE Exists(k)
      <3>1. status' = [status EXCEPT ![k] = "ingested"]
        BY <1>9, <1>k, <2>3 DEF CommitIngest
      <3>2. Report("ingested") = "underway"
        BY ReportOf
      <3>3. Tells(k, Report("ingested"))
        BY <3>1, TellsIs
      <3>4. Tells(k, "underway")
        BY <3>2, <3>3
      <3> QED BY <1>4, <2>1, <2>3, <3>4
    <2> QED BY <2>2, <2>3
  <1> QED BY <1>5, <1>6, <1>7, <1>8, <1>9

(* What the commit of a stage that succeeds has in common.                  *)
LEMMA CommitTold ==
  ASSUME TypeInv, OutcomeInv, NEW r \in RqIds, NEW k \in Jobs, Live(r), rq[r].job = k, rq[r].pc = "work",
         Exists(k), NEW st \in {"transcribed", "segmented", "scored"},
         status' = [status EXCEPT ![k] = st], renders' = renders
  PROVE  /\ Production!Open(k)
         /\ Reports' = [Reports EXCEPT ![k] = IF st = "scored" THEN "done" ELSE "underway"]
         /\ Asked' = Asked
  <1>1. r \in Working(k)
    BY DEF Working, LiveOf, At
  <1>2. Production!Open(k)
    BY <1>1, AtWork
  <1>3. Reports' = [Reports EXCEPT ![k] = Report(st)]
    BY Told DEF TypeInv, TypeOK
  <1>4. \A j \in Jobs : Exists(j)' <=> Exists(j)
    BY DEF Exists, TypeInv, TypeOK
  <1>5. Report(st) = IF st = "scored" THEN "done" ELSE "underway"
    BY ReportOf
  <1>6. Asked' = Asked
    BY <1>4, AskedSame
  <1> QED BY <1>2, <1>3, <1>5, <1>6

LEMMA TranscriptProduces ==
  ASSUME TypeInv, OutcomeInv, NEW r \in RqIds, CommitTranscript(r)
  PROVE  Same \/ \E k \in Jobs : Production!Proceed(k) \/ Production!Transcribe(k)
  <1> USE DEF TypeInv
  <1>1. Live(r) /\ rq[r].pc = "work"
    BY DEF CommitTranscript, At, Live
  <1>k. PICK k \in Jobs : rq[r].job = k
    BY <1>1, LiveRun DEF TypeOK, RqOK
  <1>2. CASE ~InsertsTranscript(k)
    <2>1. Raise(r) /\ UNCHANGED <<rows, renders, faults>>
      BY <1>2, <1>k DEF CommitTranscript, CommitFails
    <2> QED BY <1>1, <1>k, <2>1, WorkRaises
  <1>3. CASE InsertsTranscript(k)
    <2>1. /\ transcript' = [transcript EXCEPT ![k] = TRUE]
          /\ status' = [status EXCEPT ![k] = "transcribed"]
          /\ UNCHANGED <<pending, selected, rejected, clips, renders, faults>>
          /\ Exists(k) /\ ~transcript[k]
      BY <1>3, <1>k DEF CommitTranscript, InsertsTranscript
    <2>2. Production!Open(k) /\ Reports' = [Reports EXCEPT ![k] = "underway"] /\ Asked' = Asked
      BY <1>1, <1>k, <2>1, CommitTold
    <2>3. Production!Transcribe(k)
      BY <2>1, <2>2, ProposedSame DEF Production!Transcribe, Production!Becomes
    <2> QED BY <2>3
  <1> QED BY <1>2, <1>3

(* There is still something to propose, or to choose, for every run that is *)
(* about to.                                                                *)
LEMMA OneIsLeft ==
  ASSUME faults \in Nat, NEW N, NEW T, IsFiniteSet(N), IsFiniteSet(T), T # {},
         Cardinality(N) + Cardinality(T) <= faults + 1
  PROVE  Cardinality(N) <= faults
  <1>1. Cardinality(N) \in Nat /\ Cardinality(T) \in Nat /\ Cardinality(T) # 0
    BY FS_CardinalityType, FS_EmptySet
  <1> QED BY <1>1

LEMMA CandidatesProduce ==
  ASSUME TypeInv, OrderInv, OutcomeInv, Paid, NEW r \in RqIds, CommitCandidates(r)
  PROVE  Same \/ \E k \in Jobs : Production!Proceed(k) \/ Production!Propose(k)
  <1> USE DEF TypeInv
  <1>1. Live(r) /\ rq[r].pc = "work" /\ rq[r].stage = "segmentation"
    BY DEF CommitCandidates, At, Live
  <1>k. PICK k \in Jobs : rq[r].job = k
    BY <1>1, LiveRun DEF TypeOK, RqOK
  <1>2. CASE ~Exists(k)
    <2>1. Raise(r) /\ UNCHANGED <<rows, renders, faults>>
      BY <1>2, <1>k DEF CommitCandidates, CommitFails
    <2> QED BY <1>1, <1>k, <2>1, WorkRaises
  <1>3. CASE Exists(k)
    <2>1. PICK ws \in SUBSET Windows \ {{}} :
            pending' = [pending EXCEPT ![k] = @ \cup (ws \X {Cardinality(AllCandidates(k))})]
      BY <1>3, <1>k DEF CommitCandidates
    <2>2. /\ status' = [status EXCEPT ![k] = "segmented"]
          /\ UNCHANGED <<transcript, selected, rejected, clips, renders, faults>>
      BY <1>3, <1>k DEF CommitCandidates
    <2>3. Production!Open(k) /\ Reports' = [Reports EXCEPT ![k] = "underway"] /\ Asked' = Asked
      BY <1>1, <1>3, <1>k, <2>2, CommitTold
    <2>4. r \in LiveOf(k) /\ r \in ToPropose(k)
      BY <1>1, <1>k DEF LiveOf, ToPropose, MayPropose, At
    <2>5. transcript[k]
      BY <1>1, <1>3, <2>4 DEF OrderInv, ReadersFindTranscript, ReadsTranscript
    <2>6. Cardinality(Numbers(AllCandidates(k))) <= faults
      <3>1. faults \in Nat
        BY PipelineAssumption DEF TypeOK
      <3>2. /\ IsFiniteSet(Numbers(AllCandidates(k))) /\ IsFiniteSet(ToPropose(k))
            /\ Cardinality(Numbers(AllCandidates(k))) + Cardinality(ToPropose(k)) <= faults + 1
        BY <1>3 DEF Paid, OncePerLoss
      <3> QED BY <2>4, <3>1, <3>2, OneIsLeft
    <2>7. Proposed[k] = AllCandidates(k)
      BY DEF Proposed
    <2>8. Production!Times(Proposed[k]) <= faults
      BY <2>6, <2>7, NumbersAre
    <2>9. Proposed' = [Proposed EXCEPT ![k] = Production!OnceMore(@, ws)]
      <3>1. pending'[k] = pending[k] \cup (ws \X {Cardinality(AllCandidates(k))})
        BY <2>1 DEF TypeOK
      <3>2. AllCandidates(k)' = AllCandidates(k) \cup (ws \X {Cardinality(AllCandidates(k))})
        BY <2>2, <3>1 DEF AllCandidates
      <3>3. AllCandidates(k)' = Production!OnceMore(AllCandidates(k), ws)
        BY <3>2, NumbersAre
      <3>4. \A j \in Jobs \ {k} : AllCandidates(j)' = AllCandidates(j)
        BY <2>1, <2>2 DEF AllCandidates, TypeOK
      <3> DEFINE new == Production!OnceMore(AllCandidates(k), ws)
      <3>5. AllCandidates(k)' = new /\ new = Production!OnceMore(Proposed[k], ws)
        BY <2>7, <3>3
      <3> HIDE DEF new
      <3>6. Proposed' = [Proposed EXCEPT ![k] = new]
        BY <3>4, <3>5 DEF Proposed
      <3> QED BY <3>5, <3>6
    <2>10. Production!Propose(k)
      BY <2>1, <2>2, <2>3, <2>5, <2>8, <2>9 DEF Production!Propose, Production!Becomes
    <2> QED BY <2>10
  <1> QED BY <1>2, <1>3

LEMMA ScoresProduce ==
  ASSUME TypeInv, OutcomeInv, Paid, NEW r \in RqIds, CommitScores(r)
  PROVE  Same \/ \E k \in Jobs : Production!Proceed(k) \/ Production!Choose(k)
  <1> USE DEF TypeInv
  <1>1. Live(r) /\ rq[r].pc = "work" /\ rq[r].stage = "scoring"
    BY DEF CommitScores, At, Live
  <1>k. PICK k \in Jobs : rq[r].job = k
    BY <1>1, LiveRun DEF TypeOK, RqOK
  <1>2. CASE ~Exists(k)
    <2>1. Raise(r) /\ UNCHANGED <<rows, renders, faults>>
      BY <1>2, <1>k DEF CommitScores, CommitFails
    <2> QED BY <1>1, <1>k, <2>1, WorkRaises
  <1>3. CASE Exists(k)
    <2>1. PICK S \in Selections(rq[r].seen) :
            /\ pending' = [pending EXCEPT ![k] = @ \ rq[r].seen]
            /\ selected' = [selected EXCEPT ![k] = (@ \ rq[r].seen) \cup S]
            /\ rejected' = [rejected EXCEPT ![k] = (@ \cup rq[r].seen) \ S]
            /\ clips' = [clips EXCEPT ![k] = @ \cup (S \X {Cardinality(clips[k])})]
      BY <1>3, <1>k DEF CommitScores
    <2>2. /\ status' = [status EXCEPT ![k] = "scored"]
          /\ UNCHANGED <<transcript, renders, faults>>
      BY <1>3, <1>k DEF CommitScores
    <2>3. Production!Open(k) /\ Reports' = [Reports EXCEPT ![k] = "done"] /\ Asked' = Asked
      BY <1>1, <1>3, <1>k, <2>2, CommitTold
    <2>4. r \in LiveOf(k) /\ r \in ToChoose(k)
      BY <1>1, <1>k DEF LiveOf, ToChoose, MayChoose, At
    <2>5. /\ S \subseteq rq[r].seen /\ rq[r].seen \subseteq AllCandidates(k)
          /\ Cardinality(S) <= MaxClips /\ \A c, d \in S : c[1] = d[1] => c = d
      BY <1>3, <2>1, <2>4 DEF Selections, Paid, RowsFollow, Follows
    <2>6. Production!Times(clips[k]) <= faults
      <3>1. faults \in Nat
        BY PipelineAssumption DEF TypeOK
      <3>2. /\ IsFiniteSet(Numbers(clips[k])) /\ IsFiniteSet(ToChoose(k))
            /\ Cardinality(Numbers(clips[k])) + Cardinality(ToChoose(k)) <= faults + 1
        BY <1>3 DEF Paid, OncePerLoss
      <3>3. Cardinality(Numbers(clips[k])) <= faults
        BY <2>4, <3>1, <3>2, OneIsLeft
      <3> QED BY <3>3, NumbersAre
    <2>7. Proposed' = Proposed
      <3>1. \A j \in Jobs : AllCandidates(j)' = AllCandidates(j)
        BY <2>1, <2>5 DEF AllCandidates, TypeOK
      <3> QED BY <3>1 DEF Proposed
    <2>8. S \in SUBSET Proposed[k]
      BY <2>5 DEF Proposed
    <2>9. clips' = [clips EXCEPT ![k] = Production!OnceMore(@, S)]
      <3> DEFINE new == Production!OnceMore(clips[k], S)
      <3>1. new = clips[k] \cup (S \X {Cardinality(clips[k])})
        BY NumbersAre
      <3>2. clips' = [clips EXCEPT ![k] = new]
        BY <2>1, <3>1
      <3> HIDE DEF new
      <3> QED BY <3>2 DEF new
    <2>10. Production!Choose(k)
      <3>1. Production!Cardinality(S) <= MaxClips
        BY <2>5, NumbersAre
      <3> QED BY <2>2, <2>3, <2>5, <2>6, <2>7, <2>8, <2>9, <3>1 DEF Production!Choose, Production!Becomes
    <2> QED BY <2>10
  <1> QED BY <1>2, <1>3

LEMMA RenderingProduces ==
  ASSUME TypeInv, Paid, NEW r \in RqIds, EnqueueRendering(r)
  PROVE  Same \/ \E k \in Jobs : Production!Render(k)
  <1> USE DEF TypeInv
  <1>1. Live(r) /\ UNCHANGED <<status, rows, faults>>
    BY DEF EnqueueRendering, At, Live
  <1>k. PICK k \in Jobs : rq[r].job = k
    BY <1>1, LiveRun DEF TypeOK, RqOK
  <1>2. CASE rq[r].todo = {}
    BY <1>1, <1>2, StaysSame DEF EnqueueRendering
  <1>3. CASE rq[r].todo # {}
    <2>1. PICK c \in rq[r].todo : renders' = [renders EXCEPT ![k] = @ \cup {c}]
      BY <1>3, <1>k DEF EnqueueRendering
    <2>2. UNCHANGED <<Reports, transcript, Proposed, clips, faults>> /\ \A j \in Jobs : Exists(j)' <=> Exists(j)
      BY <1>1, ProposedSame DEF Reports, rows, Exists
    <2>3. CASE ~Exists(k)
      <3>1. Asked' = Asked
        BY <2>1, <2>2, <2>3 DEF Asked, TypeOK
      <3> QED BY <2>2, <3>1 DEF Same
    <2>4. CASE Exists(k)
      <3>1. Asked' = [Asked EXCEPT ![k] = @ \cup {c}]
        BY <2>1, <2>2, <2>4 DEF Asked, TypeOK
      <3>2. r \in LiveOf(k)
        BY <1>1, <1>k DEF LiveOf
      <3>3. PICK clip \in clips[k] : clip[1] = c
        BY <2>1, <2>4, <3>2 DEF Paid, RowsFollow, Follows
      <3>4. Production!Known(k)
        BY <2>4, KnownIs
      <3>5. Asked' = [Asked EXCEPT ![k] = @ \cup {clip[1]}]
        BY <3>1, <3>3
      <3>6. Production!Render(k)
        BY <2>2, <3>3, <3>4, <3>5 DEF Production!Render
      <3> QED BY <3>6
    <2> QED BY <2>3, <2>4
  <1> QED BY <1>2, <1>3

LEMMA ApiProduces ==
  ASSUME TypeInv, OrderInv, OutcomeInv, Paid, NEW k \in Jobs, ApiStep(k)
  PROVE  \/ Same \/ Production!Submit(k) \/ Production!Cancel(k) \/ Production!Forget(k)
         \/ Production!Lose
  <1>s. status \in [Jobs -> Statuses]
    BY DEF TypeInv, TypeOK
  <1> USE DEF TypeInv
  <1>1. CASE CreateJob(k)
    <2>1. /\ status[k] = "absent" /\ status' = [status EXCEPT ![k] = "queued"]
          /\ UNCHANGED <<rows, renders, faults>>
      BY <1>1 DEF CreateJob
    <2>2. Reports' = [Reports EXCEPT ![k] = "underway"] /\ Reports[k] = "none"
      BY <2>1, Told, ReportOf DEF Reports, TypeOK
    <2>3. Asked' = Asked
      <3>1. renders[k] = {}
        BY <2>1 DEF OutcomeInv, NothingAsked
      <3>2. \A j \in Jobs \ {k} : Exists(j)' <=> Exists(j)
        BY <2>1 DEF Exists, TypeOK
      <3> QED BY <2>1, <3>1, <3>2 DEF Asked
    <2>4. UNCHANGED <<transcript, Proposed, clips, faults>>
      BY <2>1, ProposedSame DEF rows
    <2> QED BY <2>2, <2>3, <2>4 DEF Production!Submit, Production!Becomes
  <1>2. CASE EnqueueIngest(k) \/ CancelCheck(k) \/ DeleteFiles(k)
    BY <1>2, StaysSame DEF EnqueueIngest, CancelCheck, DeleteFiles
  <1>3. CASE CancelWrite(k)
    <2>1. UNCHANGED <<rows, renders, faults>>
      BY <1>3 DEF CancelWrite
    <2>2. CASE ~Exists(k)
      BY <1>3, <2>1, <2>2, StaysSame DEF CancelWrite
    <2>3. CASE Exists(k)
      <3>1. status' = [status EXCEPT ![k] = "cancelled"]
        BY <1>3, <2>3 DEF CancelWrite
      <3>2. Reports' = [Reports EXCEPT ![k] = "cancelled"]
        <4>1. Reports' = [Reports EXCEPT ![k] = Report("cancelled")]
          BY <1>s, <3>1, Told
        <4> QED BY <4>1, ReportOf
      <3>k. Production!Known(k)
        BY <2>3, KnownIs
      <3>3. \A j \in Jobs : Exists(j)' <=> Exists(j)
        BY <2>3, <3>1 DEF Exists, TypeOK
      <3>4. UNCHANGED <<transcript, Proposed, clips, Asked, faults>>
        BY <2>1, <3>3, AskedSame, ProposedSame DEF rows
      <3> QED BY <3>2, <3>k, <3>4 DEF Production!Cancel, Production!Becomes
    <2> QED BY <2>2, <2>3
  <1>4. CASE DeleteRows(k)
    <2>1. /\ <<"delete", k>> \in api /\ UNCHANGED <<renders, faults>>
          /\ status' = [status EXCEPT ![k] = "deleted"]
          /\ transcript' = [transcript EXCEPT ![k] = FALSE]
          /\ pending' = [pending EXCEPT ![k] = {}]
          /\ selected' = [selected EXCEPT ![k] = {}]
          /\ rejected' = [rejected EXCEPT ![k] = {}]
          /\ clips' = [clips EXCEPT ![k] = {}]
      BY <1>4 DEF DeleteRows
    <2>2. Reports' = [Reports EXCEPT ![k] = "forgotten"]
      <3>1. Reports' = [Reports EXCEPT ![k] = Report("deleted")]
        BY <1>s, <2>1, Told
      <3> QED BY <3>1, ReportOf
    <2>3. Proposed' = [Proposed EXCEPT ![k] = {}]
      BY <2>1 DEF Proposed, AllCandidates, TypeOK
    <2>4. Asked' = [Asked EXCEPT ![k] = {}]
      BY <2>1 DEF Asked, Exists, TypeOK
    <2>5. CASE Exists(k)
      <3>1. Production!Known(k)
        BY <2>5, KnownIs
      <3> QED BY <2>1, <2>2, <2>3, <2>4, <3>1 DEF Production!Forget, Production!Becomes
    <2>6. CASE ~Exists(k)
      <3>1. status[k] = "deleted"
        BY <2>1, <2>6 DEF OrderInv, AbsentIsIdle, Exists
      <3>2. Reports[k] = "forgotten" /\ Asked[k] = {}
        BY <2>6, <3>1, ReportOf DEF Reports, Asked
      <3>3. ~transcript[k] /\ Proposed[k] = {} /\ clips[k] = {}
        BY <2>6 DEF Paid, RowsFollow, Proposed
      <3>4. Reports' = Reports /\ Asked' = Asked /\ Proposed' = Proposed
        BY <2>2, <2>3, <2>4, <3>2, <3>3 DEF Reports, Asked, Proposed
      <3>5. transcript' = transcript /\ clips' = clips
        BY <2>1, <3>3 DEF TypeOK
      <3> QED BY <2>1, <3>4, <3>5 DEF Same
    <2> QED BY <2>5, <2>6
  <1>5. CASE RequestDies(k)
    <2>1. UNCHANGED <<status, rows, renders>> /\ faults' = faults + 1
      BY <1>5 DEF RequestDies
    <2>2. UNCHANGED <<Reports, transcript, Proposed, clips, Asked>>
      BY <2>1, ProposedSame, AskedSame DEF rows, Reports, Exists
    <2> QED BY <2>1, <2>2 DEF Production!Lose
  <1> QED BY <1>1, <1>2, <1>3, <1>4, <1>5 DEF ApiStep

LEMMA StepProduces ==
  ASSUME TypeInv, OrderInv, OutcomeInv, Paid, [Next]_vars
  PROVE  [Production!Next]_(Production!vars)
  <1>s. Same => UNCHANGED Production!vars
    BY DEF Same, Production!vars
  <1>1. CASE UNCHANGED vars
    <2>1. UNCHANGED <<status, rows, renders, faults>>
      BY <1>1 DEF vars
    <2> QED BY <1>s, <2>1, StaysSame
  <1>2. ASSUME NEW k \in Jobs, ApiStep(k) PROVE Same \/ Production!Next
    BY <1>2, ApiProduces DEF Production!Next
  <1>3. ASSUME NEW r \in RqIds, Interrupted(r) PROVE Production!Next
    BY <1>3, RunLoses DEF Production!Next
  <1>4. ASSUME NEW r \in RqIds, WorkerStep(r) PROVE Same \/ Production!Next
    <2>1. CASE CommitTranscript(r)
      BY <2>1, TranscriptProduces DEF Production!Next
    <2>2. CASE CommitCandidates(r)
      BY <2>2, CandidatesProduce DEF Production!Next
    <2>3. CASE CommitScores(r)
      BY <2>3, ScoresProduce DEF Production!Next
    <2>4. CASE EnqueueRendering(r)
      BY <2>4, RenderingProduces DEF Production!Next
    <2>5. CASE \/ RunRetry(r) \/ Dequeue(r) \/ Begin(r) \/ Fetch(r) \/ InputGone(r) \/ StageFails(r) \/ Ack(r)
               \/ PutAudio(r) \/ Listen(r) \/ CommitIngest(r)
               \/ EnqueueTranscription(r) \/ EnqueueSegmentation(r) \/ EnqueueScoring(r)
      BY <2>5, QuietProduces DEF Production!Next
    <2> QED BY <1>4, <2>1, <2>2, <2>3, <2>4, <2>5
            DEF WorkerStep, Ingest, Transcription, Segmentation, Scoring
  <1> QED BY <1>s, <1>1, <1>2, <1>3, <1>4 DEF Next

LEMMA PaidAlways == Spec => [](TypeInv /\ Paid)
  <1>1. Init => TypeInv /\ OrderInv /\ Paid
    BY TypeInvInit, PaidInit, OrderInit
  <1>2. TypeInv /\ OrderInv /\ Paid /\ [Next]_vars => (TypeInv /\ OrderInv /\ Paid)'
    BY TypeInvNext, OrderNext, PaidNext
  <1> QED BY <1>1, <1>2, PTL DEF Spec

(* A stream job is worked on by one run at a time, and none of its clips is *)
(* left without a rendering job, as long as nothing is interrupted; and     *)
(* there are at most max_clips of them, and as many again for every         *)
(* interruption, whatever is retried, cancelled or deleted meanwhile.       *)
THEOREM WorkedOnce == Spec => []WorksOnce
  <1>1. TypeInv /\ Paid /\ WhileUninterrupted => WorksOnce
    <2> SUFFICES ASSUME TypeInv, Paid, WhileUninterrupted PROVE WorksOnce
      OBVIOUS
    <2>1. SingleChain
      BY ChainsAreSingle
    <2>2. ASSUME NEW j \in Jobs PROVE Cardinality(clips[j]) <= (faults + 1) * MaxClips
      <3> DEFINE m == MaxClips
                 g == faults + 1
                 t == Cardinality(ToChoose(j))
                 n == Cardinality(clips[j])
      <3>1. m \in Nat /\ g \in Nat
        BY PipelineAssumption DEF TypeInv, TypeOK
      <3>2. IsFiniteSet(clips[j]) /\ IsFiniteSet(ToChoose(j))
        BY DEF TypeInv, Finite, Paid, OncePerLoss
      <3>3. n \in Nat /\ t \in Nat
        BY <3>2, FS_CardinalityType
      <3>4. CASE Exists(j)
        <4>1. n + t * m <= g * m
          BY <3>4 DEF Paid, OncePerLoss
        <4> HIDE DEF m, g, t, n
        <4>2. t * m \in Nat /\ g * m \in Nat
          BY <3>1, <3>3, Products
        <4>3. n <= g * m
          BY <3>3, <4>1, <4>2
        <4> QED BY <4>3 DEF m, g, n
      <3>5. CASE ~Exists(j)
        <4>1. clips[j] = {}
          BY <3>5 DEF Paid, RowsFollow
        <4>2. n = 0
          BY <4>1, FS_EmptySet
        <4>3. g * m \in Nat
          <5> HIDE DEF g, m
          <5> QED BY <3>1, Products
        <4> QED BY <4>2, <4>3
      <3> QED BY <3>4, <3>5
    <2>3. ASSUME NEW j \in Jobs, faults = 0, LiveOf(j) = {}
          PROVE  {c[1] : c \in clips[j]} \subseteq renders[j]
      <3>1. Chain(j) /\ ~\E r \in LiveOf(j) : TRUE
        BY <2>3 DEF WhileUninterrupted, Chains
      <3>2. ASSUME NEW c \in clips[j] PROVE c[1] \in renders[j]
        BY <3>1, <3>2 DEF Chain, Owed
      <3> QED BY <3>2
    <2> QED BY <2>1, <2>2, <2>3 DEF WorksOnce, ClipsAreRendered
  <1> QED BY <1>1, PaidAlways, ChainsAlways, PTL

(* With an RQ that calls on_failure after the last attempt only, whatever   *)
(* the workers, the queue and the requests do comes to what ClipProduction  *)
(* allows: nothing is proposed or chosen more often than once and once for  *)
(* every loss, and the outcome of a stream job stands unless it is          *)
(* cancelled, deleted or something is lost.  (An RQ that calls it after     *)
(* every attempt marks failed what its retry then goes on with.)            *)
THEOREM Implements ==
  ASSUME ~EagerCallback
  PROVE  Spec => ProducesClips
  <1> DEFINE I == TypeInv /\ OrderInv /\ WhileUninterrupted /\ OutcomeInv /\ Paid
  <1>1. Init => I /\ Production!Init
    <2> SUFFICES ASSUME Init PROVE I /\ Production!Init
      OBVIOUS
    <2>1. TypeInv /\ OrderInv /\ WhileUninterrupted /\ Paid
      BY TypeInvInit, OrderInit, PaidInit, ChainInit
    <2>2. OutcomeInv
      BY NotEnded DEF Init, OutcomeInv, Outcomes, OutcomeStands, NothingAsked
    <2>3. Reports = [j \in Jobs |-> "none"] /\ Proposed = [j \in Jobs |-> {}] /\ Asked = [j \in Jobs |-> {}]
      BY ReportOf DEF Init, Reports, Proposed, Asked, AllCandidates
    <2> QED BY <2>1, <2>2, <2>3 DEF Init, Production!Init
  <1>2. I /\ [Next]_vars => I' /\ [Production!Next]_(Production!vars)
    <2> SUFFICES ASSUME I, [Next]_vars
                 PROVE  I' /\ [Production!Next]_(Production!vars)
      OBVIOUS
    <2>1. TypeInv' /\ OrderInv' /\ WhileUninterrupted' /\ OutcomeInv' /\ Paid'
      BY TypeInvNext, OrderNext, ChainNext, OutcomeNext, PaidNext
    <2> QED BY <2>1, StepProduces
  <1> QED BY <1>1, <1>2, PTL DEF Spec, ProducesClips, Production!Spec
=============================================================================
