-------------------------- MODULE RenderingProofs ---------------------------
(***************************************************************************)
(* Proofs, for any number of clips, runs, retries and interruptions, about *)
(* Rendering.                                                              *)
(***************************************************************************)
EXTENDS Rendering, Functions, FiniteSetTheorems, NaturalsInduction, WellFoundedInduction, TLAPS

RunRecord == [pc : Pcs, left : Nat, clip : 0..MaxClips, video : Nat, thumb : Nat]

(* TypeOK, without the columns that no proof needs more of.                 *)
ClipsTyped ==
  /\ clip \in [Clips -> Statuses] /\ video \in [Clips -> Nat] /\ thumb \in [Clips -> Nat]
  /\ approved \in [Clips -> Nat]
RunsTyped == run \in [Runs -> RunRecord]
StoreTyped == store \subseteq Nat \ {0} /\ IsFiniteSet(store)
OthersTyped ==
  /\ job \in {"active", "cancelled", "failed", "deleted"} /\ dropped \in BOOLEAN /\ raw \in BOOLEAN
  /\ annotation \in Sources /\ owed \in Nat /\ faults \in 0..MaxFaults
  /\ requests \subseteq {"caption", "delete"} \X (0..MaxClips)
Typed == ClipsTyped /\ RunsTyped /\ StoreTyped /\ OthersTyped

USE DEF jobRow

-----------------------------------------------------------------------------
(* A set of numbers up to n has a greatest one.                             *)
LEMMA Maximum ==
  ASSUME NEW n \in Nat, NEW S \in SUBSET (1..n), S # {}
  PROVE  \E c \in S : \A d \in S : d <= c
  <1> DEFINE T == {x \in Nat : n - x \in S}
  <1>1. PICK s \in S : TRUE
    OBVIOUS
  <1>2. n - s \in T
    OBVIOUS
  <1>3. PICK x \in T : \A y \in T : ~(<<y, x>> \in OpToRel(<, Nat))
    <2>1. T \subseteq Nat /\ T # {}
      BY <1>2
    <2> HIDE DEF T
    <2> QED BY <2>1, WFMin, NatLessThanWellFounded
  <1>4. \A y \in T : ~(y < x)
    BY <1>3 DEF OpToRel
  <1>5. n - x \in S
    OBVIOUS
  <1>6. ASSUME NEW d \in S PROVE d <= n - x
    <2>1. n - d \in T /\ d \in Nat
      OBVIOUS
    <2>2. ~(n - d < x)
      BY <2>1, <1>4
    <2> QED BY <2>1, <2>2
  <1> QED BY <1>5, <1>6

(* The latest clip is one, unless there is none.                            *)
LEMMA Latest ==
  /\ LatestClip \in 0..MaxClips
  /\ LatestClip = 0 => \A c \in Clips : ~Exists(c)
  /\ LatestClip # 0 => /\ LatestClip \in Clips /\ Exists(LatestClip)
                       /\ \A c \in Clips : Exists(c) => c <= LatestClip
  <1> USE RenderingAssumption
  <1>1. Existing \subseteq 1..MaxClips
    BY DEF Existing, Clips
  <1>2. CASE Existing = {}
    BY <1>2 DEF LatestClip, Existing
  <1>3. CASE Existing # {}
    <2>1. \E c \in Existing : \A d \in Existing : d <= c
      BY <1>1, <1>3, Maximum
    <2>2. LatestClip \in Existing /\ \A d \in Existing : d <= LatestClip
      BY <1>3, <2>1 DEF LatestClip
    <2> QED BY <1>1, <2>2 DEF Existing, Clips
  <1> QED BY <1>2, <1>3

LEMMA FiniteImage ==
  ASSUME NEW S, IsFiniteSet(S), NEW f
  PROVE  IsFiniteSet({f[x] : x \in S})
  <1> DEFINE T == {f[x] : x \in S}
             g == [x \in S |-> f[x]]
  <1>1. g \in Surjection(S, T)
    BY DEF Surjection
  <1> QED BY <1>1, FS_Surjection

(* There always is a key that nobody knows.                                 *)
LEMMA Fresh ==
  ASSUME Typed, IsFiniteSet(Runs)
  PROVE  NewKey \in Nat \ {0} /\ NewKey \notin Handed
  <1> DEFINE n == Cardinality(Handed)
             V == {video[c] : c \in Clips}
             T == {thumb[c] : c \in Clips}
             A == {approved[c] : c \in Clips}
             RV == {run[r].video : r \in Runs}
             RT == {run[r].thumb : r \in Runs}
  <1>1. IsFiniteSet(V) /\ IsFiniteSet(T) /\ IsFiniteSet(A)
    <2>1. IsFiniteSet(Clips)
      BY RenderingAssumption, FS_Interval DEF Clips
    <2> QED BY <2>1, FiniteImage
  <1>2. IsFiniteSet(RV) /\ IsFiniteSet(RT)
    <2> DEFINE f == [r \in Runs |-> run[r].video]
               g == [r \in Runs |-> run[r].thumb]
    <2>1. RV = {f[r] : r \in Runs} /\ RT = {g[r] : r \in Runs}
      OBVIOUS
    <2>2. IsFiniteSet({f[r] : r \in Runs}) /\ IsFiniteSet({g[r] : r \in Runs})
      <3> HIDE DEF f, g
      <3> QED BY FiniteImage
    <2> QED BY <2>1, <2>2
  <1>3. Handed = ((((store \cup V) \cup T) \cup A) \cup RV) \cup RT
    BY DEF Handed
  <1>4. IsFiniteSet(Handed) /\ n \in Nat
    <2> HIDE DEF V, T, A, RV, RT
    <2>1. IsFiniteSet(store)
      BY DEF Typed, StoreTyped
    <2>2. IsFiniteSet((store \cup V) \cup T)
      BY <1>1, <2>1, FS_Union
    <2>3. IsFiniteSet((((store \cup V) \cup T) \cup A) \cup RV)
      BY <1>1, <1>2, <2>2, FS_Union
    <2>4. IsFiniteSet(Handed)
      BY <1>2, <1>3, <2>3, FS_Union
    <2> QED BY <2>4, FS_CardinalityType
  <1>5. \E k \in 1..(n + 1) : k \notin Handed
    <2> SUFFICES ASSUME 1..(n + 1) \subseteq Handed PROVE FALSE
      OBVIOUS
    <2>1. Cardinality(1..(n + 1)) = n + 1
      BY <1>4, FS_Interval
    <2>2. Cardinality(1..(n + 1)) <= n
      BY <1>4, FS_Subset
    <2> QED BY <1>4, <2>1, <2>2
  <1>6. NewKey \in 1..(n + 1) /\ NewKey \notin Handed
    BY <1>5 DEF NewKey
  <1> QED BY <1>4, <1>6

-----------------------------------------------------------------------------
(* What becomes of a run.                                                   *)
LEMMA IdleFields ==
  /\ Idle \in RunRecord
  /\ Idle.pc = "free" /\ Idle.left = 0 /\ Idle.clip = 0 /\ Idle.video = 0 /\ Idle.thumb = 0
  BY RenderingAssumption DEF Idle, RunRecord, Pcs

LEMMA NewRun ==
  ASSUME NEW l \in Nat, NEW p \in Pcs
  PROVE  LET new == [Idle EXCEPT !.pc = p, !.left = l]
         IN /\ new \in RunRecord
            /\ new.pc = p /\ new.clip = 0 /\ new.video = 0 /\ new.thumb = 0
  BY IdleFields DEF RunRecord

LEMMA GotoEffect ==
  ASSUME RunsTyped, NEW r \in Runs, NEW p \in Pcs, Goto(r, p)
  PROVE  /\ RunsTyped' /\ \A s \in Runs \ {r} : run'[s] = run[s]
         /\ run'[r].pc = p /\ run'[r].clip = run[r].clip
         /\ run'[r].video = run[r].video /\ run'[r].thumb = run[r].thumb
  BY DEF RunsTyped, Goto, RunRecord

LEMMA FinishEffect ==
  ASSUME RunsTyped, NEW r \in Runs, Finish(r)
  PROVE  /\ RunsTyped' /\ \A s \in Runs \ {r} : run'[s] = run[s]
         /\ run'[r] = Idle
  BY IdleFields DEF RunsTyped, Finish

LEMMA ReturnEffect ==
  ASSUME RunsTyped, NEW r \in Runs, Return(r)
  PROVE  /\ RunsTyped' /\ \A s \in Runs \ {r} : run'[s] = run[s]
         /\ run'[r].pc = "ack" /\ run'[r].video = 0 /\ run'[r].thumb = 0
  <1> DEFINE new == [Idle EXCEPT !.pc = "ack", !.left = run[r].left]
  <1>1. run[r].left \in Nat
    BY DEF RunsTyped, RunRecord
  <1>2. new \in RunRecord /\ new.pc = "ack" /\ new.video = 0 /\ new.thumb = 0
    BY <1>1, NewRun DEF Pcs
  <1>3. run' = [run EXCEPT ![r] = new]
    BY DEF Return
  <1> HIDE DEF new
  <1> QED BY <1>2, <1>3 DEF RunsTyped

LEMMA EnqueueEffect ==
  ASSUME RunsTyped, NEW r \in Runs, EnqueueRendering(r)
  PROVE  /\ RunsTyped' /\ \A s \in Runs \ {r} : run'[s] = run[s]
         /\ run[r].pc = "free"
         /\ run'[r].pc = "queued" /\ run'[r].video = 0 /\ run'[r].thumb = 0
         /\ UNCHANGED <<job, raw, clip, annotation, video, thumb, store, approved, requests, faults>>
  <1> DEFINE new == [Idle EXCEPT !.pc = "queued", !.left = Retries]
  <1>1. new \in RunRecord /\ new.pc = "queued" /\ new.video = 0 /\ new.thumb = 0
    BY RenderingAssumption, NewRun DEF Pcs
  <1>2. run' = [run EXCEPT ![r] = new] /\ run[r].pc = "free"
    BY DEF EnqueueRendering, Live
  <1> HIDE DEF new
  <1> QED BY <1>1, <1>2 DEF RunsTyped, EnqueueRendering, objects

(* An attempt that dies leaves a retry or nothing, and may mark the latest  *)
(* clip failed.                                                             *)
LEMMA RaiseEffect ==
  ASSUME Typed, NEW r \in Runs, Raise(r)
  PROVE  /\ RunsTyped' /\ \A s \in Runs \ {r} : run'[s] = run[s]
         /\ run'[r].pc = IF run[r].left > 0 THEN "parked" ELSE "free"
         /\ run'[r].video = 0 /\ run'[r].thumb = 0
         /\ clip' \in [Clips -> Statuses]
         /\ \A c \in Clips : IF c = LatestClip /\ (run[r].left = 0 \/ EagerCallback)
                             THEN clip'[c] = "failed" ELSE clip'[c] = clip[c]
  <1>1. run[r].left \in Nat /\ clip \in [Clips -> Statuses] /\ RunsTyped
    BY DEF Typed, ClipsTyped, RunsTyped, RunRecord
  <1>2. /\ RunsTyped' /\ \A s \in Runs \ {r} : run'[s] = run[s]
        /\ run'[r].pc = IF run[r].left > 0 THEN "parked" ELSE "free"
        /\ run'[r].video = 0 /\ run'[r].thumb = 0
    <2>1. CASE run[r].left > 0
      <3> DEFINE new == [Idle EXCEPT !.pc = "parked", !.left = run[r].left - 1]
      <3>0. run[r].left - 1 \in Nat /\ "parked" \in Pcs
        BY <1>1, <2>1 DEF Pcs
      <3>1. new \in RunRecord /\ new.pc = "parked" /\ new.video = 0 /\ new.thumb = 0
        BY <3>0, NewRun
      <3>2. run' = [run EXCEPT ![r] = new]
        BY <2>1 DEF Raise
      <3> HIDE DEF new
      <3> QED BY <1>1, <2>1, <3>1, <3>2 DEF RunsTyped
    <2>2. CASE ~(run[r].left > 0)
      BY <1>1, <2>2, FinishEffect, IdleFields DEF Raise
    <2> QED BY <2>1, <2>2
  <1>3. /\ clip' \in [Clips -> Statuses]
        /\ \A c \in Clips : IF c = LatestClip /\ (run[r].left = 0 \/ EagerCallback)
                            THEN clip'[c] = "failed" ELSE clip'[c] = clip[c]
    <2>0. 0 \notin Clips /\ "failed" \in Statuses
      BY DEF Clips, Statuses
    <2>1. CASE run[r].left = 0 \/ EagerCallback
      BY <1>1, <2>0, <2>1, Latest DEF Raise, MarkFailed
    <2>2. CASE ~(run[r].left = 0 \/ EagerCallback)
      BY <1>1, <2>2 DEF Raise
    <2> QED BY <2>1, <2>2
  <1> QED BY <1>2, <1>3

(* What a step does, as far as the proofs need it.                          *)
LEMMA QuietEffect ==
  ASSUME Typed,
         \/ ScoringDies \/ ScoringAgain \/ CancelJob
         \/ \E c \in Clips : ReviewClip(c) \/ UpdateClipCaption(c) \/ BeginCaption(c) \/ CommitCaption(c)
  PROVE  /\ UNCHANGED <<raw, clip, video, thumb, store, run>>
         /\ OthersTyped' /\ approved' \in [Clips -> Nat]
         /\ \A c \in Nat : <<"delete", c>> \in requests <=> <<"delete", c>> \in requests'
         /\ job' = "deleted" => job = "deleted"
  <1> USE RenderingAssumption DEF Typed, OthersTyped, objects
  <1>1. CASE ScoringDies \/ ScoringAgain
    <2>1. /\ job' \in {job, "active", "failed"} /\ faults' \in 0..MaxFaults /\ owed' \in Nat
          /\ UNCHANGED <<dropped, raw, clip, annotation, video, thumb, store, approved, requests, run>>
      BY <1>1 DEF ScoringDies, ScoringAgain
    <2> QED BY <2>1 DEF ClipsTyped
  <1>2. CASE CancelJob
    BY <1>2 DEF CancelJob, ClipsTyped
  <1>3. ASSUME NEW c \in Clips, ReviewClip(c)
        PROVE  /\ UNCHANGED <<raw, clip, video, thumb, store, run, requests, job, dropped, annotation, owed, faults>>
               /\ approved' \in [Clips -> Nat]
    BY <1>3 DEF ReviewClip, ClipsTyped
  <1>4. ASSUME NEW c \in Clips, UpdateClipCaption(c) \/ BeginCaption(c) \/ CommitCaption(c)
        PROVE  /\ UNCHANGED <<raw, clip, video, thumb, store, run, approved, job, dropped, owed, faults>>
               /\ annotation' \in Sources
               /\ \/ requests' = requests \/ requests' = requests \cup {<<"caption", c>>}
                  \/ requests' = requests \ {<<"caption", c>>}
    BY <1>4 DEF UpdateClipCaption, BeginCaption, CommitCaption, Sources
  <1>5. \A c \in Clips : <<"caption", c>> \in {"caption", "delete"} \X (0..MaxClips)
    BY DEF Clips
  <1> QED BY <1>1, <1>2, <1>3, <1>4, <1>5 DEF ClipsTyped

LEMMA AddClipEffect ==
  ASSUME Typed, AddClip
  PROVE  /\ OthersTyped' /\ job # "deleted"
         /\ job' = "active" /\ UNCHANGED <<raw, video, thumb, approved, store, run, requests>>
         /\ \E c \in Clips : clip[c] = "absent" /\ clip' = [clip EXCEPT ![c] = "pending"]
  <1>1. PICK c \in Clips : /\ clip[c] = "absent" /\ clip' = [clip EXCEPT ![c] = "pending"]
                           /\ faults' = IF c = 1 THEN faults ELSE faults + 1
    BY DEF AddClip
  <1>2. /\ UNCHANGED <<dropped, raw, annotation, video, thumb, approved, store, run, requests>>
        /\ job' = "active"
        /\ faults' <= MaxFaults /\ owed' = owed + 1 /\ job # "deleted"
    BY DEF AddClip, objects
  <1>3. faults \in 0..MaxFaults /\ owed \in Nat /\ MaxFaults \in Nat
    BY RenderingAssumption DEF Typed, OthersTyped
  <1>4. faults' \in 0..MaxFaults /\ owed' \in Nat
    BY <1>1, <1>2, <1>3
  <1>5. OthersTyped'
    BY <1>2, <1>4 DEF Typed, OthersTyped
  <1> QED BY <1>1, <1>2, <1>5

LEMMA DeleteRowsEffect ==
  ASSUME ClipsTyped, NEW gone \in SUBSET Clips, DeleteRowsOf(gone)
  PROVE  /\ ClipsTyped'
         /\ \A c \in Clips : /\ clip'[c] = IF c \in gone THEN "deleted" ELSE clip[c]
                             /\ video'[c] = IF c \in gone THEN 0 ELSE video[c]
                             /\ thumb'[c] = IF c \in gone THEN 0 ELSE thumb[c]
  BY DEF DeleteRowsOf, ClipsTyped, Statuses

LEMMA DeleteFilesEffect ==
  ASSUME Typed, NEW c \in Clips, DeleteClipFiles(c)
  PROVE  /\ UNCHANGED <<job, raw, clip, video, thumb, approved, run>>
         /\ OthersTyped'
         /\ store' = store \ {video[c], thumb[c]}
         /\ requests' = requests \cup {<<"delete", c>>}
  <1>1. <<"delete", c>> \in {"caption", "delete"} \X (0..MaxClips)
    BY RenderingAssumption DEF Clips
  <1> QED BY <1>1 DEF DeleteClipFiles, Typed, OthersTyped

LEMMA DeleteClipRowEffect ==
  ASSUME Typed, NEW c \in Clips, DeleteClipRow(c)
  PROVE  /\ ClipsTyped' /\ OthersTyped' /\ UNCHANGED <<job, raw, store, run>>
         /\ requests' = requests \ {<<"delete", c>>}
         /\ \A d \in Clips : IF d = c /\ Exists(c)
                             THEN clip'[d] = "deleted" /\ video'[d] = 0 /\ thumb'[d] = 0
                             ELSE clip'[d] = clip[d] /\ video'[d] = video[d] /\ thumb'[d] = thumb[d]
  <1>1. DeleteRowsOf({c} \cap Existing) /\ {c} \cap Existing \in SUBSET Clips
    BY DEF DeleteClipRow, Existing
  <1>2. OthersTyped' /\ UNCHANGED <<job, raw, store, run>> /\ requests' = requests \ {<<"delete", c>>}
    BY DEF DeleteClipRow, Typed, OthersTyped
  <1> QED BY <1>1, <1>2, DeleteRowsEffect DEF Existing, Typed

LEMMA DeleteJobFilesEffect ==
  ASSUME Typed, DeleteJobFiles
  PROVE  /\ UNCHANGED <<job, clip, video, thumb, approved, run>>
         /\ OthersTyped' /\ raw' = FALSE
         /\ store' \subseteq store
         /\ \A k \in store \ store' : \E c \in Clips : k \in {video[c], thumb[c]}
  <1>1. <<"delete", 0>> \in {"caption", "delete"} \X (0..MaxClips)
    BY RenderingAssumption
  <1>2. raw' = FALSE /\ FALSE \in BOOLEAN
    BY DEF DeleteJobFiles
  <1> QED BY <1>1, <1>2 DEF DeleteJobFiles, Typed, OthersTyped, Existing

LEMMA DeleteJobRowsEffect ==
  ASSUME Typed, DeleteJobRows
  PROVE  /\ ClipsTyped' /\ OthersTyped' /\ UNCHANGED <<raw, store, run>> /\ job' = "deleted"
         /\ \A c \in Clips : IF Exists(c) THEN clip'[c] = "deleted" /\ video'[c] = 0 /\ thumb'[c] = 0
                             ELSE clip'[c] = clip[c] /\ video'[c] = video[c] /\ thumb'[c] = thumb[c]
  <1>1. DeleteRowsOf(Existing) /\ Existing \in SUBSET Clips
    BY DEF DeleteJobRows, Existing
  <1>2. OthersTyped' /\ UNCHANGED <<raw, store, run>> /\ job' = "deleted"
    BY DEF DeleteJobRows, Typed, OthersTyped
  <1> QED BY <1>1, <1>2, DeleteRowsEffect DEF Existing, Typed

LEMMA MoveEffect ==
  ASSUME Typed, NEW r \in Runs, RunRetry(r) \/ Dequeue(r) \/ RenderVideo(r) \/ Ack(r)
  PROVE  /\ UNCHANGED <<job, raw, annotation, approved, owed, requests, faults, clip, video, thumb, store>>
         /\ RunsTyped' /\ \A s \in Runs \ {r} : run'[s] = run[s]
         /\ run'[r].video \in {0, run[r].video} /\ run'[r].thumb \in {0, run[r].thumb}
         /\ \/ run[r].pc = "parked" /\ run'[r].pc = "queued"
            \/ run[r].pc = "queued" /\ run'[r].pc = "free" /\ job = "cancelled" /\ dropped'
            \/ run[r].pc = "queued" /\ run'[r].pc = "begin" /\ job # "cancelled"
            \/ run[r].pc = "work" /\ run'[r].pc = "video" /\ run'[r].clip = run[r].clip
            \/ run[r].pc = "ack" /\ run'[r].pc = "free"
  <1> USE GotoEffect, FinishEffect, IdleFields DEF Typed, objects
  <1>p. {"queued", "begin", "video"} \subseteq Pcs
    BY DEF Pcs
  <1>1. CASE RunRetry(r)
    BY <1>p, <1>1 DEF RunRetry
  <1>2. CASE Dequeue(r)
    BY <1>p, <1>2 DEF Dequeue
  <1>3. CASE RenderVideo(r)
    BY <1>p, <1>3 DEF RenderVideo
  <1>4. CASE Ack(r)
    BY <1>p, <1>4 DEF Ack
  <1> QED BY <1>1, <1>2, <1>3, <1>4

LEMMA BeginEffect ==
  ASSUME Typed, NEW r \in Runs, Begin(r)
  PROVE  /\ UNCHANGED <<job, raw, annotation, approved, owed, requests, faults, video, thumb, store>>
         /\ run[r].pc = "begin"
         /\ RunsTyped' /\ \A s \in Runs \ {r} : run'[s] = run[s]
         /\ run'[r].video \in {0, run[r].video} /\ run'[r].thumb \in {0, run[r].thumb}
         /\ \/ /\ \A c \in Clips : ~Exists(c)
               /\ run'[r].pc = "free" /\ clip' = clip
            \/ \E c \in Clips : /\ Exists(c) /\ clip' = [clip EXCEPT ![c] = "rendering"]
                                /\ run'[r].pc = "work" /\ run'[r].clip = c
  <1>1. UNCHANGED <<job, raw, annotation, approved, owed, requests, faults, video, thumb, store>>
    BY DEF Begin, objects
  <1>2. CASE LatestClip = 0
    BY <1>1, <1>2, Latest, FinishEffect, IdleFields DEF Begin, Typed
  <1>3. CASE LatestClip # 0
    <2>1. LatestClip \in Clips /\ Exists(LatestClip) /\ LatestClip \in 0..MaxClips
      BY <1>3, Latest
    <2>2. /\ run[r].pc = "begin" /\ clip' = [clip EXCEPT ![LatestClip] = "rendering"]
          /\ run' = [run EXCEPT ![r].pc = "work", ![r].clip = LatestClip]
      BY <1>3 DEF Begin
    <2>3. "work" \in Pcs
      BY DEF Pcs
    <2> HIDE DEF LatestClip
    <2>4. /\ RunsTyped' /\ \A s \in Runs \ {r} : run'[s] = run[s]
          /\ run'[r].pc = "work" /\ run'[r].clip = LatestClip
          /\ run'[r].video = run[r].video /\ run'[r].thumb = run[r].thumb
      BY <2>1, <2>2, <2>3 DEF Typed, RunsTyped, RunRecord
    <2> QED BY <1>1, <2>1, <2>2, <2>4
  <1> QED BY <1>2, <1>3

LEMMA FailsEffect ==
  ASSUME Typed, NEW r \in Runs, RenderFails(r)
  PROVE  /\ UNCHANGED <<job, raw, annotation, approved, owed, requests, faults, video, thumb, store>>
         /\ run[r].pc = "work"
         /\ RunsTyped' /\ \A s \in Runs \ {r} : run'[s] = run[s]
         /\ run'[r].pc = "ack" /\ run'[r].video = 0 /\ run'[r].thumb = 0
         /\ IF run[r].clip # 0 /\ Exists(run[r].clip)
            THEN clip' = [clip EXCEPT ![run[r].clip] = "failed"] ELSE clip' = clip
  BY ReturnEffect DEF RenderFails, objects, MarkFailed, Typed

LEMMA PutVideoEffect ==
  ASSUME Typed, IsFiniteSet(Runs), NEW r \in Runs, PutVideo(r)
  PROVE  /\ UNCHANGED <<job, raw, annotation, approved, owed, requests, faults, clip, video, thumb>>
         /\ run[r].pc = "video"
         /\ RunsTyped' /\ \A s \in Runs \ {r} : run'[s] = run[s]
         /\ run'[r].pc = "thumb" /\ run'[r].clip = run[r].clip
         /\ run'[r].thumb = run[r].thumb /\ run'[r].video = NewKey
         /\ store' = store \cup {NewKey}
  <1>1. NewKey \in Nat /\ "thumb" \in Pcs
    BY Fresh DEF Pcs
  <1>2. /\ run' = [run EXCEPT ![r].pc = "thumb", ![r].video = NewKey]
        /\ run[r].pc = "video" /\ store' = store \cup {NewKey}
        /\ UNCHANGED <<job, raw, annotation, approved, owed, requests, faults, clip, video, thumb>>
    BY DEF PutVideo
  <1> HIDE DEF NewKey
  <1>3. /\ RunsTyped' /\ \A s \in Runs \ {r} : run'[s] = run[s]
        /\ run'[r].pc = "thumb" /\ run'[r].clip = run[r].clip
        /\ run'[r].thumb = run[r].thumb /\ run'[r].video = NewKey
    BY <1>1, <1>2 DEF Typed, RunsTyped, RunRecord
  <1> QED BY <1>2, <1>3

LEMMA PutThumbnailEffect ==
  ASSUME Typed, IsFiniteSet(Runs), NEW r \in Runs, PutThumbnail(r)
  PROVE  /\ UNCHANGED <<job, raw, annotation, approved, owed, requests, faults, clip, video, thumb>>
         /\ run[r].pc = "thumb"
         /\ RunsTyped' /\ \A s \in Runs \ {r} : run'[s] = run[s]
         /\ run'[r].pc = "commit" /\ run'[r].clip = run[r].clip /\ run'[r].video = run[r].video
         /\ \/ run'[r].thumb = NewKey /\ store' = store \cup {NewKey}
            \/ run'[r].thumb = run[r].thumb /\ store' = store
  <1>1. NewKey \in Nat /\ "commit" \in Pcs
    BY Fresh DEF Pcs
  <1>2. CASE run' = [run EXCEPT ![r].pc = "commit", ![r].thumb = NewKey] /\ store' = store \cup {NewKey}
    BY <1>1, <1>2 DEF PutThumbnail, Typed, RunsTyped, RunRecord
  <1>3. CASE Goto(r, "commit") /\ UNCHANGED store
    BY <1>1, <1>3, GotoEffect DEF PutThumbnail, Typed
  <1> QED BY <1>2, <1>3 DEF PutThumbnail

LEMMA CommitEffect ==
  ASSUME Typed, NEW r \in Runs, CommitClip(r)
  PROVE  LET c == run[r].clip
         IN /\ UNCHANGED <<job, raw, approved, owed, requests, faults, store>>
            /\ annotation' \in Sources
            /\ run[r].pc = "commit"
            /\ RunsTyped' /\ \A s \in Runs \ {r} : run'[s] = run[s]
            /\ run'[r].pc = "ack" /\ run'[r].video = 0 /\ run'[r].thumb = 0
            /\ IF Exists(c) THEN /\ clip' = [clip EXCEPT ![c] = "rendered"]
                                 /\ video' = [video EXCEPT ![c] = run[r].video]
                                 /\ thumb' = [thumb EXCEPT ![c] = run[r].thumb]
                            ELSE UNCHANGED <<clip, video, thumb>>
  BY ReturnEffect DEF CommitClip, objects, Typed, OthersTyped, Sources

LEMMA InterruptedEffect ==
  ASSUME Typed, NEW r \in Runs, Interrupted(r)
  PROVE  /\ UNCHANGED <<job, raw, annotation, approved, owed, requests, video, thumb, store>>
         /\ faults' = faults + 1 /\ faults' \in 0..MaxFaults
         /\ run[r].pc \notin {"free", "parked", "queued"} /\ Raise(r)
  BY RenderingAssumption DEF Interrupted, objects, Typed, OthersTyped

-----------------------------------------------------------------------------
(* Types.                                                                   *)
(* That a run was dropped is not forgotten.                                 *)
LEMMA DroppedStays ==
  ASSUME [Next]_vars, dropped \in BOOLEAN
  PROVE  dropped' \in BOOLEAN /\ (dropped => dropped')
  <1>1. CASE UNCHANGED vars
    BY <1>1 DEF vars
  <1>2. CASE \/ AddClip \/ ScoringDies \/ ScoringAgain \/ CancelJob \/ DeleteJobFiles \/ DeleteJobRows
    BY <1>2 DEF AddClip, ScoringDies, ScoringAgain, CancelJob, DeleteJobFiles, DeleteJobRows
  <1>3. ASSUME NEW c \in Clips,
               \/ ReviewClip(c) \/ UpdateClipCaption(c) \/ BeginCaption(c) \/ CommitCaption(c)
               \/ DeleteClipFiles(c) \/ DeleteClipRow(c)
        PROVE  dropped' \in BOOLEAN /\ (dropped => dropped')
    BY <1>3 DEF ReviewClip, UpdateClipCaption, BeginCaption, CommitCaption, DeleteClipFiles, DeleteClipRow
  <1>4. ASSUME NEW r \in Runs, EnqueueRendering(r) \/ WorkerStep(r) \/ Interrupted(r)
        PROVE  dropped' \in BOOLEAN /\ (dropped => dropped')
    BY <1>4 DEF EnqueueRendering, WorkerStep, Interrupted, RunRetry, Dequeue, Begin, RenderFails,
                RenderVideo, PutVideo, PutThumbnail, CommitClip, Ack
  <1> QED BY <1>1, <1>2, <1>3, <1>4 DEF Next

LEMMA TypedInit ==
  ASSUME Init
  PROVE  Typed
  <1>1. ClipsTyped /\ RunsTyped
    BY IdleFields DEF Init, ClipsTyped, RunsTyped, Statuses
  <1>2. StoreTyped
    BY FS_EmptySet DEF Init, StoreTyped
  <1>3. OthersTyped
    <2>1. dropped \in BOOLEAN /\ raw \in BOOLEAN
      BY DEF Init
    <2>2. job = "active" /\ annotation = "none" /\ owed = 0 /\ faults = 0 /\ requests = {}
      BY DEF Init
    <2> QED BY <2>1, <2>2, RenderingAssumption DEF OthersTyped, Sources
  <1> QED BY <1>1, <1>2, <1>3 DEF Typed

(* The ways a step treats the store.                                        *)
LEMMA StoreStep ==
  ASSUME Typed, IsFiniteSet(Runs),
         store' \subseteq store \/ store' = store \cup {NewKey}
  PROVE  StoreTyped'
  <1>1. NewKey \in Nat \ {0} /\ StoreTyped
    BY Fresh DEF Typed
  <1> HIDE DEF NewKey
  <1>2. CASE store' \subseteq store
    BY <1>1, <1>2, FS_Subset DEF StoreTyped
  <1>3. CASE store' = store \cup {NewKey}
    <2>1. IsFiniteSet(store \cup {NewKey})
      BY <1>1, FS_AddElement DEF StoreTyped
    <2> QED BY <1>1, <1>3, <2>1 DEF StoreTyped
  <1> QED BY <1>2, <1>3

LEMMA TypedStep ==
  ASSUME Typed, IsFiniteSet(Runs), [Next]_vars
  PROVE  Typed'
  <1> USE DEF Typed
  <1>d. dropped' \in BOOLEAN
    BY DroppedStays DEF OthersTyped
  <1>1. CASE UNCHANGED vars
    BY <1>1 DEF vars, objects, ClipsTyped, RunsTyped, StoreTyped, OthersTyped
  <1>2. CASE \/ ScoringDies \/ ScoringAgain \/ CancelJob
             \/ \E c \in Clips : ReviewClip(c) \/ UpdateClipCaption(c) \/ BeginCaption(c) \/ CommitCaption(c)
    BY <1>2, QuietEffect DEF ClipsTyped, RunsTyped, StoreTyped
  <1>3. CASE AddClip
    BY <1>3, AddClipEffect DEF ClipsTyped, RunsTyped, StoreTyped, Statuses
  <1>4. ASSUME NEW c \in Clips, DeleteClipFiles(c) PROVE Typed'
    BY <1>4, DeleteFilesEffect, StoreStep DEF ClipsTyped, RunsTyped
  <1>5. ASSUME NEW c \in Clips, DeleteClipRow(c) PROVE Typed'
    BY <1>5, DeleteClipRowEffect DEF RunsTyped, StoreTyped
  <1>6. CASE DeleteJobFiles
    BY <1>6, DeleteJobFilesEffect, StoreStep DEF ClipsTyped, RunsTyped
  <1>7. CASE DeleteJobRows
    BY <1>7, DeleteJobRowsEffect DEF RunsTyped, StoreTyped
  <1>8. ASSUME NEW r \in Runs, EnqueueRendering(r) PROVE Typed'
    <2>1. RunsTyped' /\ ClipsTyped' /\ StoreTyped'
      BY <1>8, EnqueueEffect DEF ClipsTyped, StoreTyped
    <2>2. owed' \in Nat
      BY <1>8 DEF EnqueueRendering, OthersTyped
    <2>3. OthersTyped'
      BY <1>d, <1>8, <2>2, EnqueueEffect DEF OthersTyped
    <2> QED BY <2>1, <2>3
  <1>9. ASSUME NEW r \in Runs, RunRetry(r) \/ Dequeue(r) \/ RenderVideo(r) \/ Ack(r) PROVE Typed'
    BY <1>d, <1>9, MoveEffect DEF ClipsTyped, StoreTyped, OthersTyped
  <1>10. ASSUME NEW r \in Runs, Begin(r) PROVE Typed'
    BY <1>d, <1>10, BeginEffect DEF ClipsTyped, StoreTyped, OthersTyped, Statuses
  <1>11. ASSUME NEW r \in Runs, RenderFails(r) PROVE Typed'
    BY <1>d, <1>11, FailsEffect DEF ClipsTyped, StoreTyped, OthersTyped, Statuses
  <1>12. ASSUME NEW r \in Runs, PutVideo(r) PROVE Typed'
    <2>1. RunsTyped' /\ ClipsTyped' /\ OthersTyped' /\ store' = store \cup {NewKey}
      BY <1>d, <1>12, PutVideoEffect DEF ClipsTyped, OthersTyped
    <2> QED BY <2>1, StoreStep
  <1>13. ASSUME NEW r \in Runs, PutThumbnail(r) PROVE Typed'
    <2>1. /\ RunsTyped' /\ ClipsTyped' /\ OthersTyped'
          /\ store' = store \cup {NewKey} \/ store' \subseteq store
      BY <1>d, <1>13, PutThumbnailEffect DEF ClipsTyped, OthersTyped
    <2> QED BY <2>1, StoreStep
  <1>14. ASSUME NEW r \in Runs, CommitClip(r) PROVE Typed'
    <2>1. run[r].video \in Nat /\ run[r].thumb \in Nat
      BY DEF RunsTyped, RunRecord
    <2>2. ClipsTyped'
      BY <1>14, <2>1, CommitEffect DEF ClipsTyped, Statuses
    <2> QED BY <1>d, <1>14, <2>2, CommitEffect DEF StoreTyped, OthersTyped
  <1>15. ASSUME NEW r \in Runs, Interrupted(r) PROVE Typed'
    BY <1>d, <1>15, InterruptedEffect, RaiseEffect DEF ClipsTyped, StoreTyped, OthersTyped
  <1> QED BY <1>1, <1>2, <1>3, <1>4, <1>5, <1>6, <1>7, <1>8, <1>9, <1>10, <1>11, <1>12, <1>13,
             <1>14, <1>15 DEF Next, WorkerStep

(* Rows, runs and the store hold values of their types in every state,      *)
(* however many clips, runs and interruptions there are: rendering.py and   *)
(* the requests of clips.py write no status the enums lack.                 *)
THEOREM TypeCorrect ==
  ASSUME IsFiniteSet(Runs)
  PROVE  Spec => []TypeOK
  <1>1. Typed => TypeOK
    BY DEF Typed, ClipsTyped, RunsTyped, StoreTyped, OthersTyped, TypeOK, RunRecord
  <1>2. Typed /\ [Next]_vars => Typed'
    BY TypedStep
  <1> QED BY <1>1, <1>2, TypedInit, PTL DEF Spec

-----------------------------------------------------------------------------
(* Whose objects are whose: a run's are in storage, and no other run's or   *)
(* row's; no two rows share one.                                            *)
RunKeys(r) == {run[r].video, run[r].thumb} \ {0}
RowKeys(c) == {video[c], thumb[c]} \ {0}
OwnKeys ==
  /\ \A r \in Runs : RunKeys(r) \subseteq store
  /\ \A r, s \in Runs : r # s => RunKeys(r) \cap RunKeys(s) = {}
  /\ \A r \in Runs, c \in Clips : RunKeys(r) \cap RowKeys(c) = {}
  /\ \A c, d \in Clips : c # d => RowKeys(c) \cap RowKeys(d) = {}

(* A run past Begin works on some clip, which has had a row, and one past   *)
(* its first upload has a key for the video.                                *)
AtWork == {"work", "video", "thumb", "commit"}
Placed ==
  \A r \in Runs :
    /\ run[r].pc \in AtWork => run[r].clip \in Clips /\ clip[run[r].clip] # "absent"
    /\ run[r].pc \in {"thumb", "commit"} => run[r].video # 0

(* Nobody gets a key that is not theirs.                                    *)
LEMMA KeysKept ==
  ASSUME OwnKeys,
         \A r \in Runs : RunKeys(r)' \subseteq RunKeys(r) /\ RunKeys(r)' \subseteq store',
         \A c \in Clips : RowKeys(c)' \subseteq RowKeys(c)
  PROVE  OwnKeys'
  BY DEF OwnKeys

LEMMA KeyTaken ==
  ASSUME Typed, OwnKeys, IsFiniteSet(Runs), NEW r \in Runs,
         RunKeys(r)' \subseteq RunKeys(r) \cup {NewKey},
         \A s \in Runs \ {r} : RunKeys(s)' = RunKeys(s),
         \A c \in Clips : RowKeys(c)' = RowKeys(c),
         store' = store \cup {NewKey}
  PROVE  OwnKeys'
  <1>1. NewKey \notin Handed
    BY Fresh
  <1>2. \A s \in Runs : NewKey \notin RunKeys(s)
    BY <1>1 DEF Handed, RunKeys
  <1>3. \A c \in Clips : NewKey \notin RowKeys(c)
    BY <1>1 DEF Handed, RowKeys
  <1> HIDE DEF NewKey
  <1> QED BY <1>2, <1>3 DEF OwnKeys

LEMMA KeysHandedOver ==
  ASSUME OwnKeys, NEW r \in Runs, NEW c \in Clips,
         RunKeys(r)' = {}, \A s \in Runs \ {r} : RunKeys(s)' = RunKeys(s),
         RowKeys(c)' = RunKeys(r), \A d \in Clips \ {c} : RowKeys(d)' = RowKeys(d),
         store' = store
  PROVE  OwnKeys'
  BY DEF OwnKeys

LEMMA OwnKeysStep ==
  ASSUME Typed, OwnKeys, Placed, IsFiniteSet(Runs), [Next]_vars
  PROVE  OwnKeys'
  <1>k. /\ \A r \in Runs : RunKeys(r) \subseteq store
        /\ \A r \in Runs, c \in Clips : RunKeys(r) \cap RowKeys(c) = {}
    BY DEF OwnKeys
  <1>a. ASSUME UNCHANGED <<video, thumb, store, run>> PROVE OwnKeys'
    BY <1>a DEF OwnKeys, RunKeys, RowKeys
  <1>b. ASSUME NEW r \in Runs, UNCHANGED <<video, thumb, store>>,
               \A s \in Runs \ {r} : run'[s] = run[s],
               run'[r].video \in {0, run[r].video}, run'[r].thumb \in {0, run[r].thumb}
        PROVE  OwnKeys'
    <2>1. \A s \in Runs : RunKeys(s)' \subseteq RunKeys(s)
      BY <1>b DEF RunKeys
    <2>2. \A c \in Clips : RowKeys(c)' = RowKeys(c)
      BY <1>b DEF RowKeys
    <2>3. store' = store
      BY <1>b
    <2> QED BY <1>k, <2>1, <2>2, <2>3, KeysKept
  <1>1. CASE UNCHANGED vars
    BY <1>1, <1>a DEF vars, objects
  <1>2. CASE \/ ScoringDies \/ ScoringAgain \/ CancelJob
             \/ \E c \in Clips : ReviewClip(c) \/ UpdateClipCaption(c) \/ BeginCaption(c) \/ CommitCaption(c)
    BY <1>2, <1>a, QuietEffect
  <1>3. CASE AddClip
    BY <1>3, <1>a, AddClipEffect
  <1>4. ASSUME NEW c \in Clips, DeleteClipFiles(c) PROVE OwnKeys'
    <2>1. UNCHANGED <<video, thumb, run>> /\ store' = store \ {video[c], thumb[c]}
      BY <1>4, DeleteFilesEffect
    <2>2. \A s \in Runs : RunKeys(s)' = RunKeys(s)
      BY <2>1 DEF RunKeys
    <2>3. \A d \in Clips : RowKeys(d)' = RowKeys(d)
      BY <2>1 DEF RowKeys
    <2>4. \A s \in Runs : RunKeys(s) \cap {video[c], thumb[c]} = {}
      BY <1>k DEF RunKeys, RowKeys
    <2>5. \A s \in Runs : RunKeys(s)' \subseteq store'
      BY <1>k, <2>1, <2>2, <2>4
    <2> QED BY <2>2, <2>3, <2>5, KeysKept
  <1>5. ASSUME NEW c \in Clips, DeleteClipRow(c) PROVE OwnKeys'
    <2>1. UNCHANGED <<store, run>>
      BY <1>5, DeleteClipRowEffect
    <2>2. \A s \in Runs : RunKeys(s)' = RunKeys(s)
      BY <2>1 DEF RunKeys
    <2>3. \A d \in Clips : RowKeys(d)' \subseteq RowKeys(d)
      BY <1>5, DeleteClipRowEffect DEF RowKeys
    <2> QED BY <1>k, <2>1, <2>2, <2>3, KeysKept
  <1>6. CASE DeleteJobFiles
    <2>1. /\ UNCHANGED <<video, thumb, run>> /\ store' \subseteq store
          /\ \A k \in store \ store' : \E c \in Clips : k \in {video[c], thumb[c]}
      BY <1>6, DeleteJobFilesEffect
    <2>2. \A s \in Runs : RunKeys(s)' = RunKeys(s)
      BY <2>1 DEF RunKeys
    <2>3. \A d \in Clips : RowKeys(d)' = RowKeys(d)
      BY <2>1 DEF RowKeys
    <2>4. \A s \in Runs, c \in Clips : RunKeys(s) \cap {video[c], thumb[c]} = {}
      BY <1>k DEF RunKeys, RowKeys
    <2>5. \A s \in Runs : RunKeys(s) \subseteq store'
      BY <1>k, <2>1, <2>4
    <2> QED BY <2>2, <2>3, <2>5, KeysKept
  <1>7. CASE DeleteJobRows
    <2>1. UNCHANGED <<store, run>>
      BY <1>7, DeleteJobRowsEffect
    <2>2. \A s \in Runs : RunKeys(s)' = RunKeys(s)
      BY <2>1 DEF RunKeys
    <2>3. \A d \in Clips : RowKeys(d)' \subseteq RowKeys(d)
      BY <1>7, DeleteJobRowsEffect DEF RowKeys
    <2> QED BY <1>k, <2>1, <2>2, <2>3, KeysKept
  <1>8. ASSUME NEW r \in Runs, EnqueueRendering(r) PROVE OwnKeys'
    BY <1>8, <1>b, EnqueueEffect DEF Typed
  <1>9. ASSUME NEW r \in Runs, RunRetry(r) \/ Dequeue(r) \/ RenderVideo(r) \/ Ack(r) PROVE OwnKeys'
    BY <1>9, <1>b, MoveEffect
  <1>10. ASSUME NEW r \in Runs, Begin(r) PROVE OwnKeys'
    BY <1>10, <1>b, BeginEffect
  <1>11. ASSUME NEW r \in Runs, RenderFails(r) PROVE OwnKeys'
    BY <1>11, <1>b, FailsEffect
  <1>12. ASSUME NEW r \in Runs, PutVideo(r) PROVE OwnKeys'
    <2>1. RunKeys(r)' \subseteq RunKeys(r) \cup {NewKey} /\ store' = store \cup {NewKey}
      BY <1>12, PutVideoEffect DEF RunKeys
    <2>2. \A s \in Runs \ {r} : RunKeys(s)' = RunKeys(s)
      BY <1>12, PutVideoEffect DEF RunKeys
    <2>3. \A c \in Clips : RowKeys(c)' = RowKeys(c)
      BY <1>12, PutVideoEffect DEF RowKeys
    <2> HIDE DEF NewKey
    <2> QED BY <2>1, <2>2, <2>3, KeyTaken
  <1>13. ASSUME NEW r \in Runs, PutThumbnail(r) PROVE OwnKeys'
    <2>1. \A s \in Runs \ {r} : RunKeys(s)' = RunKeys(s)
      BY <1>13, PutThumbnailEffect DEF RunKeys
    <2>2. \A c \in Clips : RowKeys(c)' = RowKeys(c)
      BY <1>13, PutThumbnailEffect DEF RowKeys
    <2>3. \/ RunKeys(r)' \subseteq RunKeys(r) \cup {NewKey} /\ store' = store \cup {NewKey}
          \/ RunKeys(r)' = RunKeys(r) /\ store' = store
      BY <1>13, PutThumbnailEffect DEF RunKeys
    <2> HIDE DEF NewKey
    <2>4. CASE RunKeys(r)' \subseteq RunKeys(r) \cup {NewKey} /\ store' = store \cup {NewKey}
      BY <2>1, <2>2, <2>4, KeyTaken
    <2>5. CASE RunKeys(r)' = RunKeys(r) /\ store' = store
      BY <1>k, <2>1, <2>2, <2>5, KeysKept
    <2> QED BY <2>3, <2>4, <2>5
  <1>14. ASSUME NEW r \in Runs, CommitClip(r) PROVE OwnKeys'
    <2>1. run[r].clip \in Clips
      BY <1>14, CommitEffect DEF Placed, AtWork
    <2> PICK c \in Clips : c = run[r].clip
      BY <2>1
    <2>2. /\ RunKeys(r)' = {} /\ store' = store
          /\ \A s \in Runs \ {r} : RunKeys(s)' = RunKeys(s)
      BY <1>14, CommitEffect DEF RunKeys
    <2>3. CASE ~Exists(c)
      BY <1>14, <2>3, <1>b, CommitEffect
    <2>4. CASE Exists(c)
      <3>1. video' = [video EXCEPT ![c] = run[r].video] /\ thumb' = [thumb EXCEPT ![c] = run[r].thumb]
        BY <1>14, <2>4, CommitEffect
      <3>2. video \in [Clips -> Nat] /\ thumb \in [Clips -> Nat]
        BY DEF Typed, ClipsTyped
      <3>3. RowKeys(c)' = RunKeys(r) /\ \A d \in Clips \ {c} : RowKeys(d)' = RowKeys(d)
        BY <3>1, <3>2 DEF RowKeys, RunKeys
      <3> QED BY <2>2, <3>3, KeysHandedOver
    <2> QED BY <2>3, <2>4
  <1>15. ASSUME NEW r \in Runs, Interrupted(r) PROVE OwnKeys'
    BY <1>15, <1>b, InterruptedEffect, RaiseEffect
  <1> QED BY <1>1, <1>2, <1>3, <1>4, <1>5, <1>6, <1>7, <1>8, <1>9, <1>10, <1>11, <1>12, <1>13,
             <1>14, <1>15 DEF Next, WorkerStep

LEMMA PlacedStep ==
  ASSUME Typed, Placed, IsFiniteSet(Runs), [Next]_vars
  PROVE  Placed'
  <1> USE DEF Placed, AtWork
  <1>t. clip \in [Clips -> Statuses] /\ Typed
    BY DEF Typed, ClipsTyped
  <1>1. CASE UNCHANGED vars
    BY <1>1 DEF vars, objects
  <1>2. CASE \/ ScoringDies \/ ScoringAgain \/ CancelJob
             \/ \E c \in Clips : ReviewClip(c) \/ UpdateClipCaption(c) \/ BeginCaption(c) \/ CommitCaption(c)
    <2>1. UNCHANGED <<clip, run>>
      BY <1>2, QuietEffect
    <2> QED BY <2>1
  <1>3. CASE AddClip
    <2>1. run' = run /\ \E c \in Clips : clip[c] = "absent" /\ clip' = [clip EXCEPT ![c] = "pending"]
      BY <1>3, AddClipEffect
    <2> QED BY <1>t, <2>1
  <1>4. ASSUME NEW c \in Clips, DeleteClipFiles(c) PROVE Placed'
    <2>1. UNCHANGED <<clip, run>>
      BY <1>4, DeleteFilesEffect
    <2> QED BY <2>1
  <1>5. ASSUME NEW c \in Clips, DeleteClipRow(c) PROVE Placed'
    <2>1. run' = run /\ \A d \in Clips : clip'[d] = clip[d] \/ clip'[d] = "deleted"
      BY <1>5, DeleteClipRowEffect
    <2> QED BY <2>1
  <1>6. CASE DeleteJobFiles
    <2>1. UNCHANGED <<clip, run>>
      BY <1>6, DeleteJobFilesEffect
    <2> QED BY <2>1
  <1>7. CASE DeleteJobRows
    <2>1. run' = run /\ \A d \in Clips : clip'[d] = clip[d] \/ clip'[d] = "deleted"
      BY <1>7, DeleteJobRowsEffect
    <2> QED BY <2>1
  <1>8. ASSUME NEW r \in Runs, EnqueueRendering(r) PROVE Placed'
    <2>1. clip' = clip /\ run'[r].pc = "queued" /\ \A s \in Runs \ {r} : run'[s] = run[s]
      BY <1>8, EnqueueEffect DEF Typed
    <2> QED BY <2>1
  <1>9. ASSUME NEW r \in Runs, RunRetry(r) \/ Dequeue(r) \/ RenderVideo(r) \/ Ack(r) PROVE Placed'
    <2>1. /\ clip' = clip /\ \A s \in Runs \ {r} : run'[s] = run[s]
          /\ \/ run'[r].pc \notin AtWork
             \/ run[r].pc = "work" /\ run'[r].pc = "video" /\ run'[r].clip = run[r].clip
      BY <1>9, MoveEffect
    <2> QED BY <2>1
  <1>10. ASSUME NEW r \in Runs, Begin(r) PROVE Placed'
    <2>1. /\ \A s \in Runs \ {r} : run'[s] = run[s]
          /\ \/ run'[r].pc = "free" /\ clip' = clip
             \/ \E c \in Clips : /\ Exists(c) /\ clip' = [clip EXCEPT ![c] = "rendering"]
                                 /\ run'[r].pc = "work" /\ run'[r].clip = c
      BY <1>10, BeginEffect
    <2> QED BY <1>t, <2>1
  <1>11. ASSUME NEW r \in Runs, RenderFails(r) PROVE Placed'
    <2>1. /\ run'[r].pc = "ack" /\ \A s \in Runs \ {r} : run'[s] = run[s]
          /\ clip' = clip \/ clip' = [clip EXCEPT ![run[r].clip] = "failed"]
      BY <1>11, FailsEffect
    <2> QED BY <1>t, <2>1
  <1>12. ASSUME NEW r \in Runs, PutVideo(r) PROVE Placed'
    <2>1. /\ run[r].pc = "video" /\ run'[r].clip = run[r].clip /\ run'[r].video = NewKey
          /\ clip' = clip /\ \A s \in Runs \ {r} : run'[s] = run[s]
      BY <1>12, PutVideoEffect
    <2>2. NewKey # 0
      BY Fresh
    <2> HIDE DEF NewKey
    <2> QED BY <2>1, <2>2
  <1>13. ASSUME NEW r \in Runs, PutThumbnail(r) PROVE Placed'
    <2>1. /\ run[r].pc = "thumb" /\ run'[r].clip = run[r].clip /\ run'[r].video = run[r].video
          /\ clip' = clip /\ \A s \in Runs \ {r} : run'[s] = run[s]
      BY <1>13, PutThumbnailEffect
    <2> QED BY <2>1
  <1>14. ASSUME NEW r \in Runs, CommitClip(r) PROVE Placed'
    <2>1. /\ run'[r].pc = "ack" /\ \A s \in Runs \ {r} : run'[s] = run[s]
          /\ clip' = clip \/ clip' = [clip EXCEPT ![run[r].clip] = "rendered"]
      BY <1>14, CommitEffect
    <2> QED BY <1>t, <2>1
  <1>15. ASSUME NEW r \in Runs, Interrupted(r) PROVE Placed'
    <2>1. /\ run'[r].pc \in {"parked", "free"} /\ \A s \in Runs \ {r} : run'[s] = run[s]
          /\ \A c \in Clips : clip'[c] = "failed" \/ clip'[c] = clip[c]
      BY <1>15, InterruptedEffect, RaiseEffect
    <2> QED BY <2>1
  <1> QED BY <1>1, <1>2, <1>3, <1>4, <1>5, <1>6, <1>7, <1>8, <1>9, <1>10, <1>11, <1>12, <1>13,
             <1>14, <1>15 DEF Next, WorkerStep

LEMMA KeysInit ==
  ASSUME Init
  PROVE  OwnKeys /\ Placed
  <1>1. \A r \in Runs : run[r].video = 0 /\ run[r].thumb = 0 /\ run[r].pc = "free"
    BY IdleFields DEF Init
  <1>2. \A c \in Clips : video[c] = 0 /\ thumb[c] = 0
    BY DEF Init
  <1>3. OwnKeys
    BY <1>1, <1>2 DEF OwnKeys, RunKeys, RowKeys
  <1> QED BY <1>1, <1>3 DEF Placed, AtWork

-----------------------------------------------------------------------------
(* RenderedHasItsVideo: a clip's objects leave storage only in a deletion   *)
(* of that clip or of its whole job, for nobody else's row names them, and  *)
(* an attempt that reaches its commit has put there what the row will name. *)
LEMMA VideoThere ==
  ASSUME RenderedHasItsVideo,
         \A c \in Clips : clip'[c] = "rendered" /\ ~BeingDeleted(c)' =>
           /\ clip[c] = "rendered" /\ ~BeingDeleted(c)
           /\ video'[c] = video[c] /\ thumb'[c] = thumb[c]
           /\ video[c] \in store => video[c] \in store'
           /\ thumb[c] # 0 /\ thumb[c] \in store => thumb[c] \in store'
  PROVE  RenderedHasItsVideo'
  BY DEF RenderedHasItsVideo

LEMMA VideoStep ==
  ASSUME Typed, OwnKeys, Placed, RenderedHasItsVideo, IsFiniteSet(Runs), [Next]_vars
  PROVE  RenderedHasItsVideo'
  <1>t. /\ clip \in [Clips -> Statuses] /\ Clips \subseteq Nat \ {0}
        /\ video \in [Clips -> Nat] /\ thumb \in [Clips -> Nat]
        /\ store \subseteq Nat \ {0}
    BY DEF Typed, ClipsTyped, StoreTyped, Clips
  <1>a. ASSUME UNCHANGED <<raw, video, thumb>>, store \subseteq store',
               \A c \in Clips : <<"delete", c>> \in requests <=> <<"delete", c>> \in requests',
               \A c \in Clips : clip'[c] = "rendered" => clip[c] = "rendered"
        PROVE  RenderedHasItsVideo'
    <2>1. \A c \in Clips : clip'[c] = "rendered" /\ ~BeingDeleted(c)' => ~BeingDeleted(c)
      BY <1>a DEF BeingDeleted, Exists
    <2> QED BY <1>a, <2>1, VideoThere
  <1>1. CASE UNCHANGED vars
    BY <1>1, <1>a DEF vars, objects
  <1>2. CASE \/ ScoringDies \/ ScoringAgain \/ CancelJob
             \/ \E c \in Clips : ReviewClip(c) \/ UpdateClipCaption(c) \/ BeginCaption(c) \/ CommitCaption(c)
    BY <1>t, <1>2, <1>a, QuietEffect
  <1>3. CASE AddClip
    BY <1>t, <1>3, <1>a, AddClipEffect
  <1>4. ASSUME NEW c \in Clips, DeleteClipFiles(c) PROVE RenderedHasItsVideo'
    <2>1. /\ UNCHANGED <<raw, clip, video, thumb>>
          /\ store' = store \ {video[c], thumb[c]}
          /\ requests' = requests \cup {<<"delete", c>>}
      BY <1>4, DeleteFilesEffect
    <2>2. \A d \in Clips : clip'[d] = "rendered" /\ ~BeingDeleted(d)' => ~BeingDeleted(d) /\ d # c
      BY <2>1 DEF BeingDeleted, Exists
    <2>3. \A d \in Clips : d # c => RowKeys(d) \cap RowKeys(c) = {}
      BY DEF OwnKeys
    <2>4. \A d \in Clips : d # c => /\ video[d] \in store => video[d] \in store'
                                    /\ thumb[d] # 0 /\ thumb[d] \in store => thumb[d] \in store'
      BY <1>t, <2>1, <2>3 DEF RowKeys
    <2> QED BY <2>1, <2>2, <2>4, VideoThere
  <1>5. ASSUME NEW c \in Clips, DeleteClipRow(c) PROVE RenderedHasItsVideo'
    <2>1. /\ UNCHANGED <<raw, store>> /\ requests' = requests \ {<<"delete", c>>}
          /\ \A d \in Clips : IF d = c /\ Exists(c)
                              THEN clip'[d] = "deleted" /\ video'[d] = 0 /\ thumb'[d] = 0
                              ELSE clip'[d] = clip[d] /\ video'[d] = video[d] /\ thumb'[d] = thumb[d]
      BY <1>5, DeleteClipRowEffect
    <2>2. \A d \in Clips : clip'[d] = "rendered" /\ ~BeingDeleted(d)' => ~BeingDeleted(d)
      BY <2>1 DEF BeingDeleted, Exists
    <2> QED BY <2>1, <2>2, VideoThere
  <1>6. CASE DeleteJobFiles
    BY <1>6, DeleteJobFilesEffect DEF RenderedHasItsVideo, BeingDeleted
  <1>7. CASE DeleteJobRows
    <2>1. \A c \in Clips : clip'[c] # "rendered"
      BY <1>7, DeleteJobRowsEffect DEF Exists
    <2> QED BY <2>1 DEF RenderedHasItsVideo
  <1>8. ASSUME NEW r \in Runs, EnqueueRendering(r) PROVE RenderedHasItsVideo'
    BY <1>8, <1>a, EnqueueEffect DEF Typed
  <1>9. ASSUME NEW r \in Runs, RunRetry(r) \/ Dequeue(r) \/ RenderVideo(r) \/ Ack(r)
        PROVE RenderedHasItsVideo'
    BY <1>9, <1>a, MoveEffect
  <1>10. ASSUME NEW r \in Runs, Begin(r) PROVE RenderedHasItsVideo'
    BY <1>t, <1>10, <1>a, BeginEffect
  <1>11. ASSUME NEW r \in Runs, RenderFails(r) PROVE RenderedHasItsVideo'
    BY <1>t, <1>11, <1>a, FailsEffect
  <1>12. ASSUME NEW r \in Runs, PutVideo(r) PROVE RenderedHasItsVideo'
    BY <1>12, <1>a, PutVideoEffect
  <1>13. ASSUME NEW r \in Runs, PutThumbnail(r) PROVE RenderedHasItsVideo'
    BY <1>13, <1>a, PutThumbnailEffect
  <1>14. ASSUME NEW r \in Runs, CommitClip(r) PROVE RenderedHasItsVideo'
    <2>1. run[r].clip \in Clips /\ run[r].video # 0 /\ run[r].pc = "commit"
      BY <1>14, CommitEffect DEF Placed, AtWork
    <2> PICK c \in Clips : c = run[r].clip
      BY <2>1
    <2>2. RunKeys(r) \subseteq store
      BY DEF OwnKeys
    <2>3. UNCHANGED <<raw, requests, store>>
      BY <1>14, CommitEffect
    <2>4. CASE ~Exists(c)
      BY <1>14, <2>3, <2>4, <1>a, CommitEffect
    <2>5. CASE Exists(c)
      <3>1. /\ clip' = [clip EXCEPT ![c] = "rendered"]
            /\ video' = [video EXCEPT ![c] = run[r].video]
            /\ thumb' = [thumb EXCEPT ![c] = run[r].thumb]
        BY <1>14, <2>5, CommitEffect
      <3>2. video'[c] \in store' /\ (thumb'[c] # 0 => thumb'[c] \in store')
        BY <1>t, <2>1, <2>2, <2>3, <3>1 DEF RunKeys
      <3>3. \A d \in Clips \ {c} : /\ clip'[d] = clip[d] /\ video'[d] = video[d] /\ thumb'[d] = thumb[d]
                                   /\ BeingDeleted(d)' = BeingDeleted(d)
        BY <1>t, <2>3, <3>1 DEF BeingDeleted, Exists
      <3> QED BY <2>3, <3>2, <3>3 DEF RenderedHasItsVideo
    <2> QED BY <2>4, <2>5
  <1>15. ASSUME NEW r \in Runs, Interrupted(r) PROVE RenderedHasItsVideo'
    BY <1>15, <1>a, InterruptedEffect, RaiseEffect
  <1> QED BY <1>1, <1>2, <1>3, <1>4, <1>5, <1>6, <1>7, <1>8, <1>9, <1>10, <1>11, <1>12, <1>13,
             <1>14, <1>15 DEF Next, WorkerStep

(* A clip that says "rendered", and is not being deleted, has its video and *)
(* the thumbnail it names in storage, through interruptions, repeated       *)
(* attempts and runs that race: rendering.py uploads before it commits, and *)
(* new_object_key never names an object twice.                              *)
THEOREM VideoIsThere ==
  ASSUME IsFiniteSet(Runs)
  PROVE  Spec => []RenderedHasItsVideo
  <1> DEFINE Inv == Typed /\ OwnKeys /\ Placed /\ RenderedHasItsVideo
  <1>1. Init => Inv
    <2>1. Init => RenderedHasItsVideo
      BY DEF Init, RenderedHasItsVideo
    <2> QED BY <2>1, TypedInit, KeysInit
  <1>2. Inv /\ [Next]_vars => Inv'
    BY TypedStep, OwnKeysStep, PlacedStep, VideoStep
  <1>3. Inv => RenderedHasItsVideo
    OBVIOUS
  <1> QED BY <1>1, <1>2, <1>3, PTL DEF Spec

-----------------------------------------------------------------------------
(* NotStuckRendering.  With one clip, the run that set it to "rendering"    *)
(* either ends its attempt by changing that, or leaves a retry, or raises   *)
(* for the last time and has on_failure change it.                          *)
NothingLeft == job = "deleted" => \A c \in Clips : ~Exists(c)

LEMMA NothingLeftStep ==
  ASSUME Typed, NothingLeft, IsFiniteSet(Runs), [Next]_vars
  PROVE  NothingLeft'
  <1> USE DEF NothingLeft, Exists
  <1>t. clip \in [Clips -> Statuses] /\ Typed
    BY DEF Typed, ClipsTyped
  <1>a. ASSUME UNCHANGED <<job, clip>> PROVE NothingLeft'
    BY <1>a
  <1>1. CASE UNCHANGED vars
    BY <1>1, <1>a DEF vars
  <1>2. CASE \/ ScoringDies \/ ScoringAgain \/ CancelJob
             \/ \E c \in Clips : ReviewClip(c) \/ UpdateClipCaption(c) \/ BeginCaption(c) \/ CommitCaption(c)
    <2>1. clip' = clip /\ (job' = "deleted" => job = "deleted")
      BY <1>2, QuietEffect
    <2> QED BY <2>1
  <1>3. CASE AddClip
    <2>1. job' = "active"
      BY <1>3, AddClipEffect
    <2> QED BY <2>1
  <1>4. ASSUME NEW c \in Clips, DeleteClipFiles(c) PROVE NothingLeft'
    BY <1>4, <1>a, DeleteFilesEffect
  <1>5. ASSUME NEW c \in Clips, DeleteClipRow(c) PROVE NothingLeft'
    <2>1. job' = job /\ \A d \in Clips : clip'[d] = clip[d] \/ clip'[d] = "deleted"
      BY <1>5, DeleteClipRowEffect
    <2> QED BY <2>1
  <1>6. CASE DeleteJobFiles
    BY <1>6, <1>a, DeleteJobFilesEffect
  <1>7. CASE DeleteJobRows
    <2>1. \A c \in Clips : clip'[c] = "deleted" \/ (clip'[c] = clip[c] /\ ~Exists(c))
      BY <1>7, DeleteJobRowsEffect
    <2> QED BY <2>1
  <1>8. ASSUME NEW r \in Runs, EnqueueRendering(r) PROVE NothingLeft'
    BY <1>8, <1>a, EnqueueEffect DEF Typed
  <1>9. ASSUME NEW r \in Runs, RunRetry(r) \/ Dequeue(r) \/ RenderVideo(r) \/ Ack(r) PROVE NothingLeft'
    BY <1>9, <1>a, MoveEffect
  <1>10. ASSUME NEW r \in Runs, Begin(r) PROVE NothingLeft'
    <2>1. /\ job' = job
          /\ clip' = clip \/ \E c \in Clips : Exists(c)
      BY <1>10, BeginEffect
    <2> QED BY <2>1
  <1>11. ASSUME NEW r \in Runs, RenderFails(r) PROVE NothingLeft'
    <2>1. /\ job' = job
          /\ IF run[r].clip # 0 /\ Exists(run[r].clip)
             THEN clip' = [clip EXCEPT ![run[r].clip] = "failed"] ELSE clip' = clip
      BY <1>11, FailsEffect
    <2> QED BY <1>t, <2>1
  <1>12. ASSUME NEW r \in Runs, PutVideo(r) PROVE NothingLeft'
    BY <1>12, <1>a, PutVideoEffect
  <1>13. ASSUME NEW r \in Runs, PutThumbnail(r) PROVE NothingLeft'
    BY <1>13, <1>a, PutThumbnailEffect
  <1>14. ASSUME NEW r \in Runs, CommitClip(r) PROVE NothingLeft'
    <2>1. /\ job' = job
          /\ IF Exists(run[r].clip) THEN clip' = [clip EXCEPT ![run[r].clip] = "rendered"]
                                    ELSE clip' = clip
      BY <1>14, CommitEffect
    <2> QED BY <1>t, <2>1
  <1>15. ASSUME NEW r \in Runs, Interrupted(r) PROVE NothingLeft'
    <2>1. /\ job' = job /\ Raise(r)
      BY <1>15, InterruptedEffect
    <2>2. \A c \in Clips : clip'[c] = clip[c] \/ c = LatestClip
      BY <2>1, RaiseEffect
    <2>3. LatestClip = 0 \/ (LatestClip \in Clips /\ Exists(LatestClip))
      BY Latest
    <2>4. 0 \notin Clips
      BY DEF Clips
    <2> QED BY <2>1, <2>2, <2>3, <2>4
  <1> QED BY <1>1, <1>2, <1>3, <1>4, <1>5, <1>6, <1>7, <1>8, <1>9, <1>10, <1>11, <1>12, <1>13,
             <1>14, <1>15 DEF Next, WorkerStep

(* The run that is still to end the rendering.                              *)
Ending(r) == run[r].pc \notin {"free", "ack"} /\ (run[r].pc = "parked" => Scheduler)

(* It is enough to follow the first clip, and the run r that is to end it.  *)
LEMMA StuckFrame ==
  ASSUME Typed, NotStuckRendering,
         \A c \in Clips : clip'[c] = "absent" => clip[c] = "absent",
         [Next]_vars,
         \A c \in Clips, r \in Runs :
           /\ OnlyClip /\ ~dropped' /\ c = 1 /\ Ending(r)
           /\ clip[c] = "rendering" /\ clip'[c] = "rendering"
           => \E s \in Runs : Ending(s)',
         \A c \in Clips : clip[c] # "rendering" /\ clip'[c] = "rendering" =>
                            \E r \in Runs : Ending(r)'
  PROVE  NotStuckRendering'
  <1> SUFFICES ASSUME OnlyClip', ~dropped', NEW c \in Clips, clip'[c] = "rendering"
               PROVE  \E r \in Runs : Ending(r)'
    BY DEF NotStuckRendering, Ending
  <1>1. OnlyClip /\ ~dropped
    BY DroppedStays DEF OnlyClip, Typed, OthersTyped
  <1>2. c = 1
    BY DEF OnlyClip, Clips
  <1>3. CASE clip[c] = "rendering"
    <2>1. PICK r \in Runs : Ending(r)
      BY <1>1, <1>3 DEF NotStuckRendering, Ending
    <2> QED BY <1>1, <1>2, <1>3, <2>1
  <1>4. CASE clip[c] # "rendering"
    BY <1>4
  <1> QED BY <1>3, <1>4

LEMMA NotStuckStep ==
  ASSUME Typed, Placed, NothingLeft, NotStuckRendering, IsFiniteSet(Runs),
         EagerCallback \/ Scheduler, [Next]_vars
  PROVE  NotStuckRendering'
  <1>t. clip \in [Clips -> Statuses] /\ Typed
    BY DEF Typed, ClipsTyped
  \* The run is not touched, and nothing starts to render.
  <1>a. ASSUME \A c \in Clips : clip'[c] = "absent" => clip[c] = "absent",
               \A c \in Clips : clip'[c] = "rendering" => clip[c] = "rendering",
               \A r \in Runs : Ending(r) => Ending(r)'
        PROVE  NotStuckRendering'
    BY <1>a, StuckFrame
  \* The run r moves, and nothing starts to render.
  <1>b. ASSUME NEW r \in Runs, \A s \in Runs \ {r} : run'[s] = run[s],
               \A c \in Clips : clip'[c] = "absent" => clip[c] = "absent",
               \A c \in Clips : clip'[c] = "rendering" => clip[c] = "rendering",
               OnlyClip /\ ~dropped' /\ 1 \in Clips /\ clip[1] = "rendering"
               /\ clip'[1] = "rendering" /\ Ending(r) => Ending(r)'
        PROVE  NotStuckRendering'
    <2>1. \A s \in Runs : s # r /\ Ending(s) => Ending(s)'
      BY <1>b DEF Ending
    <2> QED BY <1>b, <2>1, StuckFrame
  \* The run r works on the only clip, and takes it out of "rendering".
  <1>c. ASSUME NEW r \in Runs, run[r].pc \in AtWork, OnlyClip PROVE run[r].clip = 1
    BY <1>c DEF Placed, OnlyClip, Clips
  <1>1. CASE UNCHANGED vars
    BY <1>1, <1>a DEF vars, Ending
  <1>2. CASE \/ ScoringDies \/ ScoringAgain \/ CancelJob
             \/ \E c \in Clips : ReviewClip(c) \/ UpdateClipCaption(c) \/ BeginCaption(c) \/ CommitCaption(c)
    <2>1. UNCHANGED <<clip, run>>
      BY <1>2, QuietEffect
    <2> QED BY <2>1, <1>a DEF Ending
  <1>3. CASE AddClip
    <2>1. UNCHANGED run /\ \E c \in Clips : clip[c] = "absent" /\ clip' = [clip EXCEPT ![c] = "pending"]
      BY <1>3, AddClipEffect
    <2> QED BY <1>t, <2>1, <1>a DEF Ending
  <1>4. ASSUME NEW c \in Clips, DeleteClipFiles(c) PROVE NotStuckRendering'
    BY <1>4, <1>a, DeleteFilesEffect DEF Ending
  <1>5. ASSUME NEW c \in Clips, DeleteClipRow(c) PROVE NotStuckRendering'
    <2>1. UNCHANGED <<job, run>> /\ \A d \in Clips : clip'[d] = clip[d] \/ clip'[d] = "deleted"
      BY <1>5, DeleteClipRowEffect
    <2> QED BY <2>1, <1>a DEF Ending
  <1>6. CASE DeleteJobFiles
    BY <1>6, <1>a, DeleteJobFilesEffect DEF Ending
  <1>7. CASE DeleteJobRows
    <2>1. \A c \in Clips : clip'[c] # "rendering"
      BY <1>7, DeleteJobRowsEffect DEF Exists
    <2> QED BY <2>1 DEF NotStuckRendering
  <1>8. ASSUME NEW r \in Runs, EnqueueRendering(r) PROVE NotStuckRendering'
    <2>1. /\ UNCHANGED <<job, clip>> /\ run[r].pc = "free"
          /\ \A s \in Runs \ {r} : run'[s] = run[s]
      BY <1>8, EnqueueEffect DEF Typed
    <2> QED BY <2>1, <1>b DEF Ending
  <1>9. ASSUME NEW r \in Runs, RunRetry(r) \/ Dequeue(r) \/ RenderVideo(r) \/ Ack(r)
        PROVE  NotStuckRendering'
    <2>1. /\ UNCHANGED <<job, clip>> /\ \A s \in Runs \ {r} : run'[s] = run[s]
          /\ \/ run'[r].pc \in {"queued", "begin", "video"}
             \/ dropped'
             \/ run[r].pc = "ack"
      BY <1>9, MoveEffect
    <2> QED BY <2>1, <1>b DEF Ending
  <1>10. ASSUME NEW r \in Runs, Begin(r) PROVE NotStuckRendering'
    <2>1. \A s \in Runs \ {r} : run'[s] = run[s]
      BY <1>10, BeginEffect
    <2>2. CASE clip' = clip /\ \A c \in Clips : ~Exists(c)
      <3>1. \A c \in Clips : clip'[c] # "rendering"
        BY <2>2 DEF Exists
      <3> QED BY <3>1 DEF NotStuckRendering
    <2>3. ASSUME NEW c \in Clips, Exists(c), clip' = [clip EXCEPT ![c] = "rendering"], run'[r].pc = "work"
          PROVE  NotStuckRendering'
      <3>1. Ending(r)'
        BY <2>3 DEF Ending
      <3>2. \A d \in Clips : clip'[d] = "absent" => clip[d] = "absent"
        BY <1>t, <2>3 DEF Exists
      <3> QED BY <2>1, <3>1, <3>2, StuckFrame
    <2> QED BY <1>10, <2>2, <2>3, BeginEffect
  <1>11. ASSUME NEW r \in Runs, RenderFails(r) PROVE NotStuckRendering'
    <2>1. /\ \A s \in Runs \ {r} : run'[s] = run[s]
          /\ run[r].pc \in AtWork
          /\ IF run[r].clip # 0 /\ Exists(run[r].clip)
             THEN clip' = [clip EXCEPT ![run[r].clip] = "failed"] ELSE clip' = clip
      BY <1>11, FailsEffect DEF AtWork
    <2>2. OnlyClip /\ 1 \in Clips /\ clip[1] = "rendering" => clip'[1] = "failed"
      BY <1>t, <1>c, <2>1 DEF Exists
    <2>3. \A c \in Clips : clip'[c] \in {clip[c], "failed"}
      BY <1>t, <2>1
    <2> QED BY <2>1, <2>2, <2>3, <1>b
  <1>12. ASSUME NEW r \in Runs, PutVideo(r) PROVE NotStuckRendering'
    BY <1>12, <1>b, PutVideoEffect DEF Ending
  <1>13. ASSUME NEW r \in Runs, PutThumbnail(r) PROVE NotStuckRendering'
    BY <1>13, <1>b, PutThumbnailEffect DEF Ending
  <1>14. ASSUME NEW r \in Runs, CommitClip(r) PROVE NotStuckRendering'
    <2>1. /\ \A s \in Runs \ {r} : run'[s] = run[s]
          /\ run[r].pc \in AtWork
          /\ IF Exists(run[r].clip) THEN clip' = [clip EXCEPT ![run[r].clip] = "rendered"]
                                    ELSE clip' = clip
      BY <1>14, CommitEffect DEF AtWork
    <2>2. OnlyClip /\ 1 \in Clips /\ clip[1] = "rendering" => clip'[1] = "rendered"
      BY <1>t, <1>c, <2>1 DEF Exists
    <2>3. \A c \in Clips : clip'[c] \in {clip[c], "rendered"}
      BY <1>t, <2>1
    <2> QED BY <2>1, <2>2, <2>3, <1>b, <1>t
  <1>15. ASSUME NEW r \in Runs, Interrupted(r) PROVE NotStuckRendering'
    <2>1. job' = job /\ Raise(r) /\ run[r].left \in Nat
      BY <1>15, InterruptedEffect DEF Typed, RunsTyped, RunRecord
    <2>2. /\ \A s \in Runs \ {r} : run'[s] = run[s]
          /\ run'[r].pc = IF run[r].left > 0 THEN "parked" ELSE "free"
          /\ \A c \in Clips : IF c = LatestClip /\ (run[r].left = 0 \/ EagerCallback)
                              THEN clip'[c] = "failed" ELSE clip'[c] = clip[c]
      BY <2>1, RaiseEffect
    <2>3. ASSUME OnlyClip, 1 \in Clips, clip[1] = "rendering" PROVE LatestClip = 1
      <3>1. Exists(1) /\ LatestClip # 0
        BY <2>3, Latest DEF Exists
      <3>2. LatestClip \in Clips /\ Exists(LatestClip)
        BY <3>1, Latest
      <3> QED BY <2>3, <3>2 DEF OnlyClip, Exists, Clips
    <2> HIDE DEF LatestClip
    <2>4. ASSUME OnlyClip, 1 \in Clips, clip[1] = "rendering", clip'[1] = "rendering" PROVE Ending(r)'
      <3>1. ~(run[r].left = 0 \/ EagerCallback)
        BY <2>2, <2>3, <2>4
      <3>2. run'[r].pc = "parked" /\ Scheduler
        BY <2>1, <2>2, <3>1
      <3> QED BY <3>2 DEF Ending
    <2>5. \A c \in Clips : clip'[c] \in {clip[c], "failed"}
      BY <2>2
    <2> QED BY <2>1, <2>2, <2>4, <2>5, <1>b
  <1> QED BY <1>1, <1>2, <1>3, <1>4, <1>5, <1>6, <1>7, <1>8, <1>9, <1>10, <1>11, <1>12, <1>13,
             <1>14, <1>15 DEF Next, WorkerStep

(* A candidate's only clip is not left in "rendering" unless a cancel ended *)
(* a run: some attempt, or a retry that somebody will run, still ends   *)
(* it.  This takes an RQ that calls on_failure after every failed attempt,  *)
(* or a process that runs due retries; docker-compose.yml has neither.      *)
THEOREM NotStuck ==
  ASSUME IsFiniteSet(Runs), EagerCallback \/ Scheduler
  PROVE  Spec => []NotStuckRendering
  <1> DEFINE Inv == Typed /\ Placed /\ NothingLeft /\ NotStuckRendering
  <1>1. Init => Inv
    <2>1. Init => NotStuckRendering /\ NothingLeft
      BY DEF Init, NotStuckRendering, NothingLeft
    <2> QED BY <2>1, TypedInit, KeysInit
  <1>2. Inv /\ [Next]_vars => Inv'
    BY TypedStep, PlacedStep, NothingLeftStep, NotStuckStep
  <1> QED BY <1>1, <1>2, PTL DEF Spec

-----------------------------------------------------------------------------
(* CancelStopsRendering: between the queue and their end runs have only     *)
(* the cancel check to pass, and nothing but a run stores anything.         *)
LEMMA QuietStep ==
  ASSUME Typed, IsFiniteSet(Runs), job = "cancelled", Quiet, [Next]_vars
  PROVE  Quiet' /\ store' \subseteq store
  <1> USE DEF Quiet
  <1>a. ASSUME run' = run, store' \subseteq store PROVE Quiet' /\ store' \subseteq store
    BY <1>a
  <1>1. CASE UNCHANGED vars
    BY <1>1, <1>a DEF vars, objects
  <1>2. CASE \/ ScoringDies \/ ScoringAgain \/ CancelJob
             \/ \E c \in Clips : ReviewClip(c) \/ UpdateClipCaption(c) \/ BeginCaption(c) \/ CommitCaption(c)
    BY <1>2, <1>a, QuietEffect
  <1>3. CASE AddClip
    BY <1>3, <1>a, AddClipEffect
  <1>4. ASSUME NEW c \in Clips, DeleteClipFiles(c) PROVE Quiet' /\ store' \subseteq store
    BY <1>4, <1>a, DeleteFilesEffect
  <1>5. ASSUME NEW c \in Clips, DeleteClipRow(c) PROVE Quiet' /\ store' \subseteq store
    BY <1>5, <1>a, DeleteClipRowEffect
  <1>6. CASE DeleteJobFiles
    BY <1>6, <1>a, DeleteJobFilesEffect
  <1>7. CASE DeleteJobRows
    BY <1>7, <1>a, DeleteJobRowsEffect
  <1>8. ASSUME NEW r \in Runs, EnqueueRendering(r) PROVE Quiet' /\ store' \subseteq store
    BY <1>8, EnqueueEffect DEF Typed
  <1>9. ASSUME NEW r \in Runs, RunRetry(r) \/ Dequeue(r) \/ RenderVideo(r) \/ Ack(r)
        PROVE  Quiet' /\ store' \subseteq store
    BY <1>9, MoveEffect
  <1>10. ASSUME NEW r \in Runs, Begin(r) PROVE FALSE
    BY <1>10, BeginEffect
  <1>11. ASSUME NEW r \in Runs, RenderFails(r) PROVE FALSE
    BY <1>11, FailsEffect
  <1>12. ASSUME NEW r \in Runs, PutVideo(r) PROVE FALSE
    BY <1>12, PutVideoEffect
  <1>13. ASSUME NEW r \in Runs, PutThumbnail(r) PROVE FALSE
    BY <1>13, PutThumbnailEffect
  <1>14. ASSUME NEW r \in Runs, CommitClip(r) PROVE FALSE
    BY <1>14, CommitEffect
  <1>15. ASSUME NEW r \in Runs, Interrupted(r) PROVE Quiet' /\ store' \subseteq store
    <2>1. store' = store /\ Raise(r)
      BY <1>15, InterruptedEffect
    <2>2. run'[r].pc \in {"parked", "free"} /\ \A s \in Runs \ {r} : run'[s] = run[s]
      BY <2>1, RaiseEffect
    <2> QED BY <2>1, <2>2
  <1> QED BY <1>1, <1>2, <1>3, <1>4, <1>5, <1>6, <1>7, <1>8, <1>9, <1>10, <1>11, <1>12, <1>13,
             <1>14, <1>15 DEF Next, WorkerStep

(* Once a job is cancelled and the runs past candidate_job_is_cancelled are *)
(* through, no run gets past it and nothing is stored any more, however     *)
(* many jobs are still queued or parked.                                    *)
THEOREM CancelHolds ==
  ASSUME IsFiniteSet(Runs)
  PROVE  Spec => CancelStopsRendering
  <1>1. Typed /\ [Next]_vars => Typed'
    BY TypedStep
  <1>2. Typed /\ [Next]_vars => [job = "cancelled" /\ Quiet => Quiet' /\ store' \subseteq store]_vars
    BY QuietStep
  <1> QED BY <1>1, <1>2, TypedInit, PTL DEF Spec, CancelStopsRendering

-----------------------------------------------------------------------------
(* While nothing is interrupted there is one clip, one run at most that is  *)
(* about, and nothing left for it to do once the clip is rendered.          *)
AlreadyRendered(c) == approved[c] # 0 => video[c] = approved[c]
NotYetRendered(c) == clip[c] # "rendered" => video[c] = 0 /\ thumb[c] = 0 /\ approved[c] = 0
OneRun ==
  /\ \A q, r \in Runs : Live(q) /\ Live(r) => q = r
  /\ owed # 0 => owed = 1 /\ \A r \in Runs : ~Live(r)
  /\ clip[1] = "absent" => owed = 0 /\ \A r \in Runs : ~Live(r)
  /\ clip[1] = "rendered" => owed = 0 /\ \A r \in Runs : run[r].pc \in {"free", "ack"}
NotYetStored ==
  \A r \in Runs : /\ run[r].pc # "parked"
                  /\ run[r].pc \notin {"thumb", "commit"} => run[r].video = 0
                  /\ run[r].pc # "commit" => run[r].thumb = 0
Orderly ==
  OnlyClip /\ OneRun /\ NotYetStored /\ \A c \in Clips : NotYetRendered(c) /\ AlreadyRendered(c)

LEMMA FaultsCount ==
  ASSUME Typed, IsFiniteSet(Runs), [Next]_vars, faults' = 0
  PROVE  /\ faults = 0 /\ ~ScoringDies /\ ~ScoringAgain /\ \A r \in Runs : ~Interrupted(r)
         /\ AddClip => clip[1] = "absent" /\ clip' = [clip EXCEPT ![1] = "pending"]
  <1>t. faults \in Nat
    BY RenderingAssumption DEF Typed, OthersTyped
  <1>1. ~ScoringDies /\ ~ScoringAgain /\ \A r \in Runs : ~Interrupted(r)
    BY <1>t DEF ScoringDies, ScoringAgain, Interrupted
  <1>2. ASSUME AddClip PROVE faults = 0 /\ clip[1] = "absent" /\ clip' = [clip EXCEPT ![1] = "pending"]
    <2>1. PICK c \in Clips : /\ clip[c] = "absent" /\ clip' = [clip EXCEPT ![c] = "pending"]
                             /\ faults' = IF c = 1 THEN faults ELSE faults + 1
      BY <1>2 DEF AddClip
    <2>2. faults' = 0
      OBVIOUS
    <2>3. c = 1 /\ faults = 0
      <3>1. CASE c = 1
        BY <2>1, <2>2, <3>1
      <3>2. CASE c # 1
        BY <1>t, <2>1, <2>2, <3>2
      <3> QED BY <3>1, <3>2
    <2> QED BY <2>1, <2>3
  <1>3. ASSUME NEW c \in Clips,
               \/ ReviewClip(c) \/ UpdateClipCaption(c) \/ BeginCaption(c) \/ CommitCaption(c)
               \/ DeleteClipFiles(c) \/ DeleteClipRow(c)
        PROVE  faults' = faults
    BY <1>3 DEF ReviewClip, UpdateClipCaption, BeginCaption, CommitCaption, DeleteClipFiles, DeleteClipRow
  <1>4. CancelJob \/ DeleteJobFiles \/ DeleteJobRows \/ UNCHANGED vars => faults' = faults
    BY DEF CancelJob, DeleteJobFiles, DeleteJobRows, vars
  <1>5. ASSUME NEW r \in Runs, EnqueueRendering(r) \/ WorkerStep(r) PROVE faults' = faults
    BY <1>5 DEF EnqueueRendering, WorkerStep, RunRetry, Dequeue, Begin, RenderFails, RenderVideo,
                PutVideo, PutThumbnail, CommitClip, Ack
  <1> QED BY <1>1, <1>2, <1>3, <1>4, <1>5 DEF Next

(* The rows that a run's step may change, and how.                          *)
LEMMA OrderlyRun ==
  ASSUME Orderly, NEW r \in Runs, Live(r), clip \in [Clips -> Statuses],
         UNCHANGED <<owed, approved>>,
         \A s \in Runs \ {r} : run'[s] = run[s],
         clip' = clip \/ clip' = [clip EXCEPT ![1] = "rendering"]
                      \/ clip' = [clip EXCEPT ![1] = "failed"],
         UNCHANGED <<video, thumb>>,
         run[r].pc \notin {"free", "ack"} \/ clip' = clip,
         run[r].pc = "ack" => run'[r].pc \in {"free", "ack"},
         run'[r].pc # "parked",
         run'[r].pc \notin {"thumb", "commit"} => run'[r].video = 0,
         run'[r].pc # "commit" => run'[r].thumb = 0
  PROVE  Orderly'
  <1>0. 1 \in Clips
    BY RenderingAssumption DEF Clips
  <1>1. owed = 0 /\ clip[1] # "absent" /\ \A s \in Runs \ {r} : ~Live(s)
    BY DEF Orderly, OneRun
  <1>2. \A c \in Clips \ {1} : clip'[c] = clip[c]
    OBVIOUS
  <1>3. clip'[1] \in {clip[1], "rendering", "failed"}
    BY <1>0
  <1>4. OnlyClip'
    BY <1>2 DEF Orderly, OnlyClip, Clips
  <1>5. \A s \in Runs \ {r} : ~Live(s)'
    BY <1>1 DEF Live
  <1>6. clip'[1] = "rendered" => clip' = clip /\ run'[r].pc \in {"free", "ack"}
    <2> SUFFICES ASSUME clip'[1] = "rendered" PROVE clip' = clip /\ run'[r].pc \in {"free", "ack"}
      OBVIOUS
    <2>1. clip[1] = "rendered"
      BY <1>3
    <2>2. run[r].pc = "ack"
      BY <2>1 DEF Orderly, OneRun, Live
    <2> QED BY <2>2
  <1>7. OneRun'
    BY <1>1, <1>3, <1>5, <1>6 DEF OneRun, Live
  <1>8. NotYetStored'
    BY DEF Orderly, NotYetStored
  <1>9. ASSUME NEW c \in Clips PROVE NotYetRendered(c)' /\ AlreadyRendered(c)'
    <2>1. NotYetRendered(c) /\ AlreadyRendered(c)
      BY DEF Orderly
    <2>2. AlreadyRendered(c)'
      BY <2>1 DEF AlreadyRendered
    <2>3. clip[c] = "rendered" => clip'[c] = "rendered"
      <3>1. CASE c = 1
        <4>1. clip[1] = "rendered" => run[r].pc = "ack"
          BY DEF Orderly, OneRun, Live
        <4> QED BY <3>1, <4>1
      <3> QED BY <3>1, <1>2
    <2>4. NotYetRendered(c)'
      BY <2>1, <2>3 DEF NotYetRendered
    <2> QED BY <2>2, <2>4
  <1> QED BY <1>4, <1>7, <1>8, <1>9 DEF Orderly

(* A step of a request: it starts no clip to render, and runs go on.        *)
LEMMA OrderlyRequest ==
  ASSUME Orderly, UNCHANGED <<run, owed>>,
         \A c \in Clips : \/ /\ clip'[c] = clip[c] /\ video'[c] = video[c] /\ thumb'[c] = thumb[c]
                             /\ \/ approved'[c] = approved[c]
                                \/ clip[c] = "rendered" /\ approved'[c] = video[c]
                          \/ /\ Exists(c) /\ clip'[c] = "deleted"
                             /\ video'[c] = 0 /\ thumb'[c] = 0 /\ approved'[c] = 0
  PROVE  Orderly'
  <1>0. 1 \in Clips
    BY RenderingAssumption DEF Clips
  <1>1. \A c \in Clips : clip'[c] \in {clip[c], "deleted"}
                         /\ (clip[c] = "absent" => clip'[c] = "absent")
    BY DEF Exists
  <1>2. OnlyClip'
    BY <1>1 DEF Orderly, OnlyClip
  <1>3. OneRun'
    <2>1. clip'[1] \in {"absent", "rendered"} => clip[1] = clip'[1]
      BY <1>0, <1>1
    <2> QED BY <2>1 DEF Orderly, OneRun, Live
  <1>4. NotYetStored'
    BY DEF Orderly, NotYetStored
  <1>5. \A c \in Clips : NotYetRendered(c)' /\ AlreadyRendered(c)'
    BY DEF Orderly, NotYetRendered, AlreadyRendered
  <1> QED BY <1>2, <1>3, <1>4, <1>5 DEF Orderly

LEMMA OrderlyStep ==
  ASSUME Typed, Placed, Orderly, IsFiniteSet(Runs), [Next]_vars, faults' = 0
  PROVE  Orderly'
  <1>t. /\ clip \in [Clips -> Statuses] /\ approved \in [Clips -> Nat] /\ RunsTyped
        /\ video \in [Clips -> Nat] /\ thumb \in [Clips -> Nat] /\ 1 \in Clips /\ owed \in Nat
    BY RenderingAssumption DEF Typed, ClipsTyped, OthersTyped, Clips
  <1>s. \A r \in Runs : /\ run[r].pc # "parked"
                        /\ run[r].pc \notin {"thumb", "commit"} => run[r].video = 0
                        /\ run[r].pc # "commit" => run[r].thumb = 0
    BY DEF Orderly, NotYetStored
  <1>o. ASSUME NEW r \in Runs, run[r].pc \in AtWork PROVE run[r].clip = 1
    BY <1>o DEF Placed, Orderly, OnlyClip, Clips
  <1>1. CASE UNCHANGED vars
    BY <1>1, OrderlyRequest DEF vars, objects
  <1>2. CASE CancelJob
    BY <1>2, OrderlyRequest DEF CancelJob, objects
  <1>3. ASSUME NEW c \in Clips, ReviewClip(c) PROVE Orderly'
    <2>1. /\ UNCHANGED <<run, owed, clip, video, thumb>> /\ clip[c] = "rendered"
          /\ approved' = [approved EXCEPT ![c] = video[c]]
      BY <1>3 DEF ReviewClip, objects
    <2>2. \A d \in Clips : approved'[d] = approved[d] \/ (clip[d] = "rendered" /\ approved'[d] = video[d])
      BY <1>t, <2>1
    <2> QED BY <2>1, <2>2, OrderlyRequest
  <1>4. ASSUME NEW c \in Clips, UpdateClipCaption(c) \/ BeginCaption(c) \/ CommitCaption(c) PROVE Orderly'
    <2>1. UNCHANGED <<run, owed, clip, video, thumb, approved>>
      BY <1>4 DEF UpdateClipCaption, BeginCaption, CommitCaption, objects
    <2> QED BY <2>1, OrderlyRequest
  <1>5. CASE AddClip
    <2>1. clip[1] = "absent" /\ clip' = [clip EXCEPT ![1] = "pending"]
      BY <1>5, FaultsCount
    <2>2. UNCHANGED <<video, thumb, approved, run>> /\ owed' = owed + 1
      BY <1>5 DEF AddClip, objects
    <2>3. owed = 0 /\ \A r \in Runs : ~Live(r)
      BY <2>1 DEF Orderly, OneRun
    <2>4. OnlyClip'
      BY <1>t, <2>1 DEF Orderly, OnlyClip, Clips
    <2>5. OneRun'
      BY <1>t, <2>1, <2>2, <2>3 DEF OneRun, Live
    <2>6. NotYetStored'
      BY <2>2 DEF Orderly, NotYetStored
    <2>7. \A c \in Clips : NotYetRendered(c)' /\ AlreadyRendered(c)'
      BY <1>t, <2>1, <2>2 DEF Orderly, NotYetRendered, AlreadyRendered
    <2> QED BY <2>4, <2>5, <2>6, <2>7 DEF Orderly
  <1>6. ASSUME NEW c \in Clips, DeleteClipFiles(c) PROVE Orderly'
    <2>1. UNCHANGED <<run, owed, clip, video, thumb, approved>>
      BY <1>6 DEF DeleteClipFiles
    <2> QED BY <2>1, OrderlyRequest
  <1>7. CASE DeleteJobFiles
    <2>1. UNCHANGED <<run, owed, clip, video, thumb, approved>>
      BY <1>7 DEF DeleteJobFiles
    <2> QED BY <2>1, OrderlyRequest
  <1>8. ASSUME NEW gone \in SUBSET Existing, DeleteRowsOf(gone), UNCHANGED <<run, owed>> PROVE Orderly'
    <2>1. \A c \in Clips : \/ /\ clip'[c] = clip[c] /\ video'[c] = video[c] /\ thumb'[c] = thumb[c]
                              /\ approved'[c] = approved[c]
                           \/ /\ Exists(c) /\ clip'[c] = "deleted"
                              /\ video'[c] = 0 /\ thumb'[c] = 0 /\ approved'[c] = 0
      BY <1>8 DEF DeleteRowsOf, Existing
    <2> QED BY <1>8, <2>1, OrderlyRequest
  <1>9. ASSUME NEW c \in Clips, DeleteClipRow(c) PROVE Orderly'
    BY <1>8, <1>9 DEF DeleteClipRow
  <1>10. CASE DeleteJobRows
    BY <1>8, <1>10 DEF DeleteJobRows
  <1>11. ASSUME NEW r \in Runs, EnqueueRendering(r) PROVE Orderly'
    <2>1. /\ UNCHANGED <<clip, video, thumb, approved>> /\ run'[r].pc = "queued"
          /\ run'[r].video = 0 /\ run'[r].thumb = 0 /\ \A s \in Runs \ {r} : run'[s] = run[s]
      BY <1>t, <1>11, EnqueueEffect
    <2>2. owed > 0 /\ owed' = owed - 1
      BY <1>11 DEF EnqueueRendering
    <2>3. owed = 1 /\ (\A s \in Runs : ~Live(s)) /\ clip[1] \notin {"absent", "rendered"}
      BY <1>t, <2>2 DEF Orderly, OneRun
    <2>4. OneRun'
      BY <2>1, <2>2, <2>3 DEF OneRun, Live
    <2>5. NotYetStored'
      BY <2>1 DEF Orderly, NotYetStored
    <2>6. OnlyClip' /\ \A c \in Clips : NotYetRendered(c)' /\ AlreadyRendered(c)'
      BY <2>1 DEF Orderly, OnlyClip, NotYetRendered, AlreadyRendered
    <2> QED BY <2>4, <2>5, <2>6 DEF Orderly
  <1>12. ASSUME NEW r \in Runs, RunRetry(r) \/ Dequeue(r) \/ RenderVideo(r) \/ Ack(r) PROVE Orderly'
    <2>1. /\ UNCHANGED <<approved, owed, clip, video, thumb>> /\ \A s \in Runs \ {r} : run'[s] = run[s]
          /\ run'[r].video \in {0, run[r].video} /\ run'[r].thumb \in {0, run[r].thumb}
          /\ \/ run[r].pc = "parked"
             \/ run[r].pc \in {"queued", "work"} /\ run'[r].pc \in {"free", "begin", "video"}
             \/ run[r].pc = "ack" /\ run'[r].pc = "free"
      BY <1>12, MoveEffect
    <2> QED BY <1>t, <1>s, <2>1, OrderlyRun DEF Live
  <1>13. ASSUME NEW r \in Runs, Begin(r) PROVE Orderly'
    <2>1. /\ UNCHANGED <<approved, owed, video, thumb>> /\ run[r].pc = "begin"
          /\ \A s \in Runs \ {r} : run'[s] = run[s]
          /\ run'[r].video \in {0, run[r].video} /\ run'[r].thumb \in {0, run[r].thumb}
          /\ \/ run'[r].pc = "free" /\ clip' = clip
             \/ \E c \in Clips : /\ Exists(c) /\ clip' = [clip EXCEPT ![c] = "rendering"]
                                 /\ run'[r].pc = "work"
      BY <1>13, BeginEffect
    <2>2. \A c \in Clips : Exists(c) => c = 1
      BY DEF Exists, Orderly, OnlyClip, Clips
    <2>3. clip' = clip \/ clip' = [clip EXCEPT ![1] = "rendering"]
      BY <2>1, <2>2
    <2>4. run'[r].pc \in {"free", "work"}
      BY <2>1
    <2>5. run'[r].video = 0 /\ run'[r].thumb = 0
      BY <1>s, <2>1
    <2> QED BY <1>t, <2>1, <2>3, <2>4, <2>5, OrderlyRun DEF Live
  <1>14. ASSUME NEW r \in Runs, RenderFails(r) PROVE Orderly'
    <2>1. /\ UNCHANGED <<approved, owed, video, thumb>> /\ run[r].pc = "work"
          /\ \A s \in Runs \ {r} : run'[s] = run[s]
          /\ run'[r].pc = "ack" /\ run'[r].video = 0 /\ run'[r].thumb = 0
          /\ clip' = [clip EXCEPT ![run[r].clip] = "failed"] \/ clip' = clip
      BY <1>14, FailsEffect
    <2>2. clip' = clip \/ clip' = [clip EXCEPT ![1] = "failed"]
      BY <1>o, <2>1 DEF AtWork
    <2> QED BY <1>t, <2>1, <2>2, OrderlyRun DEF Live
  <1>15. ASSUME NEW r \in Runs, PutVideo(r) PROVE Orderly'
    <2>1. /\ UNCHANGED <<approved, owed, clip, video, thumb>> /\ run[r].pc = "video"
          /\ \A s \in Runs \ {r} : run'[s] = run[s]
          /\ run'[r].pc = "thumb" /\ run'[r].thumb = run[r].thumb
      BY <1>15, PutVideoEffect
    <2> QED BY <1>t, <1>s, <2>1, OrderlyRun DEF Live
  <1>16. ASSUME NEW r \in Runs, PutThumbnail(r) PROVE Orderly'
    <2>1. /\ UNCHANGED <<approved, owed, clip, video, thumb>> /\ run[r].pc = "thumb"
          /\ \A s \in Runs \ {r} : run'[s] = run[s] /\ run'[r].pc = "commit"
      BY <1>16, PutThumbnailEffect
    <2>2. run'[r].pc = "commit"
      BY <1>16, PutThumbnailEffect
    <2> QED BY <1>t, <2>1, <2>2, OrderlyRun DEF Live
  <1>17. ASSUME NEW r \in Runs, CommitClip(r) PROVE Orderly'
    <2>1. /\ UNCHANGED <<approved, owed>> /\ run[r].pc = "commit"
          /\ \A s \in Runs \ {r} : run'[s] = run[s]
      BY <1>17, CommitEffect
    <2>2. run'[r].pc = "ack" /\ run'[r].video = 0 /\ run'[r].thumb = 0
      BY <1>17, CommitEffect
    <2>3. run[r].clip = 1
      BY <1>o, <2>1 DEF AtWork
    <2>4. CASE ~Exists(1)
      <3>1. UNCHANGED <<clip, video, thumb>>
        BY <1>17, <2>3, <2>4, CommitEffect
      <3> QED BY <1>t, <2>1, <2>2, <3>1, OrderlyRun DEF Live
    <2>5. CASE Exists(1)
      <3>1. /\ clip' = [clip EXCEPT ![1] = "rendered"]
            /\ video' = [video EXCEPT ![1] = run[r].video]
            /\ thumb' = [thumb EXCEPT ![1] = run[r].thumb]
        BY <1>17, <2>3, <2>5, CommitEffect
      <3>2. owed = 0 /\ clip[1] # "rendered" /\ \A s \in Runs \ {r} : ~Live(s)
        BY <2>1 DEF Orderly, OneRun, Live
      <3>3. OneRun'
        BY <1>t, <2>1, <2>2, <3>1, <3>2 DEF OneRun, Live
      <3>4. NotYetStored'
        BY <2>1, <2>2 DEF Orderly, NotYetStored
      <3>5. OnlyClip'
        BY <1>t, <3>1 DEF Orderly, OnlyClip, Clips
      <3>6. approved[1] = 0
        BY <1>t, <3>2 DEF Orderly, NotYetRendered
      <3>7. ASSUME NEW c \in Clips PROVE NotYetRendered(c)' /\ AlreadyRendered(c)'
        BY <1>t, <2>1, <3>1, <3>6 DEF Orderly, NotYetRendered, AlreadyRendered
      <3> QED BY <3>3, <3>4, <3>5, <3>7 DEF Orderly
    <2> QED BY <2>4, <2>5
  <1>18. ~ScoringDies /\ ~ScoringAgain /\ \A r \in Runs : ~Interrupted(r)
    BY FaultsCount
  <1> QED BY <1>1, <1>2, <1>3, <1>4, <1>5, <1>6, <1>7, <1>9, <1>10, <1>11, <1>12, <1>13,
             <1>14, <1>15, <1>16, <1>17, <1>18 DEF Next, WorkerStep

-----------------------------------------------------------------------------
(* NothingOrphaned.  A deletion, once begun, is not taken back, ...         *)
Calm == \A c \in Clips : clip[c] # "absent" => ~BeingDeleted(c)

LEMMA CalmBefore ==
  ASSUME Typed, IsFiniteSet(Runs), [Next]_vars, Calm'
  PROVE  Calm
  <1> SUFFICES ASSUME NEW c \in Clips, clip[c] # "absent", BeingDeleted(c)
               PROVE  clip'[c] # "absent" /\ BeingDeleted(c)'
    BY DEF Calm
  <1>t. clip \in [Clips -> Statuses] /\ c \in Nat /\ Typed
    BY DEF Typed, ClipsTyped, Clips
  <1>a. ASSUME clip'[c] # "absent", ~Exists(c) => ~Exists(c)', ~raw => ~raw',
               <<"delete", c>> \in requests => <<"delete", c>> \in requests'
        PROVE  clip'[c] # "absent" /\ BeingDeleted(c)'
    BY <1>a DEF BeingDeleted
  <1>b. ASSUME NEW d \in Clips, NEW new \in {"pending", "rendering", "rendered", "failed"},
               clip' = [clip EXCEPT ![d] = new], d = c => Exists(c), UNCHANGED <<raw, requests>>
        PROVE  clip'[c] # "absent" /\ BeingDeleted(c)'
    BY <1>t, <1>a, <1>b DEF Exists
  <1>c. ASSUME UNCHANGED <<clip, raw, requests>> PROVE clip'[c] # "absent" /\ BeingDeleted(c)'
    BY <1>a, <1>c DEF Exists
  <1>1. CASE UNCHANGED vars
    BY <1>1, <1>c DEF vars
  <1>2. CASE \/ ScoringDies \/ ScoringAgain \/ CancelJob
             \/ \E d \in Clips : ReviewClip(d) \/ UpdateClipCaption(d) \/ BeginCaption(d) \/ CommitCaption(d)
    BY <1>t, <1>2, <1>a, QuietEffect DEF Exists
  <1>3. CASE AddClip
    <2>1. PICK d \in Clips : clip[d] = "absent" /\ clip' = [clip EXCEPT ![d] = "pending"]
      BY <1>3, AddClipEffect
    <2>2. UNCHANGED <<raw, requests>>
      BY <1>3, AddClipEffect
    <2> QED BY <2>1, <2>2, <1>b
  <1>4. ASSUME NEW d \in Clips, DeleteClipFiles(d) PROVE clip'[c] # "absent" /\ BeingDeleted(c)'
    BY <1>4, <1>a, DeleteFilesEffect DEF Exists
  <1>5. ASSUME NEW d \in Clips, DeleteClipRow(d) PROVE clip'[c] # "absent" /\ BeingDeleted(c)'
    <2>1. raw' = raw /\ requests' = requests \ {<<"delete", d>>}
          /\ clip'[c] = IF c = d /\ Exists(c) THEN "deleted" ELSE clip[c]
      BY <1>5, DeleteClipRowEffect
    <2>2. CASE c = d
      BY <2>1, <2>2 DEF BeingDeleted, Exists
    <2>3. CASE c # d
      BY <2>1, <2>3, <1>a DEF Exists
    <2> QED BY <2>2, <2>3
  <1>6. CASE DeleteJobFiles
    <2>1. clip' = clip /\ raw' = FALSE
      BY <1>6, DeleteJobFilesEffect
    <2> QED BY <2>1 DEF BeingDeleted
  <1>7. CASE DeleteJobRows
    <2>1. clip'[c] = "deleted" \/ (clip'[c] = clip[c] /\ ~Exists(c))
      BY <1>7, DeleteJobRowsEffect
    <2> QED BY <2>1 DEF BeingDeleted, Exists
  <1>8. ASSUME NEW r \in Runs, EnqueueRendering(r) PROVE clip'[c] # "absent" /\ BeingDeleted(c)'
    BY <1>8, <1>c, EnqueueEffect DEF Typed
  <1>9. ASSUME NEW r \in Runs, RunRetry(r) \/ Dequeue(r) \/ RenderVideo(r) \/ Ack(r)
        PROVE  clip'[c] # "absent" /\ BeingDeleted(c)'
    BY <1>9, <1>c, MoveEffect
  <1>10. ASSUME NEW r \in Runs, Begin(r) PROVE clip'[c] # "absent" /\ BeingDeleted(c)'
    <2>1. UNCHANGED <<raw, requests>>
      BY <1>10, BeginEffect
    <2>2. clip' = clip \/ \E d \in Clips : Exists(d) /\ clip' = [clip EXCEPT ![d] = "rendering"]
      BY <1>10, BeginEffect
    <2> QED BY <2>1, <2>2, <1>b, <1>c
  <1>11. ASSUME NEW r \in Runs, RenderFails(r) PROVE clip'[c] # "absent" /\ BeingDeleted(c)'
    <2>1. UNCHANGED <<raw, requests>>
          /\ IF run[r].clip # 0 /\ Exists(run[r].clip)
             THEN clip' = [clip EXCEPT ![run[r].clip] = "failed"] ELSE clip' = clip
      BY <1>11, FailsEffect
    <2>2. clip'[c] = clip[c] \/ (Exists(c) /\ clip'[c] = "failed")
      BY <1>t, <2>1
    <2> QED BY <2>1, <2>2, <1>a DEF Exists
  <1>12. ASSUME NEW r \in Runs, PutVideo(r) PROVE clip'[c] # "absent" /\ BeingDeleted(c)'
    BY <1>12, <1>c, PutVideoEffect
  <1>13. ASSUME NEW r \in Runs, PutThumbnail(r) PROVE clip'[c] # "absent" /\ BeingDeleted(c)'
    BY <1>13, <1>c, PutThumbnailEffect
  <1>14. ASSUME NEW r \in Runs, CommitClip(r) PROVE clip'[c] # "absent" /\ BeingDeleted(c)'
    <2>1. UNCHANGED <<raw, requests>>
          /\ IF Exists(run[r].clip) THEN clip' = [clip EXCEPT ![run[r].clip] = "rendered"]
                                    ELSE clip' = clip
      BY <1>14, CommitEffect
    <2>2. clip'[c] = clip[c] \/ (Exists(c) /\ clip'[c] = "rendered")
      BY <1>t, <2>1
    <2> QED BY <2>1, <2>2, <1>a DEF Exists
  <1>15. ASSUME NEW r \in Runs, Interrupted(r) PROVE clip'[c] # "absent" /\ BeingDeleted(c)'
    <2>1. UNCHANGED <<raw, requests>> /\ Raise(r)
      BY <1>15, InterruptedEffect
    <2>2. clip'[c] = clip[c] \/ (c = LatestClip /\ clip'[c] = "failed")
      BY <2>1, RaiseEffect
    <2>3. c = LatestClip => Exists(c)
      BY <1>t, Latest DEF Clips
    <2> QED BY <2>1, <2>2, <2>3, <1>a DEF Exists
  <1> QED BY <1>1, <1>2, <1>3, <1>4, <1>5, <1>6, <1>7, <1>8, <1>9, <1>10, <1>11, <1>12, <1>13,
             <1>14, <1>15 DEF Next, WorkerStep

(* ... and until it is, what somebody has named stays named.                *)
NamedBy(k) == \/ \E c \in Clips : k \in RowKeys(c)
              \/ \E r \in Runs : k \in RunKeys(r)
LEMMA OrphanFrame ==
  ASSUME Typed, IsFiniteSet(Runs), NothingOrphaned, [Next]_vars, faults' = 0,
         Calm' => store' \subseteq store \/ store' = store \cup {NewKey},
         Calm' => \A k \in store : NamedBy(k) => NamedBy(k)',
         Calm' /\ store' = store \cup {NewKey} /\ NewKey \notin store => NamedBy(NewKey)
                                                   \/ \E r \in Runs : NewKey \in {run'[r].video, run'[r].thumb}
  PROVE  NothingOrphaned'
  <1>1. SUFFICES ASSUME Calm', NEW k \in store' PROVE (k \in Named)'
    BY DEF NothingOrphaned, Calm
  <1>2. faults = 0 /\ Calm
    BY <1>1, FaultsCount, CalmBefore
  <1>3. store \subseteq Nat \ {0} /\ NewKey \in Nat \ {0} /\ NewKey \notin Handed
    BY Fresh DEF Typed, StoreTyped
  <1>4. \A x \in store : NamedBy(x)
    <2>1. \A x \in store : x # 0 /\ x \in Named
      BY <1>2, <1>3 DEF NothingOrphaned, Calm
    <2> QED BY <2>1 DEF Named, NamedBy, RowKeys, RunKeys
  <1>5. ~NamedBy(NewKey)
    BY <1>3 DEF NamedBy, RowKeys, RunKeys, Handed
  <1> HIDE DEF NewKey
  <1>6. \A x : NamedBy(x)' => (x \in Named)'
    BY DEF NamedBy, RowKeys, RunKeys, Named
  <1>7. CASE k \in store
    BY <1>1, <1>4, <1>6, <1>7
  <1>8. CASE k \notin store
    <2>1. store' = store \cup {NewKey} /\ k = NewKey
      BY <1>1, <1>8
    <2>2. \E r \in Runs : k \in {run'[r].video, run'[r].thumb}
      BY <1>1, <1>5, <1>8, <2>1
    <2> QED BY <2>2 DEF Named
  <1> QED BY <1>7, <1>8

LEMMA OrphanStep ==
  ASSUME Typed, Placed, Orderly, IsFiniteSet(Runs), NothingOrphaned, [Next]_vars, faults' = 0
  PROVE  NothingOrphaned'
  <1>t. /\ clip \in [Clips -> Statuses] /\ RunsTyped /\ 1 \in Clips
        /\ video \in [Clips -> Nat] /\ thumb \in [Clips -> Nat]
    BY RenderingAssumption DEF Typed, ClipsTyped, Clips
  <1>s. \A r \in Runs : /\ run[r].pc # "parked"
                        /\ run[r].pc \notin {"thumb", "commit"} => run[r].video = 0
                        /\ run[r].pc # "commit" => run[r].thumb = 0
    BY DEF Orderly, NotYetStored
  <1>a. ASSUME store' \subseteq store, \A r \in Runs : RunKeys(r) \subseteq RunKeys(r)',
               UNCHANGED <<video, thumb>>
        PROVE  NothingOrphaned'
    <2>1. \A k : NamedBy(k) => NamedBy(k)'
      BY <1>a DEF NamedBy, RowKeys
    <2>2. CASE NewKey \in store \/ store' # store \cup {NewKey}
      BY <1>a, <2>1, <2>2, OrphanFrame
    <2>3. CASE ~(NewKey \in store \/ store' # store \cup {NewKey})
      BY <1>a, <2>3
    <2> QED BY <2>2, <2>3
  <1>b. ASSUME run' = run, store' \subseteq store, UNCHANGED <<video, thumb>> PROVE NothingOrphaned'
    <2>1. \A r \in Runs : RunKeys(r) \subseteq RunKeys(r)'
      BY <1>b DEF RunKeys
    <2> QED BY <1>b, <2>1, <1>a
  \* The run r had stored nothing yet, or keeps what it had.
  <1>c. ASSUME NEW r \in Runs, \A s \in Runs \ {r} : run'[s] = run[s], UNCHANGED <<video, thumb, store>>,
               run[r].video = 0 \/ run'[r].video = run[r].video,
               run[r].thumb = 0 \/ run'[r].thumb = run[r].thumb
        PROVE  NothingOrphaned'
    <2>1. \A s \in Runs : RunKeys(s) \subseteq RunKeys(s)'
      BY <1>c DEF RunKeys
    <2> QED BY <1>c, <2>1, <1>a
  \* The run r stores its next object.
  <1>d. ASSUME NEW r \in Runs, store' = store \cup {NewKey}, UNCHANGED <<video, thumb>>,
               \A s \in Runs : RunKeys(s) \subseteq RunKeys(s)',
               NewKey \in {run'[r].video, run'[r].thumb}
        PROVE  NothingOrphaned'
    <2>1. \A k : NamedBy(k) => NamedBy(k)'
      BY <1>d DEF NamedBy, RowKeys
    <2> HIDE DEF NewKey
    <2> QED BY <1>d, <2>1, OrphanFrame
  \* A deletion ends the calm.
  <1>e. ASSUME ~Calm' PROVE NothingOrphaned'
    BY <1>e DEF Calm, NothingOrphaned
  <1>1. CASE UNCHANGED vars
    BY <1>1, <1>b DEF vars, objects
  <1>2. CASE \/ ScoringDies \/ ScoringAgain \/ CancelJob
             \/ \E c \in Clips : ReviewClip(c) \/ UpdateClipCaption(c) \/ BeginCaption(c) \/ CommitCaption(c)
    BY <1>2, <1>b, QuietEffect
  <1>3. CASE AddClip
    BY <1>3, <1>b, AddClipEffect
  <1>4. ASSUME NEW c \in Clips, DeleteClipFiles(c) PROVE NothingOrphaned'
    BY <1>4, <1>b, DeleteFilesEffect
  <1>5. ASSUME NEW c \in Clips, DeleteClipRow(c) PROVE NothingOrphaned'
    <2>1. /\ UNCHANGED <<store, run>>
          /\ \A d \in Clips : IF d = c /\ Exists(c)
                              THEN clip'[d] = "deleted" /\ video'[d] = 0 /\ thumb'[d] = 0
                              ELSE clip'[d] = clip[d] /\ video'[d] = video[d] /\ thumb'[d] = thumb[d]
      BY <1>5, DeleteClipRowEffect
    <2>2. CASE Exists(c)
      <3>1. clip'[c] = "deleted"
        BY <2>1, <2>2
      <3> QED BY <3>1, <1>e DEF Calm, BeingDeleted, Exists
    <2>3. CASE ~Exists(c)
      <3>1. \A d \in Clips : video'[d] = video[d] /\ thumb'[d] = thumb[d]
        BY <2>1, <2>3
      <3>2. \A k : NamedBy(k) => NamedBy(k)'
        BY <2>1, <3>1 DEF NamedBy, RowKeys, RunKeys
      <3>3. store' = store
        BY <2>1
      <3> HIDE DEF NewKey
      <3> QED BY <3>2, <3>3, OrphanFrame
    <2> QED BY <2>2, <2>3
  <1>6. CASE DeleteJobFiles
    BY <1>6, <1>b, DeleteJobFilesEffect
  <1>7. CASE DeleteJobRows
    <2>1. /\ UNCHANGED <<store, run>>
          /\ \A c \in Clips : IF Exists(c) THEN clip'[c] = "deleted" /\ video'[c] = 0 /\ thumb'[c] = 0
                              ELSE clip'[c] = clip[c] /\ video'[c] = video[c] /\ thumb'[c] = thumb[c]
      BY <1>7, DeleteJobRowsEffect
    <2>2. CASE \E c \in Clips : Exists(c)
      <3>1. \E c \in Clips : clip'[c] = "deleted"
        BY <2>1, <2>2
      <3> QED BY <3>1, <1>e DEF Calm, BeingDeleted, Exists
    <2>3. CASE ~\E c \in Clips : Exists(c)
      <3>1. \A d \in Clips : video'[d] = video[d] /\ thumb'[d] = thumb[d]
        BY <2>1, <2>3
      <3>2. \A k : NamedBy(k) => NamedBy(k)'
        BY <2>1, <3>1 DEF NamedBy, RowKeys, RunKeys
      <3>3. store' = store
        BY <2>1
      <3> HIDE DEF NewKey
      <3> QED BY <3>2, <3>3, OrphanFrame
    <2> QED BY <2>2, <2>3
  <1>8. ASSUME NEW r \in Runs, EnqueueRendering(r) PROVE NothingOrphaned'
    <2>1. run[r].video = 0 /\ run[r].thumb = 0
      BY <1>8, <1>s DEF EnqueueRendering, Live
    <2> QED BY <1>8, <1>t, <1>c, <2>1, EnqueueEffect
  <1>9. ASSUME NEW r \in Runs, RunRetry(r) \/ Dequeue(r) \/ RenderVideo(r) \/ Ack(r) PROVE NothingOrphaned'
    <2>1. run[r].video = 0 /\ run[r].thumb = 0
      BY <1>9, <1>s, MoveEffect
    <2> QED BY <1>9, <1>c, <2>1, MoveEffect
  <1>10. ASSUME NEW r \in Runs, Begin(r) PROVE NothingOrphaned'
    <2>1. run[r].video = 0 /\ run[r].thumb = 0
      BY <1>10, <1>s, BeginEffect
    <2> QED BY <1>10, <1>c, <2>1, BeginEffect
  <1>11. ASSUME NEW r \in Runs, RenderFails(r) PROVE NothingOrphaned'
    <2>1. run[r].video = 0 /\ run[r].thumb = 0
      BY <1>11, <1>s, FailsEffect
    <2> QED BY <1>11, <1>c, <2>1, FailsEffect
  <1>12. ASSUME NEW r \in Runs, PutVideo(r) PROVE NothingOrphaned'
    <2>1. run[r].video = 0 /\ run[r].thumb = 0
      BY <1>12, <1>s, PutVideoEffect
    <2>2. /\ UNCHANGED <<video, thumb>> /\ store' = store \cup {NewKey} /\ run'[r].video = NewKey
          /\ \A s \in Runs \ {r} : run'[s] = run[s]
      BY <1>12, PutVideoEffect
    <2> HIDE DEF NewKey
    <2>3. \A s \in Runs : RunKeys(s) \subseteq RunKeys(s)'
      BY <2>1, <2>2 DEF RunKeys
    <2> QED BY <2>2, <2>3, <1>d
  <1>13. ASSUME NEW r \in Runs, PutThumbnail(r) PROVE NothingOrphaned'
    <2>1. run[r].thumb = 0
      BY <1>13, <1>s, PutThumbnailEffect
    <2>2. /\ UNCHANGED <<video, thumb>> /\ run'[r].video = run[r].video
          /\ \A s \in Runs \ {r} : run'[s] = run[s]
      BY <1>13, PutThumbnailEffect
    <2>3. \/ run'[r].thumb = NewKey /\ store' = store \cup {NewKey}
          \/ run'[r].thumb = run[r].thumb /\ store' = store
      BY <1>13, PutThumbnailEffect
    <2> HIDE DEF NewKey
    <2>4. \A s \in Runs : RunKeys(s) \subseteq RunKeys(s)'
      BY <2>1, <2>2 DEF RunKeys
    <2> QED BY <2>2, <2>3, <2>4, <1>a, <1>d
  <1>14. ASSUME NEW r \in Runs, CommitClip(r) PROVE NothingOrphaned'
    <2>1. /\ run[r].pc = "commit" /\ store' = store /\ UNCHANGED <<raw, requests>>
          /\ \A s \in Runs \ {r} : run'[s] = run[s]
      BY <1>14, CommitEffect
    <2>2. run[r].clip = 1 /\ clip[1] \notin {"absent", "rendered"}
      BY <2>1 DEF Placed, AtWork, Orderly, OnlyClip, Clips, OneRun, Live
    <2>3. CASE ~Exists(1)
      <3>1. ~Calm
        BY <1>t, <2>2, <2>3 DEF Calm, BeingDeleted
      <3> QED BY <3>1, <1>e, CalmBefore
    <2>4. CASE Exists(1)
      <3>1. video[1] = 0 /\ thumb[1] = 0
        BY <1>t, <2>2 DEF Orderly, NotYetRendered
      <3>2. video' = [video EXCEPT ![1] = run[r].video] /\ thumb' = [thumb EXCEPT ![1] = run[r].thumb]
        BY <1>14, <2>2, <2>4, CommitEffect
      <3>3. RowKeys(1) = {} /\ RowKeys(1)' = RunKeys(r)
        BY <1>t, <3>1, <3>2 DEF RowKeys, RunKeys
      <3>4. \A c \in Clips \ {1} : RowKeys(c)' = RowKeys(c)
        BY <1>t, <3>2 DEF RowKeys
      <3>5. \A s \in Runs \ {r} : RunKeys(s)' = RunKeys(s)
        BY <2>1 DEF RunKeys
      <3>6. \A k : NamedBy(k) => NamedBy(k)'
        BY <1>t, <3>3, <3>4, <3>5 DEF NamedBy
      <3>7. store' = store
        BY <2>1
      <3> HIDE DEF NewKey
      <3> QED BY <3>6, <3>7, OrphanFrame
    <2> QED BY <2>3, <2>4
  <1>15. \A r \in Runs : ~Interrupted(r)
    BY FaultsCount
  <1> QED BY <1>1, <1>2, <1>3, <1>4, <1>5, <1>6, <1>7, <1>8, <1>9, <1>10, <1>11, <1>12, <1>13,
             <1>14, <1>15 DEF Next, WorkerStep

-----------------------------------------------------------------------------
(* EditsStay: what is left to run when a clip is rendered writes nothing.   *)
LEMMA EditStep ==
  ASSUME Typed, Placed, Orderly, [Next]_vars, faults = 0,
         annotation = "manual_edit", LatestClip # 0, clip[LatestClip] = "rendered",
         annotation' # annotation
  PROVE  requests' # requests
  <1>1. clip[1] = "rendered"
    BY Latest DEF Orderly, OnlyClip, Clips
  <1>2. \A r \in Runs : run[r].pc # "commit"
    BY <1>1 DEF Orderly, OneRun
  <1>3. \A r \in Runs : ~CommitClip(r)
    BY <1>2 DEF CommitClip
  <1>4. \E c \in Clips : CommitCaption(c)
    BY <1>3 DEF Next, WorkerStep, vars, AddClip, ScoringDies, ScoringAgain, CancelJob, DeleteJobFiles, DeleteJobRows,
                ReviewClip, UpdateClipCaption, BeginCaption, DeleteClipFiles, DeleteClipRow,
                EnqueueRendering, Interrupted, RunRetry, Dequeue, Begin, RenderFails, RenderVideo,
                PutVideo, PutThumbnail, Ack
  <1> QED BY <1>4 DEF CommitCaption

LEMMA OrderlyInit ==
  ASSUME Init
  PROVE  Orderly /\ NothingOrphaned
  <1>1. \A r \in Runs : run[r].pc = "free" /\ run[r].video = 0 /\ run[r].thumb = 0
    BY IdleFields DEF Init
  <1>2. \A c \in Clips : clip[c] = "absent" /\ video[c] = 0 /\ thumb[c] = 0 /\ approved[c] = 0
    BY DEF Init
  <1>3. owed = 0 /\ store = {}
    BY DEF Init
  <1>4. 1 \in Clips
    BY RenderingAssumption DEF Clips
  <1>5. OnlyClip /\ OneRun /\ NotYetStored
    BY <1>1, <1>2, <1>3, <1>4 DEF OnlyClip, OneRun, NotYetStored, Live
  <1>6. \A c \in Clips : NotYetRendered(c) /\ AlreadyRendered(c)
    BY <1>2 DEF NotYetRendered, AlreadyRendered
  <1> QED BY <1>3, <1>5, <1>6 DEF Orderly, NothingOrphaned

UnlessInterrupted == faults = 0 => Orderly /\ NothingOrphaned

LEMMA Undisturbed ==
  ASSUME IsFiniteSet(Runs)
  PROVE  Spec => [](Typed /\ Placed /\ UnlessInterrupted)
  <1>1. Init => Typed /\ Placed /\ UnlessInterrupted
    BY TypedInit, KeysInit, OrderlyInit DEF UnlessInterrupted
  <1>2. ASSUME Typed, Placed, UnlessInterrupted, [Next]_vars PROVE UnlessInterrupted'
    <2> SUFFICES ASSUME faults' = 0 PROVE Orderly' /\ NothingOrphaned'
      BY DEF UnlessInterrupted
    <2>1. faults = 0
      BY <1>2, FaultsCount
    <2>2. Orderly /\ NothingOrphaned
      BY <1>2, <2>1 DEF UnlessInterrupted
    <2> QED BY <1>2, <2>2, OrderlyStep, OrphanStep
  <1>3. Typed /\ Placed /\ UnlessInterrupted /\ [Next]_vars => (Typed /\ Placed /\ UnlessInterrupted)'
    BY <1>2, TypedStep, PlacedStep
  <1> QED BY <1>1, <1>3, PTL DEF Spec

(* Unless an attempt was interrupted or a deletion has begun, no object in  *)
(* storage is without a row, or a run about to write one: each attempt's    *)
(* uploads reach the row, and a row that names objects is not written over. *)
THEOREM NoOrphans ==
  ASSUME IsFiniteSet(Runs)
  PROVE  Spec => []NothingOrphaned
  <1>1. UnlessInterrupted => NothingOrphaned
    BY DEF UnlessInterrupted, NothingOrphaned
  <1> QED BY <1>1, Undisturbed, PTL

(* Unless something is interrupted the footage of an approved clip is not   *)
(* replaced: the only run there was is through before the clip is reviewed. *)
THEOREM ApprovalHolds ==
  ASSUME IsFiniteSet(Runs)
  PROVE  Spec => []ApprovedFootageStays
  <1>1. UnlessInterrupted => ApprovedFootageStays
    BY DEF UnlessInterrupted, ApprovedFootageStays, Orderly, AlreadyRendered
  <1> QED BY <1>1, Undisturbed, PTL

(* And no rendering run overwrites what a reviewer has made of a finished   *)
(* clip's annotation.                                                       *)
THEOREM EditsHold ==
  ASSUME IsFiniteSet(Runs)
  PROVE  Spec => EditsStay
  <1>1. Typed /\ Placed /\ UnlessInterrupted /\ [Next]_vars =>
          [faults = 0 /\ annotation = "manual_edit" /\ LatestClip # 0
           /\ clip[LatestClip] = "rendered" /\ annotation' # annotation
             => requests' # requests]_vars
    BY EditStep DEF UnlessInterrupted
  <1> QED BY <1>1, Undisturbed, PTL DEF Spec, EditsStay

=============================================================================
