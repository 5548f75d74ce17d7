------------------------------- MODULE Chunks -------------------------------
(***************************************************************************)
(* Cutting what is too large to send at once: a video into the chunks of a *)
(* TikTok upload (plan_chunks and the loop that sends them), and a sound   *)
(* track into pieces for the hosted transcription (core/stt/chunking.py),  *)
(* whose transcripts are then joined (core/stt/openai_api.py).  Pure       *)
(* operators, which Arithmetic applies to files and sounds.                *)
(***************************************************************************)
EXTENDS Integers, Sequences, SequencesExt, FiniteSetsExt

CONSTANTS
  MinChunk, MaxChunk,  \* MIN_ and MAX_CHUNK_SIZE_BYTES: 5 MB and 64 MB
  CutSearch            \* search_window_seconds: 30 seconds

ASSUME ChunksAssumption ==
  /\ MinChunk \in Nat \ {0} /\ MaxChunk \in Nat /\ MinChunk <= MaxChunk
  /\ CutSearch \in Nat

(* plan_chunks: the size of a chunk and the number of chunks.               *)
PlanChunks_WholeOnly(size, preferred) ==  \* mutant: the remainder has no chunk
  IF size <= preferred THEN <<size, 1>>
  ELSE LET chunk == Max({MinChunk, Min({preferred, MaxChunk})})
       IN <<chunk, size \div chunk>>
PlanChunks(size, preferred) ==
  IF size <= preferred THEN <<size, 1>>
  ELSE LET chunk == Max({MinChunk, Min({preferred, MaxChunk})})
       IN <<chunk, (size + chunk - 1) \div chunk>>

(* The ranges that are sent, from first byte to last byte inclusive.        *)
SentRanges(size, plan) ==
  [k \in 1..plan[2] |->
     LET offset == (k - 1) * plan[1] IN <<offset, offset + Min({plan[1], size - offset}) - 1>>]

-----------------------------------------------------------------------------
(* A silence is a pair of a start and an end; cuts are made in its middle.  *)
Away(a, b) == IF a <= b THEN b - a ELSE a - b
Middle(silence) == (silence[1] + silence[2]) \div 2

(* The cut for a target: the middle of the nearest silence, else the target.*)
CutNear(silences, target) ==
  LET near == {Middle(s) : s \in {q \in silences : Away(Middle(q), target) <= CutSearch}}
  IN IF near = {} THEN target
     ELSE Min({m \in near : \A n \in near : Away(m, target) <= Away(n, target)})

(* plan_chunk_boundaries.  It only comes to an end for pieces longer than   *)
(* the search window: a shorter target can find the silence behind it again *)
(* and again.                                                               *)
Boundaries(silences, duration, piece, second) ==
  LET from[target \in Nat] ==  \* the cuts from a target on
        IF target >= duration THEN <<>>
        ELSE LET cut == CutNear(silences, target) IN <<cut>> \o from[cut + piece]
      keep(kept, cut) ==
        IF kept = <<>> \/ cut > Last(kept) + second THEN Append(kept, cut) ELSE kept
  IN IF duration <= piece THEN <<>> ELSE FoldLeft(keep, <<>>, from[piece])

(* split_audio: the pieces, as windows of the sound.                        *)
Pieces(boundaries, duration) ==
  LET points == <<0>> \o boundaries \o <<duration>>
  IN [i \in 1..Len(points) - 1 |-> <<points[i], points[i + 1]>>]

(* transcribe: what is heard in each piece is timed from its own start, and *)
(* the pieces' transcripts are put one after the other.                     *)
Offset_None(segment, offset) == segment  \* mutant: timed from the piece's start
Offset(segment, offset) == <<segment[1] + offset, segment[2] + offset>>
Transcribed(pieces, heard) ==
  FlattenSeq([i \in DOMAIN pieces |->
                [k \in DOMAIN heard[i] |-> Offset(heard[i][k], pieces[i][1])]])

-----------------------------------------------------------------------------
(* The chunks are the file, in order and without a gap, none larger than    *)
(* what was announced.                                                      *)
ChunksAreTheFile(size, preferred) ==
  LET plan == PlanChunks(size, preferred)
      sent == SentRanges(size, plan)
  IN /\ Len(sent) >= 1 /\ sent[1][1] = 0 /\ sent[Len(sent)][2] = size - 1
     /\ \A k \in 2..Len(sent) : sent[k][1] = sent[k - 1][2] + 1
     /\ \A k \in DOMAIN sent : sent[k][2] >= sent[k][1]
     /\ \A k \in DOMAIN sent : sent[k][2] - sent[k][1] + 1 <= plan[1]

(* A sound track: silences and speech within it, the speech in windows one  *)
(* after the other, and pieces that outlast the search for a cut.           *)
Sounding(silences, duration, piece, second, said) ==
  /\ duration \in Nat \ {0} /\ second \in Nat /\ piece \in Nat /\ piece > CutSearch + second
  /\ silences \in SUBSET (Nat \X Nat) /\ \A s \in silences : s[1] <= s[2] /\ s[2] < duration
  /\ said \in Seq(Nat \X Nat) /\ \A k \in DOMAIN said : said[k][1] < said[k][2]
  /\ \A k, l \in DOMAIN said : k < l => said[k][2] <= said[l][1]

(* What is said in one of some windows, in its order.                       *)
Lies(w, windows) == \E p \in windows : p[1] <= w[1] /\ w[2] <= p[2]
Within(said, windows) ==
  FoldLeft(LAMBDA heard, w : IF Lies(w, windows) THEN Append(heard, w) ELSE heard, <<>>, said)

(* The pieces are the sound, in order, none longer than it may be, and what *)
(* is said in one of them keeps its time: said are the true windows, one    *)
(* after the other, and a piece yields those that lie in it.                *)
PiecesAreTheSound(silences, duration, piece, second, said) ==
  LET pieces == Pieces(Boundaries(silences, duration, piece, second), duration)
      inside(i) == Within(said, {pieces[i]})
      heard == [i \in DOMAIN pieces |->
                  [k \in DOMAIN inside(i) |-> <<inside(i)[k][1] - pieces[i][1],
                                              inside(i)[k][2] - pieces[i][1]>>]]
  IN /\ pieces[1][1] = 0 /\ pieces[Len(pieces)][2] = duration
     /\ \A i \in 2..Len(pieces) : pieces[i][1] = pieces[i - 1][2]
     /\ \A i \in DOMAIN pieces :
          pieces[i][1] < pieces[i][2] /\ pieces[i][2] - pieces[i][1] <= piece + CutSearch
     /\ Transcribed(pieces, heard) = Within(said, Range(pieces))
=============================================================================
