----------------------------- MODULE Proposing ------------------------------
(***************************************************************************)
(* Where the candidate clips come from: the windows cut from the speech    *)
(* (core/segmentation_logic.py) and the suggestions kept of a language     *)
(* model's reply (core/llm_segmentation_logic.py).  Pure operators, which   *)
(* Arithmetic applies to transcripts, cuts and replies.                    *)
(*                                                                         *)
(* A transcript is a sequence of segments with a start and an end, by      *)
(* start; a window is a pair <<start, end>>.  Times are integers, so many  *)
(* to the Second; the longest clip is taken to be a multiple of three.     *)
(***************************************************************************)
EXTENDS Builtins, FiniteSetsExt

CONSTANTS
  Second,          \* the code's one-second tolerances
  MaxGap,          \* settings.segment_silence_gap_seconds
  SearchWindow,    \* scene_search_window: 5 seconds
  MaxSubwindows,   \* _MAX_SUBWINDOWS_PER_BLOCK: 60
  MaxParts,        \* MAX_PARTS: 3
  MaxSuggestions,  \* settings.llm_segment_max_suggestions
  KeyGrain         \* what round(x, 1) rounds to

ASSUME ProposingAssumption ==
  /\ Second \in Nat \ {0} /\ KeyGrain \in Nat \ {0}
  /\ MaxGap \in Nat /\ SearchWindow \in Nat
  /\ MaxSubwindows \in Nat \ {0} /\ MaxParts \in Nat \ {0, 1} /\ MaxSuggestions \in Nat

(* What windows are cut from.                                               *)
Spoken(segments) == segments \in Seq([start : Int, end : Int])

Distance(a, b) == IF a <= b THEN b - a ELSE a - b
Length(w) == w[2] - w[1]

-----------------------------------------------------------------------------
(* merge_into_speech_blocks: a segment that starts more than MaxGap after   *)
(* all earlier ones have ended starts a block.                              *)
LastEnd(segments, i) == Max({segments[j].end : j \in 1..i})
StartsBlock(segments, i) ==
  i = 1 \/ segments[i].start - LastEnd(segments, i - 1) > MaxGap
SpeechBlocks(segments) ==
  {<<segments[b[1]].start, LastEnd(segments, b[2])>> :
     b \in {p \in (1..Len(segments)) \X (1..Len(segments)) :
       /\ p[1] <= p[2]
       /\ StartsBlock(segments, p[1])
       /\ \A k \in p[1] + 1..p[2] : ~StartsBlock(segments, k)
       /\ p[2] = Len(segments) \/ StartsBlock(segments, p[2] + 1)}}

(* _snap: a nearest cut (the first of two equally near), else the target.   *)
Snap(cursor, target, limit, cuts) ==
  LET near == {c \in cuts : /\ cursor + Second < c /\ c < limit
                            /\ Distance(c, target) <= SearchWindow}
  IN IF near = {} THEN target
     ELSE Min({c \in near : \A d \in near : Distance(c, target) <= Distance(d, target)})

(* _sliding_subwindows: overlapping windows over a block that is too long,  *)
(* and its tail unless the last of them ends within a second of it.         *)
Step(minLen, maxLen) == Max({maxLen \div 3, minLen})
SlidingSubwindows(block, cuts, minLen, maxLen) ==
  LET cursor(k) == block[1] + k * Step(minLen, maxLen)
      slides == {k \in 0..MaxSubwindows - 1 : cursor(k) + maxLen < block[2]}
      window(k) == <<cursor(k), Snap(cursor(k), cursor(k) + maxLen, block[2], cuts)>>
      tail == <<Max({block[1], block[2] - maxLen}), block[2]>>
  IN {window(k) : k \in slides} \cup
     {w \in {tail} : slides # {} => Distance(window(Max(slides))[2], block[2]) > Second}

BuildCandidateWindows(segments, cuts, minLen, maxLen) ==
  LET blocks == SpeechBlocks(segments)
  IN {b \in blocks : minLen <= Length(b) /\ Length(b) <= maxLen} \cup
     UNION {SlidingSubwindows(b, cuts, minLen, maxLen) : b \in {c \in blocks : Length(c) > maxLen}}

-----------------------------------------------------------------------------
(* A model's reply is a sequence of items, the empty one when it is not a   *)
(* JSON array.  An item is a record of from and to, two indices from 0, and *)
(* parts, a sequence of such pairs (<<>> when there is none); one that is   *)
(* not an object or has no integer for an index has one out of range.       *)
Told(segments) ==
  /\ segments \in Seq([start : Nat, end : Nat])
  /\ \A i \in DOMAIN segments : segments[i].start < segments[i].end
  /\ \A i, j \in DOMAIN segments : i < j => segments[i].start <= segments[j].start
ReplyItems == [from : Int, to : Int, parts : Seq(Int \X Int)]

InRange(segments, from, to) == 0 <= from /\ to < Len(segments) /\ from <= to
Window(segments, from, to) == <<segments[from + 1].start, segments[to + 1].end>>

PlayingTime(parts) == Sum([i \in DOMAIN parts |-> Length(parts[i])])
WithinLimits(parts, minLen, maxLen) ==
  minLen <= PlayingTime(parts) /\ PlayingTime(parts) <= maxLen

(* _parse_parts: the parts as windows, <<>> when they cannot be stitched.   *)
ParseParts_AnyOrder(parts, segments, minLen, maxLen) ==  \* mutant: order and overlap unchecked
  LET windows == [i \in DOMAIN parts |-> Window(segments, parts[i][1], parts[i][2])]
  IN IF /\ Len(parts) \in 2..MaxParts
        /\ \A i \in DOMAIN parts : InRange(segments, parts[i][1], parts[i][2])
        /\ WithinLimits(windows, minLen, maxLen)
     THEN windows ELSE <<>>
ParseParts(parts, segments, minLen, maxLen) ==
  LET windows == [i \in DOMAIN parts |-> Window(segments, parts[i][1], parts[i][2])]
  IN IF /\ Len(parts) \in 2..MaxParts
        /\ \A i \in DOMAIN parts : InRange(segments, parts[i][1], parts[i][2])
        /\ \A i \in 2..Len(parts) : windows[i][1] >= windows[i - 1][2]
        /\ WithinLimits(windows, minLen, maxLen)
     THEN windows ELSE <<>>

(* What is kept of an item: a stitched clip if its parts will do, else its  *)
(* one range if that will; a sequence of windows, <<>> for a dropped item.  *)
Suggestion(item, segments, minLen, maxLen) ==
  LET parts == ParseParts(item.parts, segments, minLen, maxLen)
      range == <<Window(segments, item.from, item.to)>>
  IN CASE parts # <<>> -> parts
       [] parts = <<>> /\ InRange(segments, item.from, item.to) ->
            IF WithinLimits(range, minLen, maxLen) THEN range ELSE <<>>
       [] OTHER -> <<>>

Rounded(t) == KeyGrain * ((2 * t + KeyGrain) \div (2 * KeyGrain))
Outer(windows) == <<windows[1][1], windows[Len(windows)][2]>>
Key(windows) == <<Rounded(Outer(windows)[1]), Rounded(Outer(windows)[2])>>

(* parse_segment_suggestions.                                               *)
ParseSegmentSuggestions(reply, segments, minLen, maxLen) ==
  LET keep(kept, item) ==
        LET s == Suggestion(item, segments, minLen, maxLen)
        IN IF \/ Len(kept) = MaxSuggestions
              \/ s = <<>>
              \/ \E i \in DOMAIN kept : Key(kept[i]) = Key(s)
           THEN kept ELSE Append(kept, s)
  IN FoldLeft(keep, <<>>, reply)

-----------------------------------------------------------------------------
(* The windows are drawn from speech and within the limits, unless one was  *)
(* snapped: that ends at a scene cut, as much as SearchWindow beyond or     *)
(* short of the longest (which _sliding_subwindows allows, though           *)
(* llm_segmentation_logic.py:290-292 has every candidate within the limits).*)
(* And where windows are sure to reach the next one, all of a long block    *)
(* but its last second is in one of them.                                   *)
WindowsFit(segments, cuts, minLen, maxLen) ==
  LET windows == BuildCandidateWindows(segments, cuts, minLen, maxLen)
      blocks == SpeechBlocks(segments)
  IN /\ \A w \in windows :
          /\ \E b \in blocks : b[1] <= w[1] /\ w[2] <= b[2]
          /\ \/ minLen <= Length(w) /\ Length(w) <= maxLen
             \/ w[2] \in cuts /\ Distance(Length(w), maxLen) <= SearchWindow
     /\ \A b \in blocks :
          (/\ Length(b) >= minLen
           /\ maxLen - SearchWindow >= Step(minLen, maxLen)
           /\ Length(b) <= maxLen + (MaxSubwindows - 1) * Step(minLen, maxLen))
          => \A t \in b[1]..b[2] - Second - 1 : \E w \in windows : w[1] <= t /\ t < w[2]

(* What the workers show of a suggestion is what was kept of it, its parts  *)
(* if it is stitched and its one range if not, between the limits; and no   *)
(* two suggestions have the same ends.  (What is kept of one whose parts do *)
(* not stitch is the range from its first to its last index: their span.)   *)
SuggestionsFit(reply, segments, minLen, maxLen, Shown(_, _)) ==
  LET kept == ParseSegmentSuggestions(reply, segments, minLen, maxLen)
      stitched(s) == IF Len(s) = 1 THEN <<>> ELSE s
  IN /\ Len(kept) <= MaxSuggestions
     /\ \A i \in DOMAIN kept :
          /\ Shown(Outer(kept[i]), stitched(kept[i])) = kept[i]
          /\ WithinLimits(kept[i], minLen, maxLen)
     /\ \A i, j \in DOMAIN kept : Outer(kept[i]) = Outer(kept[j]) => i = j
=============================================================================
