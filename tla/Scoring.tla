------------------------------ MODULE Scoring -------------------------------
(***************************************************************************)
(* What a candidate clip is worth and which of them are rendered: the      *)
(* features, the score and the selection of core/scoring_logic.py, with    *)
(* the weights as workers/scoring.py sets them.  Pure operators, which     *)
(* Arithmetic applies to transcripts and candidates.                       *)
(*                                                                         *)
(* A transcript is a sequence of segments, by start, with a start, an end  *)
(* and what the scorer counts in the text: words, asks (question marks)    *)
(* and hits (of the lexicon); one of which some segments are left out      *)
(* keeps the others' numbers.  A window is a pair <<start, end>>, times    *)
(* are integers, and a feature is a fraction of its cap, in parts per      *)
(* Whole.  The weights are settings; in the code they are fractions.       *)
(***************************************************************************)
EXTENDS Builtins, FiniteSetsExt

CONSTANTS
  Whole,       \* a feature at its cap: 1.0
  Caps,        \* _NORMALIZATION_CAPS of the counted features
  PauseBeat,   \* _PAUSE_BEAT_SECONDS
  HookWindow   \* HOOK_WINDOW_SECONDS

Counted == {"speech_density", "pause_count", "question_marks", "emotional_language", "scene_changes"}
Heard == {"laughter", "crowd_reaction"}
Features == Counted \cup Heard \cup {"motion_proxy", "hook_strength"}
Listed == <<"speech_density", "pause_count", "question_marks", "emotional_language",
            "scene_changes", "motion_proxy", "laughter", "crowd_reaction", "hook_strength">>
AnyWeights == [Features -> Nat]  \* settings.score_weight_*

ASSUME ScoringAssumption ==
  /\ Whole \in Nat /\ Whole % 10 = 0 /\ Whole > 0
  /\ Caps \in [Counted -> Nat \ {0}]
  /\ PauseBeat \in Nat /\ HookWindow \in Nat \ {0}

Duration(w) == w[2] - w[1]
WindowTimes == Int \X Int

(* What is scored: segments by start, and parts of a clip in their order.   *)
Scored(segments) ==
  /\ segments \in Seq([start : Int, end : Int, words : Nat, asks : Nat, hits : Nat])
  /\ \A i, j \in DOMAIN segments : i < j => segments[i].start <= segments[j].start
InOrder(parts) ==
  /\ parts \in Seq(WindowTimes) /\ parts # <<>>
  /\ \A k \in DOMAIN parts : parts[k][1] < parts[k][2]
  /\ \A k, l \in DOMAIN parts : k < l => parts[k][2] <= parts[l][1]

(* The segments in a window, and what is counted in their text.             *)
InWindow(segments, w) ==
  {i \in DOMAIN segments : segments[i].end > w[1] /\ segments[i].start < w[2]}
Words(segments, w) == SumFunction([i \in InWindow(segments, w) |-> segments[i].words])
Asks(segments, w) == SumFunction([i \in InWindow(segments, w) |-> segments[i].asks])
Hits(segments, w) == SumFunction([i \in InWindow(segments, w) |-> segments[i].hits])

(* A pause before segment i: the one before it in the window ended early.   *)
PauseCount(segments, w) ==
  LET inside == InWindow(segments, w)
  IN Cardinality({i \in inside : \E j \in inside :
                    /\ j < i /\ \A k \in inside : k <= j \/ i <= k
                    /\ segments[i].start - segments[j].end >= PauseBeat})
SceneChangeCount(cuts, w) == Cardinality({c \in cuts : w[1] < c /\ c < w[2]})

(* hook_strength: seven tenths for speaking at once, three for an attention *)
(* grabber, in parts per Whole.                                             *)
HookStrength(segments, w) ==
  LET opening == InWindow(segments, <<w[1], Least(w[1] + HookWindow, w[2])>>)
      deadAir == Greatest(0, Min({segments[i].start : i \in opening}) - w[1])
      immediacy == Greatest(0, Whole - (Whole * deadAir) \div HookWindow)
      grabs == \E i \in opening : segments[i].asks > 0 \/ segments[i].hits > 0
  IN IF w[2] <= w[1] \/ opening = {} THEN 0
     ELSE Least(Whole, (7 * immediacy) \div 10 + IF grabs THEN (3 * Whole) \div 10 ELSE 0)

-----------------------------------------------------------------------------
(* The features of a stitched clip are summed over its parts, its density   *)
(* is of the time it plays, and its hook is the first part's.  An ordinary  *)
(* window is its one part.  `events` are the detector's two values, none of *)
(* which it has when it fails; motion_proxy is not implemented.             *)
Capped(raw, cap, per) == Least(Whole, (Whole * raw) \div (cap * Greatest(1, per)))

Normalized_OverTheSpan(segments, parts, cuts, events) ==  \* mutant: score_window on the span
  LET span == <<parts[1][1], parts[Len(parts)][2]>>
  IN [f \in Features |->
       CASE f = "speech_density" -> Capped(Words(segments, span), Caps[f], Duration(span))
         [] f = "pause_count" -> Capped(PauseCount(segments, span), Caps[f], 1)
         [] f = "question_marks" -> Capped(Asks(segments, span), Caps[f], 1)
         [] f = "emotional_language" -> Capped(Hits(segments, span), Caps[f], 1)
         [] f = "scene_changes" -> Capped(SceneChangeCount(cuts, span), Caps[f], 1)
         [] f \in Heard -> events[f]
         [] f = "motion_proxy" -> 0
         [] OTHER -> HookStrength(segments, parts[1])]

Raw(segments, parts, cuts, f) ==
  [k \in DOMAIN parts |->
     CASE f = "speech_density" -> Words(segments, parts[k])
       [] f = "pause_count" -> PauseCount(segments, parts[k])
       [] f = "question_marks" -> Asks(segments, parts[k])
       [] f = "emotional_language" -> Hits(segments, parts[k])
       [] OTHER -> SceneChangeCount(cuts, parts[k])]

Normalized(segments, parts, cuts, events) ==
  LET per(f) == IF f = "speech_density" THEN Sum([k \in DOMAIN parts |-> Duration(parts[k])]) ELSE 1
  IN [f \in Features |->
       CASE f \in Counted -> Capped(Sum(Raw(segments, parts, cuts, f)), Caps[f], per(f))
         [] f \in Heard -> events[f]
         [] f = "motion_proxy" -> 0
         [] OTHER -> HookStrength(segments, parts[1])]

(* _weights_from_settings: with ENABLE_AUDIO_EVENT_SCORING off nothing is   *)
(* heard, and what is heard has no weight.                                  *)
WeightsInForce(weights, enabled) ==
  [f \in Features |-> IF f \in Heard /\ ~enabled THEN 0 ELSE weights[f]]

(* score_out_of_10, in hundredths of a point: the weighted features against *)
(* all of the weight, that of motion_proxy included.                        *)
TotalWeight(weights) == Sum([k \in DOMAIN Listed |-> weights[Listed[k]]])
Composite(features, weights) ==
  Sum([k \in DOMAIN Listed |-> features[Listed[k]] * weights[Listed[k]]])
ScoreOutOf10(features, weights) ==
  LET total == TotalWeight(weights)
  IN IF total = 0 THEN 0
     ELSE Least(1000, (2000 * Composite(features, weights) + total * Whole) \div (2 * total * Whole))

-----------------------------------------------------------------------------
(* What is selected from, and how much two candidates overlap.              *)
CandidateRecords == [start : Int, end : Int, score : Int]

Intersection(a, b) == Greatest(0, Least(a.end, b.end) - Greatest(a.start, b.start))
Union(a, b) == (a.end - a.start) + (b.end - b.start) - Intersection(a, b)
TooAlike_Contained(a, b) == a.start >= b.start /\ a.end <= b.end  \* mutant
TooAlike(a, b) == 2 * Intersection(a, b) > Union(a, b)  \* _iou over 0.5

(* select_top_non_overlapping: the indices chosen, best first, of equally   *)
(* good candidates the earlier in the list.                                 *)
Ranked(candidates) == Order([i \in DOMAIN candidates |-> -candidates[i].score])
SelectTopNonOverlapping(candidates, maxCount, minScore) ==
  LET choose(chosen, i) ==
        IF \/ candidates[i].score < minScore
           \/ Len(chosen) >= maxCount
           \/ \E k \in DOMAIN chosen : TooAlike(candidates[i], candidates[chosen[k]])
        THEN chosen ELSE Append(chosen, i)
  IN Range(FoldLeft(choose, <<>>, Ranked(candidates)))

-----------------------------------------------------------------------------
(* Stitching earns nothing: what lies between the parts does not count, and *)
(* no pause or cut of the parts, nor its hook, is more than the span has.   *)
StitchingEarnsNothing(segments, parts, cuts) ==
  LET span == <<<<parts[1][1], parts[Len(parts)][2]>>>>
      silent == [f \in Heard |-> 0]
      stitched == Normalized(segments, parts, cuts, silent)
      whole == Normalized(segments, span, cuts, silent)
      shown == UNION {InWindow(segments, parts[k]) : k \in DOMAIN parts}
  IN /\ stitched["pause_count"] <= whole["pause_count"]
     /\ stitched["scene_changes"] <= whole["scene_changes"]
     /\ stitched["hook_strength"] <= whole["hook_strength"]
     /\ stitched = Normalized(Restrict(segments, shown), parts, cuts, silent)

(* What a clip can have of a feature: nothing moves, and nothing is heard   *)
(* with the flag off, nor with it on when the detector fails (`heard` is    *)
(* that it does not).                                                       *)
CanBeHad(f, enabled, heard) == f # "motion_proxy" /\ (f \in Heard => enabled /\ heard)
BestFeatures(enabled, heard) ==
  [f \in Features |-> IF CanBeHad(f, enabled, heard) THEN Whole ELSE 0]
WeightThatCounts(weights, enabled, heard) ==
  TotalWeight([f \in Features |->
           IF CanBeHad(f, enabled, heard) THEN WeightsInForce(weights, enabled)[f] ELSE 0])

(* What a score ranges over.  A clip without any feature gets 0; one that   *)
(* has all that can be had gets the share of its weight in all the weight   *)
(* in force, to the nearest hundredth.  That is 10 unless weight is given   *)
(* to what cannot be had: to motion_proxy, or, with the flag on and the     *)
(* detector failing, to what would be heard.                                *)
FullRange(weights, enabled, heard) ==
  LET inForce == WeightsInForce(weights, enabled)
      total == TotalWeight(inForce)
      share == 1000 * WeightThatCounts(weights, enabled, heard)
      best == ScoreOutOf10(BestFeatures(enabled, heard), inForce)
  IN /\ ScoreOutOf10([f \in Features |-> 0], inForce) = 0
     /\ total > 0 => 2 * share <= 2 * total * best + total /\ 2 * total * best <= 2 * share + total
     /\ /\ \E f \in Features : CanBeHad(f, enabled, heard) /\ weights[f] > 0
        /\ weights["motion_proxy"] = 0
        /\ enabled /\ ~heard => \A f \in Heard : weights[f] = 0
        => best = 1000

(* The chosen are few, good enough and different; and what was not chosen   *)
(* gave way to something at least as good: to one too like it, or to a full *)
(* list.                                                                    *)
SelectionIsBest(candidates, maxCount, minScore) ==
  LET chosen == SelectTopNonOverlapping(candidates, maxCount, minScore)
      score(i) == candidates[i].score
  IN /\ Cardinality(chosen) <= maxCount
     /\ \A i \in chosen : score(i) >= minScore
     /\ \A i, j \in chosen : i # j => ~TooAlike(candidates[i], candidates[j])
     /\ \A i \in DOMAIN candidates \ chosen : score(i) >= minScore =>
          \/ \E j \in chosen : score(j) >= score(i) /\ TooAlike(candidates[i], candidates[j])
          \/ Cardinality(chosen) = maxCount /\ \A j \in chosen : score(j) >= score(i)
=============================================================================
