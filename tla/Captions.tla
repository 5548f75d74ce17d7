------------------------------ MODULE Captions ------------------------------
(***************************************************************************)
(* What plays in a clip and when its captions are up: the parts a clip is  *)
(* stitched from, its subtitles' times, and the splitting of a transcript  *)
(* segment into pieces short enough to read (core/rendering_logic.py).     *)
(* Pure operators, which Arithmetic applies to transcripts.                *)
(*                                                                         *)
(* A transcript is a sequence of segments [start, end, words], sorted by   *)
(* start as the code sorts it.  Of a word the splitting sees its length and*)
(* whether a sentence or a clause ends with it.  Times are integers.       *)
(***************************************************************************)
EXTENDS Builtins

Word == [chars : Nat \ {0}, ends : {"none", "clause", "sentence"}]

Overlap(parts) ==
  \E i \in 2..Len(parts) : parts[i][1] < parts[i - 1][2]

(* normalize_parts: <<>> when the clip is an ordinary window.               *)
NormalizeParts(raw) ==
  LET order == Order([i \in DOMAIN raw |-> raw[i][1]])
      sorted == [i \in DOMAIN raw |-> raw[order[i]]]
  IN IF \/ Len(raw) < 2
        \/ \E i \in DOMAIN raw : raw[i][2] <= raw[i][1] \/ raw[i][1] < 0
        \/ Overlap(sorted)
     THEN <<>> ELSE sorted

(* Where part k starts on the stitched timeline, and where the last ends.   *)
Elapsed_Span(parts, k) == parts[k][1] - parts[1][1]  \* mutant: the gaps are not cut out
Elapsed(parts, k) == Sum([i \in 1..k - 1 |-> parts[i][2] - parts[i][1]])
PartsDuration(parts) == Sum([i \in DOMAIN parts |-> parts[i][2] - parts[i][1]])

(* What trim and concat make of the source: part k from Elapsed on.         *)
Playing(parts, t) ==
  LET k == CHOOSE n \in DOMAIN parts :
             Elapsed(parts, n) <= t /\ t < Elapsed(parts, n) + parts[n][2] - parts[n][1]
  IN parts[k][1] + t - Elapsed(parts, k)

(* The entries of build_multipart_srt, and of build_srt, whose window is    *)
(* its one part.                                                            *)
Cues(segments, parts) ==
  {c \in {[part |-> k, seg |-> i,
           from |-> Elapsed(parts, k) + Greatest(segments[i].start, parts[k][1]) - parts[k][1],
           to |-> Elapsed(parts, k) + Least(segments[i].end, parts[k][2]) - parts[k][1]] :
            k \in DOMAIN parts, i \in DOMAIN segments} :
     c.to > c.from /\ segments[c.seg].words # <<>>}

(* What the renderer shows: normalized parts, else the plain window.        *)
Played(window, raw) == IF NormalizeParts(raw) = <<>> THEN <<window>> ELSE NormalizeParts(raw)
ClipDuration(window, raw) == PartsDuration(Played(window, raw))

-----------------------------------------------------------------------------
(* Words i..j as text, with the spaces between them.                        *)
Chars(words, i, j) == Sum([k \in 1..j - i + 1 |-> words[i + k - 1].chars]) + (j - i)

(* The last word of the piece that starts with word i: everything that is   *)
(* left if it fits, else up to the last sentence, else clause, else word    *)
(* that fits, else a word that is too long by itself.                       *)
CutAfter(words, i, maxChars) ==
  LET fitting == {j \in i..Len(words) - 1 : Chars(words, i, j) <= maxChars}
      ending(marks) == {j \in fitting : words[j].ends \in marks}
      last(S) == CHOOSE j \in S : \A k \in S : k <= j
  IN CASE Chars(words, i, Len(words)) <= maxChars -> Len(words)
       [] Chars(words, i, Len(words)) > maxChars ->
            IF ending({"sentence"}) # {} THEN last(ending({"sentence"}))
            ELSE IF ending({"clause"}) # {} THEN last(ending({"clause"}))
            ELSE IF fitting # {} THEN last(fitting)
            ELSE i

(* split_caption_text: the pieces as pairs of a first and a last word.      *)
SplitCaption(words, maxChars) ==
  LET from[i \in 1..Len(words) + 1] ==
        IF i > Len(words) THEN <<>>
        ELSE LET j == CutAfter(words, i, maxChars) IN <<<<i, j>>>> \o from[j + 1]
  IN from[1]

(* _timed_caption_chunks: a cue's time shared out in proportion to length.  *)
(* Times are multiplied by Total, the pieces' characters.                   *)
UpTo(words, pieces, n) == Sum([m \in 1..n |-> Chars(words, pieces[m][1], pieces[m][2])])
Total(words, pieces) == UpTo(words, pieces, Len(pieces))

TimedChunks(words, pieces, from, to) ==
  LET total == Total(words, pieces)
      upTo(n) == UpTo(words, pieces, n)
  IN [n \in DOMAIN pieces |->
       [from |-> from * total + (to - from) * upTo(n - 1),
        to |-> IF n = Len(pieces) THEN to * total ELSE from * total + (to - from) * upTo(n)]]

-----------------------------------------------------------------------------
(* While a caption is up, what plays is what was said.                      *)
Synchronous(segments, parts) ==
  \A c \in Cues(segments, parts) :
    /\ 0 <= c.from /\ c.to <= PartsDuration(parts)
    /\ \A t \in c.from..c.to - 1 :
         segments[c.seg].start <= Playing(parts, t) /\ Playing(parts, t) < segments[c.seg].end

(* No word is lost or said twice, nothing is wider than it may be but a     *)
(* single word, and the pieces' times are the segment's, without a gap or   *)
(* an empty one.                                                            *)
Readable(words, maxChars, from, to) ==
  LET pieces == SplitCaption(words, maxChars)
      times == TimedChunks(words, pieces, from, to)
      total == Total(words, pieces)
  IN /\ pieces[1][1] = 1 /\ pieces[Len(pieces)][2] = Len(words)
     /\ \A n \in 2..Len(pieces) : pieces[n][1] = pieces[n - 1][2] + 1
     /\ \A n \in DOMAIN pieces :
          \/ Chars(words, pieces[n][1], pieces[n][2]) <= maxChars
          \/ pieces[n][1] = pieces[n][2]
     /\ \A n \in DOMAIN pieces : times[n].from < times[n].to
     /\ \A n \in 2..Len(pieces) : times[n].from = times[n - 1].to
     /\ times[1].from = from * total /\ times[Len(pieces)].to = to * total
=============================================================================
