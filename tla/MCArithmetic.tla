---------------------------- MODULE MCArithmetic ----------------------------
(* The inputs Arithmetic is checked over.                                   *)
EXTENDS Arithmetic

VerticalRatio == <<9, 16>>
CapsOf4 == [f \in Counted |-> 4]
(* Weights in halves: the defaults; with motion_proxy; what is heard only.  *)
DefaultWeights ==
  [f \in Features |->
     CASE f = "motion_proxy" -> 0 [] f = "emotional_language" -> 3
       [] f \in {"pause_count", "scene_changes"} -> 1 [] OTHER -> 2]
SomeWeightings ==
  {DefaultWeights, [DefaultWeights EXCEPT !["motion_proxy"] = 2],
   [f \in Features |-> IF f \in Heard THEN 1 ELSE 0], [f \in Features |-> 0]}
  \cup [Features -> {0, 3}]

Bounds == [split_facecam_fraction |-> <<20, 80>>, caption_max_chars |-> <<20, 200>>]
Defaults == [split_facecam_fraction |-> 35, caption_max_chars |-> 80]

-----------------------------------------------------------------------------
Frames == {<<48, 27>>, <<31, 33>>, <<16, 40>>, <<54, 54>>}
Modes == {"auto", "single_crop", "split_reaction", "fit_frame"}
Spans == {<<0, 1>>, <<1, 2>>, <<0, 5>>, <<3, 2>>, <<4, 1>>}
Rects == {[x |-> a[1], w |-> a[2], y |-> b[1], h |-> b[2]] : a \in Spans, b \in Spans}
NoArea == [x |-> 1, w |-> 0, y |-> 1, h |-> 2]

(* Marks drawn on both regions, on one, on none; faces.                     *)
Marked ==
  [width : {0}, height : {0}, mode : Modes, enabled : BOOLEAN, bias : {"none"},
   face : {<<>>}, fraction : {20, 45}, facecam : Rects, gameplay : {NoArea}]
  \cup
  [width : {0}, height : {0}, mode : Modes, enabled : BOOLEAN, bias : {"none", "right"},
   face : {<<>>}, fraction : {50, 80}, facecam : {<<>>}, gameplay : Rects]
Faced ==
  [width : {0}, height : {0}, mode : Modes, enabled : BOOLEAN,
   bias : {"none", "left", "center", "right"},
   face : {<<>>} \cup [center : {0, 3, 12, 27} \X {0, 2, 20, 27}, side : {3, 20}],
   fraction : {20, 33, 80}, facecam : {<<>>}, gameplay : {<<>>}]
SomeFramings ==
  {[in EXCEPT !.width = f[1], !.height = f[2]] : f \in Frames, in \in Marked \cup Faced}

(* Upload forms, and requests to mark regions.                              *)
DrawnMarks ==
  {[x |-> 1, w |-> 2, y |-> 0, h |-> 5], [x |-> 3, w |-> 2, y |-> 3, h |-> 1],
   [x |-> 4, w |-> 2, y |-> 1, h |-> 1], NoArea}
SomeForms ==
  [clips : {Unset, 0, 1, 20, 21}, min : {Unset, 4, 5, 35, 90}, max : {Unset, 10, 15, 90, 181},
   mode : {"auto"}, bias : {Unset}, marks : [Regions -> {Unset}], style : {Unset}]
  \cup
  [clips : {Unset}, min : {Unset}, max : {Unset}, mode : Modes \cup {Unset}, bias : {Unset, "left"},
   marks : [Regions -> DrawnMarks \cup {Unset}],
   style : {Unset, [split_facecam_fraction |-> 20], [caption_max_chars |-> 19],
            [split_facecam_fraction |-> 80, caption_max_chars |-> 40], [captions |-> 40]}]
SomeRequests == UNION {[asked -> DrawnMarks \cup {Unset}] : asked \in SUBSET Regions}
SomeSizes == {<<48, 27>>, <<16, 40>>}

(* Transcripts as gaps and lengths.                                         *)
Laid(gaps) ==
  [i \in DOMAIN gaps |->
     LET before == FoldLeft(LAMBDA n, g : n + g[1] + g[2], 0, SubSeq(gaps, 1, i - 1))
     IN [start |-> before + gaps[i][1], end |-> before + gaps[i][1] + gaps[i][2]]]
Transcripts(gaps, lengths, most) ==
  {Laid(g) : g \in UNION {[1..n -> gaps \X lengths] : n \in 1..most}}

Small == UNION {[1..n -> {<<a, b>> \in (0..6) \X (1..7) : a < b /\ b - a # 3}] : n \in {0, 2}}
Text(w) == [chars : w, ends : {"none", "clause", "sentence"}]

SomeCues ==
  {[window |-> <<1, 6>>, parts |-> parts,
    segments |-> [i \in DOMAIN t |-> [start |-> t[i].start, end |-> t[i].end, words |-> <<1>>]]] :
     t \in Transcripts({0, 2}, {1, 3}, 2), parts \in Small}
SomeTexts ==
  [words : UNION {[1..n -> Text({1, 3, 5})] : n \in 1..4}, most : {4, 6}, from : {2}, to : {9}]

SomeSpeeches ==
  {[segments |-> t, cuts |-> cuts, min |-> lim[1], max |-> lim[2]] :
     t \in Transcripts({1, 2, 3}, {2, 9, 16}, 2), lim \in {<<2, 6>>, <<5, 6>>, <<2, 9>>},
     cuts \in {S \in SUBSET {3, 5, 8, 9, 12, 14, 15} : Cardinality(S) <= 2}}

Plain == [from : {-1, 0, 1}, to : {0, 2, 3}, parts : {<<>>}]
Pairs == {<<0, 0>>, <<1, 1>>, <<0, 1>>, <<2, 2>>, <<2, 3>>}
Stitched == [from : {0}, to : {2}, parts : Pairs \X Pairs \cup {<<<<0, 0>>, <<1, 1>>, <<2, 2>>>>}]
Items == {<<a, b>> : a \in Plain \cup Stitched, b \in Plain \cup Stitched}
         \cup {<<a, b, [from |-> 1, to |-> 1, parts |-> <<>>]>> : a \in Stitched, b \in Plain}
SomeReplies ==
  {[segments |-> t, reply |-> items, min |-> lim[1], max |-> lim[2]] :
     t \in {g \in Transcripts({1}, {2, 3}, 3) \cup Transcripts({0, 2}, {2}, 3) : Len(g) = 3},
     items \in Items, lim \in {<<3, 6>>, <<4, 9>>}}

Counts == {[i \in DOMAIN t |-> [start |-> t[i].start, end |-> t[i].end,
                                words |-> i, asks |-> i % 2, hits |-> (i + 1) \div 3]] :
             t \in Transcripts({0, 1, 3}, {2}, 3)}
SomeStitches ==
  [segments : Counts, parts : {p \in Small : Len(p) = 2 /\ p[1][2] <= p[2][1]},
   cuts : SUBSET {1, 4, 5}]

SomeCandidacies ==
  [candidates : UNION {[1..n -> {[start |-> a, end |-> a + l, score |-> s] :
                                   a \in {0, 1, 3}, l \in {2, 4}, s \in 1..2}] : n \in 1..3},
   most : 0..2, least : 1..2]

SomeFiles == [size : 1..40, preferred : 1..14]

SomeSounds ==
  {[silences |-> silences, duration |-> duration, piece |-> 10, second |-> 1,
    said |-> [i \in DOMAIN t |-> <<t[i].start, t[i].end>>]] :
     silences \in SUBSET {<<1, 3>>, <<6, 12>>, <<10, 14>>, <<17, 17>>, <<20, 22>>},
     duration \in {7, 12, 23, 31}, t \in Transcripts({1, 4}, {2, 5}, 2)}
(* Silences and speech within the sound.                                    *)
SoundsWithin ==
  {s \in SomeSounds : /\ \A q \in s.silences : q[2] < s.duration
                      /\ Last(s.said)[2] <= s.duration}
=============================================================================
