--------------------------- MODULE ArithmeticProofs ---------------------------
(***************************************************************************)
(* The invariants of Arithmetic, for every input that is one: each is what *)
(* a theorem of FramingProofs or ClipsProofs says of the input that was    *)
(* picked.                                                                 *)
(***************************************************************************)
EXTENDS Arithmetic, ClipsProofs

(* What is picked is one of the inputs.                                     *)
Picked ==
  \/ input = [kind |-> "none"]
  \/ \E in \in Framings : input = [kind |-> "framing", of |-> in]
  \/ \E form \in Forms, request \in Requests, size \in Sizes :
       input = [kind |-> "form", of |-> [form |-> form, request |-> request, size |-> size]]
  \/ \E cues \in Cued : input = [kind |-> "cues", of |-> cues]
  \/ \E text \in Texts : input = [kind |-> "text", of |-> text]
  \/ \E speech \in Speeches : input = [kind |-> "speech", of |-> speech]
  \/ \E reply \in Replies : input = [kind |-> "reply", of |-> reply]
  \/ \E weights \in Weightings, enabled, heard \in BOOLEAN :
       input = [kind |-> "weights",
                of |-> [weights |-> weights, enabled |-> enabled, heard |-> heard]]
  \/ \E stitch \in Stitches : input = [kind |-> "stitch", of |-> stitch]
  \/ \E c \in Candidacies : input = [kind |-> "candidates", of |-> c]
  \/ \E file \in Files : input = [kind |-> "file", of |-> file]
  \/ \E sound \in Sounds : input = [kind |-> "sound", of |-> sound]

LEMMA InputIsPicked == Spec => []Picked
  <1>1. Init => Picked
    BY DEF Init, Picked
  <1>2. Picked /\ [Next]_input => Picked'
    <2> SUFFICES ASSUME Picked, [Next]_input PROVE Picked'
      OBVIOUS
    <2>1. CASE PickFraming
      BY <2>1 DEF PickFraming, Pick, Picked
    <2>2. CASE PickForm
      BY <2>2 DEF PickForm, Pick, Picked
    <2>3. CASE PickCues
      BY <2>3 DEF PickCues, Pick, Picked
    <2>4. CASE PickText
      BY <2>4 DEF PickText, Pick, Picked
    <2>5. CASE PickSpeech
      BY <2>5 DEF PickSpeech, Pick, Picked
    <2>6. CASE PickReply
      BY <2>6 DEF PickReply, Pick, Picked
    <2>7. CASE PickStitch
      BY <2>7 DEF PickStitch, Pick, Picked
    <2>12. CASE PickWeights
      BY <2>12 DEF PickWeights, Pick, Picked
    <2>8. CASE PickCandidates
      BY <2>8 DEF PickCandidates, Pick, Picked
    <2>9. CASE PickFile
      BY <2>9 DEF PickFile, Pick, Picked
    <2>10. CASE PickSound
      BY <2>10 DEF PickSound, Pick, Picked
    <2>11. CASE UNCHANGED input
      BY <2>11 DEF Picked
    <2> QED BY <2>1, <2>2, <2>3, <2>4, <2>5, <2>6, <2>7, <2>8, <2>9, <2>10, <2>11, <2>12 DEF Next
  <1> QED BY <1>1, <1>2, PTL DEF Spec

(* Every crop fits its frame and shows what was drawn, and the panels make  *)
(* up the picture, whatever frame, marks and face a clip has (the layouts   *)
(* of workers/rendering.py over core/rendering_logic.py).                   *)
THEOREM EveryCropFits == Spec => []CropsFit
  <1>1. Picked => CropsFit
    <2> SUFFICES ASSUME Picked, input.kind = "framing"
                 PROVE  /\ \A crop \in Crops(input.of) :
                             /\ InFrame(crop[2], input.of.width, input.of.height)
                             /\ ShowsWhatIsDrawn(crop, input.of)
                        /\ PanelsFit(input.of.fraction)
      BY DEF CropsFit
    <2> DEFINE in == input.of
    <2>1. in \in Framings
      BY DEF Picked
    <2>2. /\ FramingIn(in)
          /\ in.facecam # <<>> => OnTheFrame(in.facecam)
          /\ in.gameplay # <<>> => OnTheFrame(in.gameplay)
      BY <2>1, ArithmeticAssumption
    <2>3. \A crop \in Crops(in) :
            InFrame(crop[2], in.width, in.height) /\ ShowsWhatIsDrawn(crop, in)
      BY <2>2, CropsInFrame, DrawnIsShown
    <2>4. PanelsFit(in.fraction)
      BY <2>2, PanelsMakeThePicture DEF FramingIn, PanelsFit
    <2> QED BY <2>3, <2>4
  <1> QED BY <1>1, InputIsPicked, PTL

(* What the API has accepted is carried out, for every form, every request  *)
(* to draw marks and every source frame (stream_jobs.py with the workers    *)
(* that read the row).                                                      *)
THEOREM EveryAcceptedFormWorks == Spec => []AcceptedIsCarriedOut
  <1>1. Picked => AcceptedIsCarriedOut
    <2> SUFFICES ASSUME Picked, input.kind = "form"
                 PROVE  CarriedOut(input.of.form, input.of.request, input.of.size[1], input.of.size[2])
      BY DEF AcceptedIsCarriedOut
    <2>1. input.of.form \in Forms /\ input.of.request \in Requests /\ input.of.size \in Sizes
      BY DEF Picked
    <2> QED BY <2>1, ArithmeticAssumption, AcceptedWorks
  <1> QED BY <1>1, InputIsPicked, PTL

(* Captions keep step with what is played and a long one loses nothing,     *)
(* whatever is said and whatever parts of it are shown                      *)
(* (build_multipart_srt, build_srt, split_caption_text).                    *)
THEOREM EveryCaptionFits == Spec => []CaptionsFit
  <1>1. Picked => CaptionsFit
    <2> SUFFICES ASSUME Picked PROVE CaptionsFit
      OBVIOUS
    <2>1. CASE input.kind = "cues"
      <3>1. input.of \in Cued
        BY <2>1 DEF Picked
      <3>2. Synchronous(input.of.segments, Played(input.of.window, input.of.parts))
        BY <3>1, ArithmeticAssumption, CaptionsKeepStep
      <3> QED BY <2>1, <3>2 DEF CaptionsFit
    <2>2. CASE input.kind = "text"
      <3>1. input.of \in Texts
        BY <2>2 DEF Picked
      <3>2. Readable(input.of.words, input.of.most, input.of.from, input.of.to)
        BY <3>1, ArithmeticAssumption, CaptionsKeepStep
      <3> QED BY <2>2, <3>2 DEF CaptionsFit
    <2>3. CASE input.kind \notin {"cues", "text"}
      BY <2>3 DEF CaptionsFit
    <2> QED BY <2>1, <2>2, <2>3
  <1> QED BY <1>1, InputIsPicked, PTL

(* The windows cover the speech within their lengths, and a suggestion is   *)
(* shown as it was proposed, whatever is said and whatever the model        *)
(* replies (build_candidate_windows, parse_segment_suggestions and          *)
(* normalize_parts).                                                        *)
THEOREM EveryCandidateFits == Spec => []CandidatesFit
  <1>1. Picked => CandidatesFit
    <2> SUFFICES ASSUME Picked PROVE CandidatesFit
      OBVIOUS
    <2>1. CASE input.kind = "speech"
      <3>1. input.of \in Speeches
        BY <2>1 DEF Picked
      <3>2. WindowsFit(input.of.segments, input.of.cuts, input.of.min, input.of.max)
        BY <3>1, ArithmeticAssumption, WindowsOfSpeechFit
      <3> QED BY <2>1, <3>2 DEF CandidatesFit
    <2>2. CASE input.kind = "reply"
      <3>1. input.of \in Replies
        BY <2>2 DEF Picked
      <3>2. SuggestionsFit(input.of.reply, input.of.segments, input.of.min, input.of.max, Played)
        BY <3>1, ArithmeticAssumption, RepliesAreShown
      <3> QED BY <2>2, <3>2 DEF CandidatesFit
    <2>3. CASE input.kind \notin {"speech", "reply"}
      BY <2>3 DEF CandidatesFit
    <2> QED BY <2>1, <2>2, <2>3
  <1> QED BY <1>1, InputIsPicked, PTL

(* Scores compare, whatever is stitched from whatever transcript            *)
(* (score_multipart_window, score_out_of_10).                               *)
THEOREM EveryScoreCompares == Spec => []ScoresCompare
  <1>1. Picked => ScoresCompare
    <2> SUFFICES ASSUME Picked PROVE ScoresCompare
      OBVIOUS
    <2>1. CASE input.kind = "weights"
      <3>1. /\ input.of.weights \in Weightings
            /\ input.of.enabled \in BOOLEAN /\ input.of.heard \in BOOLEAN
        BY <2>1 DEF Picked
      <3>2. input.of.weights \in AnyWeights
        BY <3>1, ArithmeticAssumption
      <3>3. FullRange(input.of.weights, input.of.enabled, input.of.heard)
        BY <3>1, <3>2, ScoresRangeFully
      <3> QED BY <2>1, <3>3 DEF ScoresCompare
    <2>2. CASE input.kind = "stitch"
      <3>1. input.of \in Stitches
        BY <2>2 DEF Picked
      <3>2. StitchingEarnsNothing(input.of.segments, input.of.parts, input.of.cuts)
        BY <3>1, ArithmeticAssumption, NothingIsEarned
      <3> QED BY <2>2, <3>2 DEF ScoresCompare
    <2>3. CASE input.kind \notin {"weights", "stitch"}
      BY <2>3 DEF ScoresCompare
    <2> QED BY <2>1, <2>2, <2>3
  <1> QED BY <1>1, InputIsPicked, PTL

(* What is rendered is the best there is without showing the same twice,    *)
(* whatever the candidates (select_top_non_overlapping).                    *)
THEOREM TheBestAreRendered == Spec => []BestAreRendered
  <1>1. Picked => BestAreRendered
    <2> SUFFICES ASSUME Picked, input.kind = "candidates"
                 PROVE  SelectionIsBest(input.of.candidates, input.of.most, input.of.least)
      BY DEF BestAreRendered
    <2>1. input.of \in Candidacies
      BY DEF Picked
    <2> QED BY <2>1, ArithmeticAssumption, BestAreSelected
  <1> QED BY <1>1, InputIsPicked, PTL

(* A video arrives whole and in order, whatever its size and the chunk size *)
(* that is set (plan_chunks with the upload's loop).                        *)
THEOREM EveryFileArrives == Spec => []ChunksFit
  <1>1. Picked => ChunksFit
    <2> SUFFICES ASSUME Picked, input.kind = "file"
                 PROVE  ChunksAreTheFile(input.of.size, input.of.preferred)
      BY DEF ChunksFit
    <2>1. input.of \in Files
      BY DEF Picked
    <2> QED BY <2>1, ArithmeticAssumption, ChunksArriveWhole
  <1> QED BY <1>1, InputIsPicked, PTL

(* A sound track is transcribed piece by piece without a gap, and what is   *)
(* said keeps its place, wherever it is silent (plan_chunk_boundaries,      *)
(* split_audio and transcribe).                                             *)
THEOREM EveryPieceFits == Spec => []PiecesFit
  <1>1. Picked => PiecesFit
    <2> SUFFICES ASSUME Picked, input.kind = "sound"
                 PROVE  PiecesAreTheSound(input.of.silences, input.of.duration, input.of.piece,
                                          input.of.second, input.of.said)
      BY DEF PiecesFit
    <2>1. input.of \in Sounds
      BY DEF Picked
    <2>2. Sounding(input.of.silences, input.of.duration, input.of.piece, input.of.second, input.of.said)
      BY <2>1, ArithmeticAssumption
    <2> QED BY <2>2, SoundIsWhole
  <1> QED BY <1>1, InputIsPicked, PTL
===============================================================================
