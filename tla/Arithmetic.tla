----------------------------- MODULE Arithmetic -----------------------------
(***************************************************************************)
(* The computations of the pipeline that keep no state, each as a single   *)
(* step: some input is picked, and the invariants say what the code makes  *)
(* of it.  The inputs are constants: MCArithmetic gives small sets of them *)
(* to TLC, the proofs are about any.                                       *)
(***************************************************************************)
EXTENDS Framing, JobSettings, Captions, Proposing, Scoring, Chunks

CONSTANTS
  Framings,    \* what rendering decides a clip's framing from
  Sizes,       \* source frames, as <<width, height>>
  Forms,       \* upload forms
  Requests,    \* requests to mark regions of a job
  Cued,        \* [segments, window, parts]: a transcript, a clip and its parts
  Texts,       \* [words, most, from, to]: a caption's words, its width and time
  Speeches,    \* [segments, cuts, min, max]: what windows are cut from
  Replies,     \* [segments, reply, min, max]: what a language model proposed
  Weightings,  \* weights of the features, as they may be set
  Stitches,    \* [segments, parts, cuts]: a stitched clip to be scored
  Candidacies, \* [candidates, most, least]: what is selected from
  Files,       \* [size, preferred]: a video and the chunk size that is set
  Sounds       \* [silences, duration, piece, second, said]: a sound track

VARIABLE input

(* A frame has at least two pixels a side, and a mark lies on it            *)
(* (_parse_marked_rect, LayoutRegionsRequest); the shortest clip is not     *)
(* longer than the longest (see AcceptedIsCarriedOut); a file   *)
(* is not empty.                                                            *)
ASSUME ArithmeticAssumption ==
  /\ \A in \in Framings :
       /\ FramingIn(in)
       /\ in.facecam # <<>> => OnTheFrame(in.facecam)
       /\ in.gameplay # <<>> => OnTheFrame(in.gameplay)
  /\ \A size \in Sizes : size[1] \in Nat /\ size[1] >= 2 /\ size[2] \in Nat /\ size[2] >= 2
  /\ \A form \in Forms : Filled(form)
  /\ \A request \in Requests : Asked(request)
  /\ \A cues \in Cued :
       /\ \A i \in DOMAIN cues.segments :
            cues.segments[i].start \in Int /\ cues.segments[i].end \in Int
       /\ cues.window \in WindowTimes /\ cues.window[1] <= cues.window[2]
       /\ cues.parts \in Seq(WindowTimes)
  /\ \A text \in Texts :
       /\ text.words \in Seq(Word) /\ text.words # <<>> /\ text.most \in Int
       /\ text.from \in Int /\ text.to \in Int /\ text.from < text.to
  /\ \A speech \in Speeches :
       /\ Spoken(speech.segments) /\ speech.cuts \in SUBSET Int /\ IsFiniteSet(speech.cuts)
       /\ speech.min \in Nat \ {0} /\ speech.max \in Nat /\ speech.min <= speech.max
  /\ \A reply \in Replies :
       /\ Told(reply.segments) /\ reply.reply \in Seq(ReplyItems)
       /\ reply.min \in Int /\ reply.max \in Int
  /\ Weightings \in SUBSET AnyWeights
  /\ \A stitch \in Stitches :
       /\ Scored(stitch.segments) /\ InOrder(stitch.parts)
       /\ stitch.cuts \in SUBSET Int /\ IsFiniteSet(stitch.cuts)
  /\ \A c \in Candidacies :
       c.candidates \in Seq(CandidateRecords) /\ c.most \in Nat /\ c.least \in Int
  /\ \A file \in Files : file.size \in Nat \ {0} /\ file.preferred \in Int
  /\ \A s \in Sounds : Sounding(s.silences, s.duration, s.piece, s.second, s.said)

Pick(kind, of) == input' = [kind |-> kind, of |-> of]

PickFraming == \E in \in Framings : Pick("framing", in)
PickForm ==
  \E form \in Forms, request \in Requests, size \in Sizes :
    Pick("form", [form |-> form, request |-> request, size |-> size])
PickCues == \E cues \in Cued : Pick("cues", cues)
PickText == \E text \in Texts : Pick("text", text)
PickSpeech == \E speech \in Speeches : Pick("speech", speech)
PickReply == \E reply \in Replies : Pick("reply", reply)
PickWeights ==
  \E weights \in Weightings, enabled, heard \in BOOLEAN :
    Pick("weights", [weights |-> weights, enabled |-> enabled, heard |-> heard])
PickStitch == \E stitch \in Stitches : Pick("stitch", stitch)
PickCandidates == \E c \in Candidacies : Pick("candidates", c)
PickFile == \E file \in Files : Pick("file", file)
PickSound == \E sound \in Sounds : Pick("sound", sound)

Init == input = [kind |-> "none"]

Next ==
  /\ input.kind = "none"
  /\ \/ PickFraming \/ PickForm \/ PickCues \/ PickText \/ PickSpeech \/ PickReply
     \/ PickWeights \/ PickStitch \/ PickCandidates \/ PickFile \/ PickSound

Spec == Init /\ [][Next]_input

-----------------------------------------------------------------------------
(* Every crop is one that ffmpeg and x264 take; what the creator has drawn  *)
(* is not cut at its left or its top, nor tighter than it was drawn; and    *)
(* the two panels make up the frame (rendering_logic.py and the layout of   *)
(* workers/rendering.py).                                                   *)
CropsFit ==
  input.kind = "framing" =>
    /\ \A crop \in Crops(input.of) : InFrame(crop[2], input.of.width, input.of.height)
    /\ \A crop \in Crops(input.of) : ShowsWhatIsDrawn(crop, input.of)
    /\ PanelsFit(input.of.fraction)

(* What the API has accepted of an upload form, and of marks drawn later,   *)
(* no worker refuses or makes into something else (stream_jobs.py with      *)
(* workers/segmentation.py and workers/rendering.py).                       *)
AcceptedIsCarriedOut ==
  input.kind = "form" =>
    CarriedOut(input.of.form, input.of.request, input.of.size[1], input.of.size[2])

(* A caption is up only while what it says is heard, in a stitched clip too *)
(* (build_srt, build_multipart_srt), and a long one is split without losing *)
(* a word or a moment (split_caption_text, _timed_caption_chunks).          *)
CaptionsFit ==
  CASE input.kind = "cues" -> Synchronous(input.of.segments, Played(input.of.window, input.of.parts))
    [] input.kind = "text" -> Readable(input.of.words, input.of.most, input.of.from, input.of.to)
    [] OTHER -> TRUE

(* The windows cover the speech, within their lengths unless snapped to a   *)
(* scene cut, and a suggestion is shown as it was kept by the workers that  *)
(* read it back                                                             *)
(* (segmentation_logic.py, llm_segmentation_logic.py and normalize_parts).  *)
CandidatesFit ==
  CASE input.kind = "speech" ->
         WindowsFit(input.of.segments, input.of.cuts, input.of.min, input.of.max)
    [] input.kind = "reply" ->
         SuggestionsFit(input.of.reply, input.of.segments, input.of.min, input.of.max, Played)
    [] OTHER -> TRUE

(* Scores can be compared: a stitched clip's with a plain one's, and those  *)
(* of one setting with another's, but for the share of the weight that no   *)
(* clip can earn (score_multipart_window, score_out_of_10).                 *)
ScoresCompare ==
  CASE input.kind = "weights" -> FullRange(input.of.weights, input.of.enabled, input.of.heard)
    [] input.kind = "stitch" ->
         StitchingEarnsNothing(input.of.segments, input.of.parts, input.of.cuts)
    [] OTHER -> TRUE

(* What is rendered is the best there is without showing the same twice     *)
(* (select_top_non_overlapping).                                            *)
BestAreRendered ==
  input.kind = "candidates" =>
    SelectionIsBest(input.of.candidates, input.of.most, input.of.least)

(* A video that is sent in chunks arrives whole and in order (plan_chunks   *)
(* with the upload's loop).                                                 *)
ChunksFit == input.kind = "file" => ChunksAreTheFile(input.of.size, input.of.preferred)

(* What is said keeps its place in a transcript that was made piece by      *)
(* piece, and the pieces are all of the sound (plan_chunk_boundaries and    *)
(* split_audio with the joining of the transcripts).                        *)
PiecesFit ==
  input.kind = "sound" =>
    PiecesAreTheSound(input.of.silences, input.of.duration, input.of.piece, input.of.second,
                      input.of.said)
=============================================================================
