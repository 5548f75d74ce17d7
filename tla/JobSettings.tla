---------------------------- MODULE JobSettings -----------------------------
(***************************************************************************)
(* What a creator may ask of a stream job (_validate_job_overrides and     *)
(* set_stream_job_layout_regions of api/routers/stream_jobs.py), and what  *)
(* the workers make of it: segmentation its clip lengths, rendering its    *)
(* style and its framing (see Framing).  Pure operators, which Arithmetic  *)
(* applies to forms.                                                       *)
(*                                                                         *)
(* An upload form is a record; what it does not fill in is Unset, as is a  *)
(* null of the job's row.  A mark's fractions are so many Marks; one that  *)
(* is no JSON object of four numbers has no area.  A style is a function   *)
(* from the keys that are given.  The Whisper model and the score          *)
(* threshold, looked up in a list and a range of their own, are left out.  *)
(***************************************************************************)
EXTENDS Framing

CONSTANTS
  Unset,
  HardMaxClips, DefaultMaxClips,  \* settings.*_max_clips_per_job
  Floor, Ceiling,                 \* min_clip_seconds_floor, max_clip_seconds_ceiling
  DefaultMin, DefaultMax,         \* segment_min_ and segment_max_clip_seconds
  StyleBounds,                    \* STYLE_OVERRIDE_BOUNDS: key -> <<low, high>>
  StyleDefaults                   \* settings.* by the same keys

ASSUME JobSettingsAssumption ==
  /\ DefaultMaxClips \in 1..HardMaxClips
  /\ DOMAIN StyleDefaults = DOMAIN StyleBounds
  /\ "split_facecam_fraction" \in DOMAIN StyleBounds
  /\ \A key \in DOMAIN StyleDefaults : StyleDefaults[key] \in Int

LayoutModes == {"auto", "single_crop", "split_reaction", "fit_frame"}
CropBiases == {"left", "center", "right"}
Regions == {"facecam", "gameplay"}

Given(value, default) == IF value = Unset THEN default ELSE value

(* A form and a request to mark regions, as FastAPI has parsed them.        *)
Mark == [x : Int, y : Int, w : Int, h : Int]
Filled(form) ==
  /\ form = [clips |-> form.clips, min |-> form.min, max |-> form.max, mode |-> form.mode,
             bias |-> form.bias, marks |-> form.marks, style |-> form.style]
  /\ form.marks \in [Regions -> Mark \cup {Unset}]
  /\ form.style # Unset => \A key \in DOMAIN form.style : form.style[key] \in Int
Asked(request) ==
  /\ DOMAIN request \subseteq Regions
  /\ \A r \in DOMAIN request : request[r] \in Mark \cup {Unset}

-----------------------------------------------------------------------------
(* A box may not run off the edge of the frame, nor be empty: MarkedRect    *)
(* and _parse_marked_rect.                                                  *)
ValidMark(mark) ==
  /\ mark.x \in 0..Marks /\ mark.y \in 0..Marks
  /\ mark.w \in 1..Marks /\ mark.h \in 1..Marks
  /\ mark.x + mark.w <= Marks /\ mark.y + mark.h <= Marks

(* _parse_style_overrides: a typo is an error, and so is every other value  *)
(* out of bounds.                                                           *)
ValidStyle(style) ==
  /\ DOMAIN style \subseteq DOMAIN StyleBounds
  /\ \A key \in DOMAIN style :
       StyleBounds[key][1] <= style[key] /\ style[key] <= StyleBounds[key][2]

(* The lengths a request and the deployment's settings come to.             *)
ValidLengths_OfTheRequest(form) ==  \* mutant: the check as it once was
  /\ form.min # Unset => form.min >= Floor
  /\ form.max # Unset => form.max <= Ceiling
  /\ form.min # Unset /\ form.max # Unset => form.min < form.max
ValidLengths(form) ==
  /\ form.min # Unset => form.min >= Floor
  /\ form.max # Unset => form.max <= Ceiling
  /\ Given(form.min, DefaultMin) < Given(form.max, DefaultMax)

(* _validate_job_overrides                                                  *)
Accepted(form) ==
  /\ form.clips # Unset => form.clips \in 1..HardMaxClips
  /\ ValidLengths(form)
  /\ form.mode \in LayoutModes \cup {Unset}
  /\ form.bias \in CropBiases \cup {Unset}
  /\ \A r \in Regions : form.marks[r] # Unset => ValidMark(form.marks[r])
  /\ form.style # Unset => ValidStyle(form.style)

Job(form) ==
  [form EXCEPT !.clips = Given(form.clips, DefaultMaxClips),
               !.mode = IF form.mode = "auto" THEN Unset ELSE form.mode,
               !.style = IF form.style # Unset /\ DOMAIN form.style = {} THEN Unset ELSE form.style]

(* set_stream_job_layout_regions: of the regions the request names, each is *)
(* set, or cleared; and none of them if one of them is refused.             *)
SetLayoutRegions(job, request) ==
  IF \A r \in DOMAIN request : request[r] # Unset => ValidMark(request[r])
  THEN [job EXCEPT !.marks = [r \in Regions |-> IF r \in DOMAIN request THEN request[r]
                                                ELSE job.marks[r]]]
  ELSE job

-----------------------------------------------------------------------------
(* segmentation.run reads the lengths with its own process's settings, and  *)
(* fails the job for an empty range.                                        *)
ClipLengths(job) == <<Given(job.min, DefaultMin), Given(job.max, DefaultMax)>>
Segmentable(job) == ClipLengths(job)[1] < ClipLengths(job)[2]

(* resolve_style                                                            *)
ResolveStyle(job) ==
  [key \in DOMAIN StyleDefaults |->
     IF job.style # Unset /\ key \in DOMAIN job.style THEN job.style[key] ELSE StyleDefaults[key]]

(* What rendering.run takes from the job's row, as Framing's input.         *)
FramingInput(job, width, height, enabled, face) ==
  [width |-> width, height |-> height, enabled |-> enabled, face |-> face,
   mode |-> Given(job.mode, "auto"), bias |-> Given(job.bias, "none"),
   facecam |-> Given(job.marks["facecam"], <<>>),
   gameplay |-> Given(job.marks["gameplay"], <<>>),
   fraction |-> ResolveStyle(job)["split_facecam_fraction"]]

-----------------------------------------------------------------------------
(* What was accepted is carried out: segmentation does not refuse the       *)
(* lengths, rendering finds every mark usable and the style within what can *)
(* be read, marks in force decide the layout, and a request that names one  *)
(* region, or is refused, leaves the others alone.                          *)
CarriedOut(form, request, width, height) ==
  LET before == Job(form)
      job == SetLayoutRegions(before, request)
      in(enabled) == FramingInput(job, width, height, enabled, <<>>)
      style == ResolveStyle(job)
  IN Accepted(form) =>
       /\ Segmentable(job)
       /\ job.clips \in 1..HardMaxClips
       /\ \A r \in Regions : job.marks[r] # Unset => HasArea(job.marks[r])
       /\ \A key \in DOMAIN StyleBounds :
            \/ style[key] = StyleDefaults[key]
            \/ StyleBounds[key][1] <= style[key] /\ style[key] <= StyleBounds[key][2]
       /\ \A c \in Crops(in(TRUE)) \cup Crops(in(FALSE)) : InFrame(c[2], width, height)
       /\ (job.marks["facecam"] # Unset /\ form.mode \notin {"single_crop", "fit_frame"})
            => Layout(in(TRUE)) = "split_reaction"
       /\ \A r \in Regions \ DOMAIN request : job.marks[r] = form.marks[r]
       /\ \/ \A r \in DOMAIN request : job.marks[r] = request[r]
          \/ job = before
=============================================================================
