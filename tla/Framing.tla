------------------------------ MODULE Framing -------------------------------
(***************************************************************************)
(* Which part of the source frame a vertical clip shows: the arithmetic of *)
(* core/rendering_logic.py and the layout decision of workers/rendering.py.*)
(* Nothing here has a state: Arithmetic applies the operators to frames,   *)
(* marks and faces.                                                        *)
(*                                                                         *)
(* A crop is what ffmpeg's crop filter takes, a record of w, h, x and y in *)
(* pixels.  The code computes in floating point; here a real is a number of*)
(* grains, so many to the pixel that every division of the code is exact.  *)
(* A ratio (width to height) is a pair <<p, q>>.                           *)
(***************************************************************************)
EXTENDS Builtins

CONSTANTS
  TargetWidth, TargetHeight,  \* TARGET_WIDTH and TARGET_HEIGHT: 1080 and 1920
  Vertical,                   \* TARGET_ASPECT_RATIO, 9/16
  Marks                       \* a mark's fractions of the frame are k/Marks

ASSUME FramingAssumption ==
  /\ TargetWidth \in Nat \ {0}
  /\ TargetHeight \in Nat /\ TargetHeight > 8 /\ TargetHeight = 2 * (TargetHeight \div 2)
  /\ Vertical \in (Nat \ {0}) \X (Nat \ {0})
  /\ Marks \in Nat \ {0}

Clamp(x, low, high) == Greatest(low, Least(x, high))

(* libx264 with yuv420p takes even dimensions only.                         *)
Even(n) == Greatest(2, n - (n % 2))
EvenDown(v, grains) == Greatest(0, 2 * ((v \div grains) \div 2))
EvenUp(v, grains) == Greatest(2, 2 * ((-((-v) \div grains) + 1) \div 2))

-----------------------------------------------------------------------------
(* The largest window of the given ratio, cropping the long axis only.      *)
VerticalCrop(width, height, ratio) ==
  LET p == ratio[1]
      q == ratio[2]
  IN IF width * q > height * p
     THEN [w |-> Even((height * p) \div q), h |-> Even(height)]
     ELSE [w |-> Even(width), h |-> Even((width * q) \div p)]

(* Its place: at the job's bias, else around a point, else in the middle.   *)
(* The point is <<x, y>>, or <<>> for none.                                 *)
CropOffset_NoClamp(width, height, size, point, bias) ==  \* mutant: a face at the edge
  [x |-> IF point = <<>> THEN (width - size.w) \div 2 ELSE point[1] - size.w \div 2,
   y |-> IF point = <<>> THEN (height - size.h) \div 2 ELSE point[2] - size.h \div 2]

CropOffset(width, height, size, point, bias) ==
  LET middle == [x |-> (width - size.w) \div 2, y |-> (height - size.h) \div 2]
      biased == CASE bias = "left"   -> 0
                  [] bias = "right"  -> width - size.w
                  [] OTHER           -> middle.x
  IN CASE bias # "none" ->
            [x |-> Greatest(0, Least(biased, width - size.w)), y |-> middle.y]
       [] bias = "none" /\ point = <<>> -> middle
       [] OTHER ->
            [x |-> IF size.w < width
                   THEN Clamp(point[1] - size.w \div 2, 0, width - size.w) ELSE 0,
             y |-> IF size.h < height
                   THEN Clamp(point[2] - size.h \div 2, 0, height - size.h) ELSE 0]

Placed(size, at) == [w |-> size.w, h |-> size.h, x |-> at.x, y |-> at.y]

-----------------------------------------------------------------------------
(* A region the creator has drawn: [x, y, w, h], each so many Marks.  One   *)
(* without an area stands for every malformed one (the code raises).        *)
HasArea(mark) == mark.w > 0 /\ mark.h > 0

(* marked_rect_pixels: at its own proportions.                              *)
MarkedRectPixels(width, height, mark) ==
  LET w == Least(EvenUp(mark.w * width, Marks), EvenDown(width, 1))
      h == Least(EvenUp(mark.h * height, Marks), EvenDown(height, 1))
  IN [w |-> w, h |-> h,
      x |-> EvenDown(Least(mark.x * width, Marks * (width - w)), Marks),
      y |-> EvenDown(Least(mark.y * height, Marks * (height - h)), Marks)]

(* A size in grains, shrunk into the frame at its ratio <<p, q>>.           *)
FitInside(size, frame, p, q) ==
  LET byWidth == IF size.w > frame.w
                 THEN [w |-> frame.w, h |-> (frame.w * q) \div p] ELSE size
  IN IF byWidth.h > frame.h
     THEN [w |-> (frame.h * p) \div q, h |-> frame.h] ELSE byWidth

(* crop_from_marked_rect: grown on one axis to the panel's ratio around the *)
(* same centre, as far as the frame goes.                                   *)
CropFromMarkedRect(width, height, mark, ratio) ==
  LET p == ratio[1]
      q == ratio[2]
      grains == 2 * p * q * Marks
      box == [x |-> mark.x * width * 2 * p * q, y |-> mark.y * height * 2 * p * q,
              w |-> mark.w * width * 2 * p * q, h |-> mark.h * height * 2 * p * q]
      grown == IF box.w * q < box.h * p
               THEN [w |-> (box.h * p) \div q, h |-> box.h]
               ELSE [w |-> box.w, h |-> (box.w * q) \div p]
      size == FitInside(grown, [w |-> width * grains, h |-> height * grains], p, q)
      x == Clamp(box.x + (box.w - size.w) \div 2, 0, width * grains - size.w)
      y == Clamp(box.y + (box.h - size.h) \div 2, 0, height * grains - size.h)
      w == Least(EvenUp(size.w, grains), EvenDown(width, 1))
      h == Least(EvenUp(size.h, grains), EvenDown(height, 1))
  IN [w |-> w, h |-> h,
      x |-> EvenDown(Least(x, grains * (width - w)), grains),
      y |-> EvenDown(Least(y, grains * (height - h)), grains)]

(* compute_face_zoom_crop: 3.2 times the face, at least 20 pixels.          *)
FaceZoomCrop(width, height, face, ratio) ==
  LET p == ratio[1]
      q == ratio[2]
      grains == 10 * p * q
      high == Greatest(face.side * 32 * p * q, 20 * grains)
      size == FitInside([w |-> (high * p) \div q, h |-> high],
                        [w |-> width * grains, h |-> height * grains], p, q)
      even == [w |-> Least(Even(size.w \div grains), Even(width)),
               h |-> Least(Even(size.h \div grains), Even(height))]
  IN Placed(even, CropOffset(width, height, even, face.center, "none"))

-----------------------------------------------------------------------------
(* classify_reaction_layout: a small face (6% of the frame) near a corner   *)
(* (25% of it on both axes).                                                *)
ClassifyReactionLayout(face, width, height) ==
  /\ 100 * face.side * face.side <= 6 * width * height
  /\ 4 * face.center[1] <= width \/ 4 * face.center[1] >= 3 * width
  /\ 4 * face.center[2] <= height \/ 4 * face.center[2] >= 3 * height

(* The heights of the split's panels, for split_facecam_fraction in percent.*)
CamPanel(percent) == 2 * (((TargetHeight * Clamp(percent, 20, 80)) \div 100) \div 2)
MainPanel(percent) == TargetHeight - CamPanel(percent)

(* A clip's framing inputs: the frame, the job's mode ("auto" for null),    *)
(* bias, marks (<<>> when there is none) and facecam fraction, whether the  *)
(* split is enabled at all, and the face that was found (<<>> for none).    *)
MarkedCam(in) == in.facecam # <<>> /\ HasArea(in.facecam)
MarkedMain(in) == in.gameplay # <<>> /\ HasArea(in.gameplay)

Layout(in) ==
  CASE in.mode = "fit_frame"                        -> "fit_frame"
    [] ~in.enabled \/ in.mode = "single_crop"       -> "single_crop"
    [] in.enabled /\ in.mode \in {"auto", "split_reaction"} /\ MarkedCam(in)
                                                    -> "split_reaction"
    [] in.enabled /\ in.mode = "split_reaction" /\ ~MarkedCam(in)
         -> IF in.face = <<>> THEN "single_crop" ELSE "split_reaction"
    [] OTHER
         -> IF /\ in.face # <<>>
               /\ ClassifyReactionLayout(in.face, in.width, in.height)
            THEN "split_reaction" ELSE "single_crop"

CamRatio(in) == <<TargetWidth, CamPanel(in.fraction)>>
MainRatio(in) == <<TargetWidth, MainPanel(in.fraction)>>

CamCrop(in) ==
  IF MarkedCam(in)
  THEN CropFromMarkedRect(in.width, in.height, in.facecam, CamRatio(in))
  ELSE FaceZoomCrop(in.width, in.height, in.face, CamRatio(in))

MainCrop(in) ==
  LET size == VerticalCrop(in.width, in.height, MainRatio(in))
  IN IF MarkedMain(in)
     THEN CropFromMarkedRect(in.width, in.height, in.gameplay, MainRatio(in))
     ELSE Placed(size, CropOffset(in.width, in.height, size, <<>>, in.bias))

SingleCrop(in) ==
  LET size == VerticalCrop(in.width, in.height, Vertical)
      point == IF in.face = <<>> THEN <<>> ELSE in.face.center
  IN IF MarkedMain(in)
     THEN CropFromMarkedRect(in.width, in.height, in.gameplay, <<TargetWidth, TargetHeight>>)
     ELSE Placed(size, CropOffset(in.width, in.height, size, point, in.bias))

(* What rendering.run may have to decide about: a frame, marks that were    *)
(* validated (or are malformed: without an area), and a face, if there is   *)
(* one.                                                                     *)
Natural(mark) == mark.x \in Nat /\ mark.y \in Nat /\ mark.w \in Nat /\ mark.h \in Nat
OnTheFrame(mark) == mark.x + mark.w <= Marks /\ mark.y + mark.h <= Marks
FramingIn(in) ==
  /\ in.width \in Nat /\ in.width >= 2 /\ in.height \in Nat /\ in.height >= 2
  /\ in.fraction \in Int
  /\ in.facecam # <<>> => Natural(in.facecam)
  /\ in.gameplay # <<>> => Natural(in.gameplay)
  /\ in.face # <<>> =>
       in.face.side \in Nat /\ in.face.center[1] \in Int /\ in.face.center[2] \in Int

(* The crops that end up in the filtergraph, by panel.                      *)
Crops(in) ==
  CASE Layout(in) = "split_reaction" -> {<<"cam", CamCrop(in)>>, <<"main", MainCrop(in)>>}
    [] Layout(in) = "single_crop"    -> {<<"full", SingleCrop(in)>>}
    [] OTHER -> IF MarkedMain(in)
                THEN {<<"fit", MarkedRectPixels(in.width, in.height, in.gameplay)>>} ELSE {}

-----------------------------------------------------------------------------
(* ffmpeg refuses a crop that leaves the frame, and x264 one that is odd.   *)
InFrame(crop, width, height) ==
  /\ crop.w % 2 = 0 /\ crop.h % 2 = 0
  /\ crop.w >= 2 /\ crop.h >= 2
  /\ crop.x >= 0 /\ crop.x + crop.w <= width
  /\ crop.y >= 0 /\ crop.y + crop.h <= height

(* What a crop keeps of a mark: it starts no later, and is as large, or as  *)
(* large as the frame is in even pixels.                                    *)
Shows(crop, mark, width, height) ==
  /\ Marks * crop.x <= mark.x * width
  /\ Marks * crop.y <= mark.y * height
  /\ Marks * crop.w >= mark.w * width \/ crop.w = EvenDown(width, 1)
  /\ Marks * crop.h >= mark.h * height \/ crop.h = EvenDown(height, 1)

(* The mark ends in the crop but for `slack` pixels.                        *)
EndsWithin(crop, mark, width, height, slack) ==
  /\ Marks * (crop.x + crop.w + slack) >= (mark.x + mark.w) * width
  /\ Marks * (crop.y + crop.h + slack) >= (mark.y + mark.h) * height

(* A mark that fits the frame when it is grown to the ratio.                *)
Fits(mark, width, height, ratio) ==
  /\ mark.w * width * ratio[2] <= height * Marks * ratio[1]
  /\ mark.h * height * ratio[1] <= width * Marks * ratio[2]

(* The mark that a crop is cut from, and whether it can be shown whole.     *)
Drawn(crop, in) == IF crop[1] = "cam" THEN in.facecam ELSE in.gameplay
CanBeShown(crop, in) ==
  LET ratio == CASE crop[1] = "cam"  -> CamRatio(in)
                 [] crop[1] = "main" -> MainRatio(in)
                 [] OTHER            -> <<TargetWidth, TargetHeight>>
  IN /\ Drawn(crop, in) # <<>> /\ HasArea(Drawn(crop, in))
     /\ crop[1] = "fit" \/ Fits(Drawn(crop, in), in.width, in.height, ratio)

(* A mark that fits is never cut tighter than it was drawn, nor at its left *)
(* or its top.  The code's comments promise all of it; as the offsets are   *)
(* floored after the size is rounded, its right and bottom may lose up to   *)
(* two pixels (DrawnIsShown), which this leaves open.                       *)
ShowsWhatIsDrawn(crop, in) ==
  CanBeShown(crop, in) => Shows(crop[2], Drawn(crop, in), in.width, in.height)

(* The panels of a split lie on each other, and x264 takes both.            *)
PanelsFit(percent) ==
  /\ CamPanel(percent) + MainPanel(percent) = TargetHeight
  /\ \A height \in {CamPanel(percent), MainPanel(percent)} : height >= 2 /\ height % 2 = 0
=============================================================================
