---------------------------- MODULE FramingProofs ----------------------------
(***************************************************************************)
(* For every source frame, every mark and every face: the crops are ones   *)
(* that ffmpeg and x264 take, they show what was drawn, and the split's    *)
(* panels make up the picture; and what the API takes of a form, no worker *)
(* refuses.                                                                *)
(***************************************************************************)
EXTENDS JobSettings, TLAPS

-----------------------------------------------------------------------------
(* Rounding.                                                                *)
LEMMA Division ==
  ASSUME NEW a \in Int, NEW b \in Nat \ {0}
  PROVE  /\ a \div b \in Int
         /\ b * (a \div b) <= a
         /\ a < b * (a \div b) + b
  OBVIOUS

LEMMA Halves ==
  ASSUME NEW a \in Int
  PROVE  /\ a \div 2 \in Int
         /\ 2 * (a \div 2) <= a /\ a <= 2 * (a \div 2) + 1
         /\ (2 * a) % 2 = 0
         /\ (a - (a % 2)) % 2 = 0 /\ a % 2 \in {0, 1}
  OBVIOUS

LEMMA LeastGreatest ==
  ASSUME NEW a \in Int, NEW b \in Int
  PROVE  /\ Least(a, b) \in {a, b} /\ Least(a, b) <= a /\ Least(a, b) <= b
         /\ Greatest(a, b) \in {a, b} /\ Greatest(a, b) >= a /\ Greatest(a, b) >= b
  BY DEF Least, Greatest

(* What is at least 0 when divided, and below a bound that is a multiple.   *)
LEMMA DivisionBounds ==
  ASSUME NEW a \in Int, NEW b \in Nat \ {0}
  PROVE  /\ a >= 0 => a \div b >= 0
         /\ \A m \in Int : a <= b * m => a \div b <= m
  <1>1. a \div b \in Int /\ b * (a \div b) <= a /\ a < b * (a \div b) + b
    BY Division
  <1>2. ASSUME a >= 0, a \div b < 0 PROVE FALSE
    <2>1. a \div b + 1 <= 0
      BY <1>1, <1>2
    <2>2. b * (a \div b + 1) <= 0
      BY <1>1, <2>1
    <2> QED BY <1>1, <1>2, <2>2
  <1>3. ASSUME NEW m \in Int, a <= b * m, a \div b > m PROVE FALSE
    <2>1. a \div b >= m + 1
      BY <1>1, <1>3
    <2>2. b * (a \div b) >= b * (m + 1)
      BY <1>1, <2>1
    <2> QED BY <1>1, <1>3, <2>2
  <1> QED BY <1>1, <1>2, <1>3

LEMMA EvenIs ==
  ASSUME NEW n \in Int
  PROVE  /\ Even(n) \in Int /\ Even(n) >= 2 /\ Even(n) % 2 = 0
         /\ n >= 2 => Even(n) <= n
         /\ \A m \in Int : n <= m /\ m >= 2 => Even(n) <= m
  BY Halves DEF Even, Greatest

LEMMA EvenDownIs ==
  ASSUME NEW v \in Int, NEW g \in Nat \ {0}
  PROVE  /\ EvenDown(v, g) \in Nat /\ EvenDown(v, g) % 2 = 0
         /\ \A m \in Nat : v <= g * m => EvenDown(v, g) <= m
  <1> DEFINE d == v \div g
             e == d \div 2
  <1>1. d \in Int /\ e \in Int /\ 2 * e <= d /\ (2 * e) % 2 = 0
    BY Division, Halves
  <1>2. \A m \in Nat : v <= g * m => d <= m
    BY DivisionBounds
  <1>3. EvenDown(v, g) = IF 0 >= 2 * e THEN 0 ELSE 2 * e
    BY DEF EvenDown, Greatest
  <1> HIDE DEF d, e
  <1> QED BY <1>1, <1>2, <1>3

LEMMA EvenUpIs ==
  ASSUME NEW v \in Int, NEW g \in Nat \ {0}
  PROVE  EvenUp(v, g) \in Nat /\ EvenUp(v, g) >= 2 /\ EvenUp(v, g) % 2 = 0
  <1> DEFINE d == -((-v) \div g)
             e == (d + 1) \div 2
  <1>1. d \in Int /\ e \in Int /\ (2 * e) % 2 = 0
    BY Division, Halves
  <1>2. EvenUp(v, g) = IF 2 >= 2 * e THEN 2 ELSE 2 * e
    BY DEF EvenUp, Greatest
  <1> HIDE DEF d, e
  <1> QED BY <1>1, <1>2

(* A whole frame, made even.                                                *)
LEMMA FrameDown ==
  ASSUME NEW n \in Nat, n >= 2
  PROVE  EvenDown(n, 1) >= 2 /\ EvenDown(n, 1) <= n /\ EvenDown(n, 1) \in Nat /\ EvenDown(n, 1) % 2 = 0
  <1>1. n \div 1 = n
    OBVIOUS
  <1>2. n \div 2 \in Int /\ 2 * (n \div 2) <= n /\ n <= 2 * (n \div 2) + 1
    BY Halves
  <1>3. EvenDown(n, 1) = 2 * (n \div 2)
    BY <1>1, <1>2 DEF EvenDown, Greatest
  <1>4. (2 * (n \div 2)) % 2 = 0
    BY <1>2, Halves
  <1> QED BY <1>2, <1>3, <1>4

-----------------------------------------------------------------------------
(* One axis of a crop from a mark: whatever the box, it is in the frame.    *)
LEMMA MarkedAxis ==
  ASSUME NEW frame \in Nat, frame >= 2, NEW g \in Nat \ {0},
         NEW v \in Int, NEW at \in Int,
         NEW w, w = Least(EvenUp(v, g), EvenDown(frame, 1)),
         NEW x, x = EvenDown(Least(at, g * (frame - w)), g)
  PROVE  w \in Nat /\ w % 2 = 0 /\ w >= 2 /\ x \in Nat /\ x >= 0 /\ x + w <= frame
  <1>1. w \in Nat /\ w % 2 = 0 /\ w >= 2 /\ w <= frame
    <2>1. EvenUp(v, g) \in Nat /\ EvenUp(v, g) >= 2 /\ EvenUp(v, g) % 2 = 0
      BY EvenUpIs
    <2>2. /\ EvenDown(frame, 1) >= 2 /\ EvenDown(frame, 1) <= frame
          /\ EvenDown(frame, 1) \in Nat /\ EvenDown(frame, 1) % 2 = 0
      BY FrameDown
    <2> QED BY <2>1, <2>2 DEF Least
  <1>2. frame - w \in Nat /\ g * (frame - w) \in Int
    BY <1>1
  <1>3. Least(at, g * (frame - w)) \in Int /\ Least(at, g * (frame - w)) <= g * (frame - w)
    BY <1>2, LeastGreatest
  <1>4. x \in Nat /\ x <= frame - w
    BY <1>2, <1>3, EvenDownIs
  <1> QED BY <1>1, <1>4

Ratio(r) == r[1] \in Nat \ {0} /\ r[2] \in Nat \ {0}

LEMMA MarkedPixelsInFrame ==
  ASSUME NEW width \in Nat, width >= 2, NEW height \in Nat, height >= 2,
         NEW mark, Natural(mark)
  PROVE  InFrame(MarkedRectPixels(width, height, mark), width, height)
  <1> DEFINE w == Least(EvenUp(mark.w * width, Marks), EvenDown(width, 1))
             h == Least(EvenUp(mark.h * height, Marks), EvenDown(height, 1))
             x == EvenDown(Least(mark.x * width, Marks * (width - w)), Marks)
             y == EvenDown(Least(mark.y * height, Marks * (height - h)), Marks)
  <1>1. /\ mark.w * width \in Int /\ mark.h * height \in Int
        /\ mark.x * width \in Int /\ mark.y * height \in Int
    BY DEF Natural
  <1>2. Marks \in Nat \ {0}
    BY FramingAssumption
  <1>3. w \in Nat /\ w % 2 = 0 /\ w >= 2 /\ x \in Nat /\ x >= 0 /\ x + w <= width
    BY <1>1, <1>2, MarkedAxis
  <1>4. h \in Nat /\ h % 2 = 0 /\ h >= 2 /\ y \in Nat /\ y >= 0 /\ y + h <= height
    BY <1>1, <1>2, MarkedAxis
  <1>5. MarkedRectPixels(width, height, mark) = [w |-> w, h |-> h, x |-> x, y |-> y]
    BY DEF MarkedRectPixels
  <1> HIDE DEF w, h, x, y
  <1> QED BY <1>3, <1>4, <1>5 DEF InFrame

(* Growing, shrinking and clamping give numbers; more is not asked of them. *)
LEMMA FitInsideIsASize ==
  ASSUME NEW size, size.w \in Int, size.h \in Int,
         NEW frame, frame.w \in Int, frame.h \in Int,
         NEW p \in Nat \ {0}, NEW q \in Nat \ {0}
  PROVE  FitInside(size, frame, p, q).w \in Int /\ FitInside(size, frame, p, q).h \in Int
  <1>1. (frame.w * q) \div p \in Int /\ (frame.h * p) \div q \in Int
    BY Division
  <1> QED BY <1>1 DEF FitInside

LEMMA ClampIsANumber ==
  ASSUME NEW a \in Int, NEW b \in Int, NEW c \in Int
  PROVE  Clamp(a, b, c) \in Int
  BY DEF Clamp, Least, Greatest

LEMMA MarkedCropInFrame ==
  ASSUME NEW width \in Nat, width >= 2, NEW height \in Nat, height >= 2,
         NEW mark, Natural(mark), NEW ratio, Ratio(ratio)
  PROVE  InFrame(CropFromMarkedRect(width, height, mark, ratio), width, height)
  <1> DEFINE p == ratio[1]
             q == ratio[2]
             grains == 2 * p * q * Marks
             box == [x |-> mark.x * width * 2 * p * q, y |-> mark.y * height * 2 * p * q,
                     w |-> mark.w * width * 2 * p * q, h |-> mark.h * height * 2 * p * q]
             grown == IF box.w * q < box.h * p
                      THEN [w |-> (box.h * p) \div q, h |-> box.h]
                      ELSE [w |-> box.w, h |-> (box.w * q) \div p]
             frame == [w |-> width * grains, h |-> height * grains]
             size == FitInside(grown, frame, p, q)
             left == Clamp(box.x + (box.w - size.w) \div 2, 0, width * grains - size.w)
             top == Clamp(box.y + (box.h - size.h) \div 2, 0, height * grains - size.h)
             w == Least(EvenUp(size.w, grains), EvenDown(width, 1))
             h == Least(EvenUp(size.h, grains), EvenDown(height, 1))
             x == EvenDown(Least(left, grains * (width - w)), grains)
             y == EvenDown(Least(top, grains * (height - h)), grains)
  <1>p. p \in Nat \ {0} /\ q \in Nat \ {0}
    BY DEF Ratio
  <1>g. grains \in Nat \ {0}
    <2>1. p * q \in Nat \ {0}
      BY <1>p
    <2>2. (p * q) * Marks \in Nat \ {0}
      BY <2>1, FramingAssumption
    <2>3. grains = 2 * ((p * q) * Marks)
      BY <1>p, FramingAssumption
    <2> QED BY <2>2, <2>3
  <1>b. box.x \in Int /\ box.y \in Int /\ box.w \in Int /\ box.h \in Int
    BY <1>p DEF Natural
  <1>c. CropFromMarkedRect(width, height, mark, ratio) = [w |-> w, h |-> h, x |-> x, y |-> y]
    BY DEF CropFromMarkedRect
  <1>f. frame.w \in Int /\ frame.h \in Int
    BY <1>g
  <1> HIDE DEF box
  <1>r. grown.w \in Int /\ grown.h \in Int
    <2>1. (box.h * p) \div q \in Int /\ (box.w * q) \div p \in Int
      BY <1>b, <1>p, Division
    <2> QED BY <1>b, <2>1
  <1> HIDE DEF grown, frame, p, q
  <1>s. size.w \in Int /\ size.h \in Int
    BY <1>f, <1>p, <1>r, FitInsideIsASize
  <1> HIDE DEF size, grains
  <1>t. left \in Int /\ top \in Int
    <2>1. (box.w - size.w) \div 2 \in Int /\ (box.h - size.h) \div 2 \in Int
      BY <1>b, <1>s, Halves
    <2>2. width * grains - size.w \in Int /\ height * grains - size.h \in Int
      BY <1>g, <1>s
    <2>3. /\ box.x + (box.w - size.w) \div 2 \in Int
          /\ box.y + (box.h - size.h) \div 2 \in Int
      BY <1>b, <2>1
    <2>4. left \in Int
      BY <2>2, <2>3, ClampIsANumber
    <2>5. top \in Int
      BY <2>2, <2>3, ClampIsANumber
    <2> QED BY <2>4, <2>5
  <1> HIDE DEF left, top
  <1>3. w \in Nat /\ w % 2 = 0 /\ w >= 2 /\ x \in Nat /\ x >= 0 /\ x + w <= width
    BY <1>g, <1>s, <1>t, MarkedAxis
  <1>4. h \in Nat /\ h % 2 = 0 /\ h >= 2 /\ y \in Nat /\ y >= 0 /\ y + h <= height
    BY <1>g, <1>s, <1>t, MarkedAxis
  <1> HIDE DEF w, h, x, y
  <1> QED BY <1>3, <1>4, <1>c DEF InFrame

-----------------------------------------------------------------------------
(* What a crop shows of a mark.                                             *)
LEMMA Times ==
  ASSUME NEW g \in Nat, NEW a \in Int, NEW b \in Int, a <= b
  PROVE  g * a \in Int /\ g * b \in Int /\ g * a <= g * b
  <1>1. b - a \in Nat
    OBVIOUS
  <1>2. g * (b - a) \in Nat
    BY <1>1
  <1>3. g * (b - a) = g * b - g * a
    OBVIOUS
  <1> QED BY <1>2, <1>3

LEMMA EvenDownNear ==
  ASSUME NEW v \in Nat, NEW g \in Nat \ {0}
  PROVE  g * EvenDown(v, g) <= v /\ v < g * (EvenDown(v, g) + 2)
  <1> DEFINE d == v \div g
             e == d \div 2
  <1>1. d \in Int /\ d >= 0 /\ g * d <= v /\ v < g * d + g
    BY Division, DivisionBounds
  <1>2. e \in Int /\ 2 * e <= d /\ d <= 2 * e + 1 /\ e >= 0
    BY <1>1, Halves, DivisionBounds
  <1>3. EvenDown(v, g) = 2 * e
    BY <1>2 DEF EvenDown, Greatest
  <1> HIDE DEF d, e
  <1>4. g * (2 * e) <= g * d
    BY <1>1, <1>2, Times
  <1>5. g * (d + 1) <= g * (2 * e + 2)
    BY <1>1, <1>2, Times
  <1>6. g * (d + 1) = g * d + g
    BY <1>1
  <1>7. g * d \in Int /\ g * (2 * e) \in Int /\ g * (2 * e + 2) \in Int
    BY <1>1, <1>2
  <1> QED BY <1>1, <1>3, <1>4, <1>5, <1>6, <1>7

LEMMA EvenUpNear ==
  ASSUME NEW v \in Nat, NEW g \in Nat \ {0}
  PROVE  v <= g * EvenUp(v, g)
  <1> DEFINE n == (-v) \div g
             d == -n
             e == (d + 1) \div 2
  <1>1. n \in Int /\ g * n <= -v
    BY Division
  <1>2. d \in Int /\ v <= g * d
    <2> HIDE DEF n
    <2>1. g * (-n) = -(g * n) /\ g * n \in Int
      BY <1>1
    <2> QED BY <1>1, <2>1
  <1>3. e \in Int /\ d + 1 <= 2 * e + 1
    <2> HIDE DEF d
    <2> QED BY <1>2, Halves
  <1>4. EvenUp(v, g) = Greatest(2, 2 * e)
    BY DEF EvenUp
  <1> HIDE DEF d, e
  <1>5. EvenUp(v, g) \in Int /\ d <= EvenUp(v, g)
    BY <1>2, <1>3, <1>4 DEF Greatest
  <1>6. g * d <= g * EvenUp(v, g) /\ g * d \in Int /\ g * EvenUp(v, g) \in Int
    BY <1>2, <1>5, Times
  <1> QED BY <1>2, <1>6

(* One axis: a length s from l on, in grains, lies in the pixels from x on, *)
(* but for two at its end.                                                  *)
LEMMA AxisShows ==
  ASSUME NEW frame \in Nat, frame >= 2, NEW g \in Nat \ {0},
         NEW l \in Nat, NEW s \in Nat, l + s <= g * frame,
         NEW w, w = Least(EvenUp(s, g), EvenDown(frame, 1)),
         NEW x, x = EvenDown(Least(l, g * (frame - w)), g)
  PROVE  g * x <= l /\ g * (x + w + 2) >= l + s
  <1> DEFINE v == Least(l, g * (frame - w))
             up == EvenUp(s, g)
             down == EvenDown(frame, 1)
  <1>1. up \in Nat /\ s <= g * up
    BY EvenUpIs, EvenUpNear
  <1>2. down \in Nat /\ down <= frame /\ frame <= down + 1
    <2>1. 1 * down <= frame /\ frame < 1 * (down + 2)
      BY EvenDownNear
    <2> QED BY <2>1, FrameDown
  <1>3. w \in Nat /\ w <= frame /\ (w = up \/ w = down)
    BY <1>1, <1>2 DEF Least
  <1>4. frame - w \in Nat /\ g * (frame - w) \in Nat
    BY <1>3
  <1>5. v \in Nat /\ v <= l /\ (v = l \/ v = g * (frame - w))
    BY <1>4, LeastGreatest
  <1>x. x = EvenDown(v, g)
    OBVIOUS
  <1> HIDE DEF v, up, down
  <1>6. g * x <= v /\ v < g * (x + 2) /\ x \in Nat
    BY <1>5, <1>x, EvenDownNear, EvenDownIs
  <1>7. g * (x + w + 2) = g * (x + 2) + g * w
    BY <1>3, <1>6
  <1>8. /\ g * w \in Int /\ g * (x + 2) \in Int /\ g * x \in Int /\ g * frame \in Int
        /\ g * (x + w + 2) \in Int
    BY <1>3, <1>6
  <1>9. CASE v = g * (frame - w)
    <2>1. g * (frame - w) = g * frame - g * w
      BY <1>3
    <2> QED BY <1>5, <1>6, <1>7, <1>8, <1>9, <2>1
  <1>10. CASE v = l /\ w = up
    BY <1>1, <1>6, <1>7, <1>8, <1>10
  <1>11. CASE w = down
    <2>1. g * frame <= g * (x + w + 2)
      <3>1. frame <= x + w + 2
        BY <1>2, <1>6, <1>11
      <3> QED BY <1>3, <1>6, <3>1, Times
    <2> QED BY <1>5, <1>6, <1>8, <2>1
  <1> QED BY <1>3, <1>5, <1>9, <1>10, <1>11

(* And the pixels are as many as the length takes, or all there are.        *)
LEMMA AxisIsWide ==
  ASSUME NEW frame \in Nat, frame >= 2, NEW g \in Nat \ {0}, NEW s \in Nat,
         NEW w, w = Least(EvenUp(s, g), EvenDown(frame, 1))
  PROVE  w \in Int /\ (s <= g * w \/ w = EvenDown(frame, 1))
  <1> DEFINE up == EvenUp(s, g)
             down == EvenDown(frame, 1)
  <1>1. up \in Nat /\ s <= g * up
    BY EvenUpIs, EvenUpNear
  <1>2. down \in Int
    BY EvenDownIs
  <1>3. w = up \/ w = down
    BY <1>1, <1>2 DEF Least
  <1> HIDE DEF up, down
  <1>4. w \in Int /\ (s <= g * w \/ w = down)
    BY <1>1, <1>2, <1>3
  <1> QED BY <1>4 DEF down

LEMMA Cancel ==
  ASSUME NEW g \in Nat \ {0}, NEW a \in Int, NEW b \in Int, g * a <= g * b
  PROVE  a <= b
  <1> SUFFICES ASSUME b + 1 <= a PROVE FALSE
    OBVIOUS
  <1>1. g * (b + 1) <= g * a
    BY Times
  <1>2. g * (b + 1) = g * b + g /\ g * b \in Int /\ g * a \in Int
    OBVIOUS
  <1> QED BY <1>1, <1>2

LEMMA MarkedPixelsShow ==
  ASSUME NEW width \in Nat, width >= 2, NEW height \in Nat, height >= 2,
         NEW mark, Natural(mark), OnTheFrame(mark)
  PROVE  LET crop == MarkedRectPixels(width, height, mark)
         IN Shows(crop, mark, width, height) /\ EndsWithin(crop, mark, width, height, 2)
  <1> DEFINE w == Least(EvenUp(mark.w * width, Marks), EvenDown(width, 1))
             h == Least(EvenUp(mark.h * height, Marks), EvenDown(height, 1))
             x == EvenDown(Least(mark.x * width, Marks * (width - w)), Marks)
             y == EvenDown(Least(mark.y * height, Marks * (height - h)), Marks)
  <1>1. /\ mark.w * width \in Nat /\ mark.h * height \in Nat
        /\ mark.x * width \in Nat /\ mark.y * height \in Nat
    BY DEF Natural
  <1>2. Marks \in Nat \ {0}
    BY FramingAssumption
  <1>3. /\ (mark.x + mark.w) * width = mark.x * width + mark.w * width
        /\ (mark.y + mark.h) * height = mark.y * height + mark.h * height
    BY DEF Natural
  <1>4. /\ (mark.x + mark.w) * width <= Marks * width
        /\ (mark.y + mark.h) * height <= Marks * height
    <2>1. /\ width * (mark.x + mark.w) <= width * Marks
          /\ height * (mark.y + mark.h) <= height * Marks
      BY <1>2, Times DEF Natural, OnTheFrame
    <2> QED BY <1>2, <2>1 DEF Natural
  <1>5. Marks * x <= mark.x * width /\ Marks * (x + w + 2) >= mark.x * width + mark.w * width
    BY <1>1, <1>2, <1>3, <1>4, AxisShows
  <1>6. Marks * y <= mark.y * height /\ Marks * (y + h + 2) >= mark.y * height + mark.h * height
    BY <1>1, <1>2, <1>3, <1>4, AxisShows
  <1>7. MarkedRectPixels(width, height, mark) = [w |-> w, h |-> h, x |-> x, y |-> y]
    BY DEF MarkedRectPixels
  <1>8. /\ w \in Int /\ (mark.w * width <= Marks * w \/ w = EvenDown(width, 1))
        /\ h \in Int /\ (mark.h * height <= Marks * h \/ h = EvenDown(height, 1))
    <2> DEFINE W == mark.w * width
               H == mark.h * height
    <2>1. W \in Nat /\ H \in Nat
      BY <1>1
    <2>2. w = Least(EvenUp(W, Marks), EvenDown(width, 1)) /\ h = Least(EvenUp(H, Marks), EvenDown(height, 1))
      OBVIOUS
    <2> HIDE DEF w, h, W, H
    <2>3. /\ w \in Int /\ (W <= Marks * w \/ w = EvenDown(width, 1))
          /\ h \in Int /\ (H <= Marks * h \/ h = EvenDown(height, 1))
      BY <1>2, <2>1, <2>2, AxisIsWide
    <2> QED BY <2>3 DEF W, H
  <1> HIDE DEF w, h, x, y
  <1>9. Marks * w \in Int /\ Marks * h \in Int
    BY <1>2, <1>8
  <1> QED BY <1>1, <1>3, <1>5, <1>6, <1>7, <1>8, <1>9 DEF Shows, EndsWithin

(* A length that is grown around its centre covers what it was grown from.  *)
LEMMA GrownAxis ==
  ASSUME NEW b \in Nat, NEW n \in Nat, NEW f \in Nat, b + n <= f,
         NEW s \in Nat, n <= s, s <= f,
         NEW l, l = Clamp(b + (n - s) \div 2, 0, f - s)
  PROVE  l \in Nat /\ l <= b /\ l + s >= b + n /\ l + s <= f
  <1> DEFINE c == (n - s) \div 2
  <1>1. c \in Int /\ 2 * c <= n - s /\ n - s <= 2 * c + 1
    BY Halves
  <1>2. l = Clamp(b + c, 0, f - s)
    OBVIOUS
  <1> HIDE DEF c
  <1> QED BY <1>1, <1>2 DEF Clamp, Greatest, Least

(* The box grown to the ratio: on one axis, and not out of the frame.       *)
Grown(bw, bh, p, q) ==
  IF bw * q < bh * p THEN [w |-> (bh * p) \div q, h |-> bh] ELSE [w |-> bw, h |-> (bw * q) \div p]

LEMMA GrownSize ==
  ASSUME NEW bw \in Nat, NEW bh \in Nat, NEW fw \in Nat, NEW fh \in Nat,
         NEW p \in Nat \ {0}, NEW q \in Nat \ {0},
         bw <= fw, bh <= fh, bw * q <= fh * p, bh * p <= fw * q
  PROVE  LET grown == Grown(bw, bh, p, q)
         IN /\ grown.w \in Nat /\ bw <= grown.w /\ grown.w <= fw
            /\ grown.h \in Nat /\ bh <= grown.h /\ grown.h <= fh
            /\ FitInside(grown, [w |-> fw, h |-> fh], p, q) = grown
  <1> DEFINE grown == Grown(bw, bh, p, q)
             a == (bh * p) \div q
             b == (bw * q) \div p
  <1>1. /\ a \in Int /\ q * a <= bh * p /\ bh * p < q * a + q
        /\ b \in Int /\ p * b <= bw * q /\ bw * q < p * b + p
        /\ bh * p \in Nat /\ bw * q \in Nat
    BY Division
  <1>2. a >= 0 /\ a <= fw /\ b >= 0 /\ b <= fh
    <2> DEFINE m == bh * p
               n == bw * q
    <2>1. m \in Nat /\ n \in Nat /\ a = m \div q /\ b = n \div p
      BY <1>1
    <2>2. m <= q * fw /\ n <= p * fh
      OBVIOUS
    <2> HIDE DEF a, b, m, n
    <2>3. a >= 0 /\ a <= fw
      BY <2>1, <2>2, DivisionBounds
    <2>4. b >= 0 /\ b <= fh
      BY <2>1, <2>2, DivisionBounds
    <2> QED BY <2>3, <2>4
  <1>3. grown = IF bw * q < bh * p THEN [w |-> a, h |-> bh] ELSE [w |-> bw, h |-> b]
    BY DEF Grown
  <1> HIDE DEF a, b, grown
  <1>4. ASSUME bw * q < bh * p PROVE bw <= a
    <2>1. q * bw <= q * (a + 1) /\ q * (a + 1) = q * a + q /\ q * bw = bw * q
      BY <1>1, <1>4
    <2>2. ASSUME a + 1 <= bw PROVE FALSE
      <3>1. q * (a + 1) <= q * bw
        BY <1>1, <2>2, Times
      <3> QED BY <1>1, <1>4, <2>1, <3>1
    <2> QED BY <1>1, <2>2
  <1>5. ASSUME ~(bw * q < bh * p) PROVE bh <= b
    <2>1. p * (b + 1) = p * b + p /\ p * bh = bh * p
      BY <1>1
    <2>2. ASSUME b + 1 <= bh PROVE FALSE
      <3>1. p * (b + 1) <= p * bh
        BY <1>1, <2>2, Times
      <3> QED BY <1>1, <1>5, <2>1, <3>1
    <2> QED BY <1>1, <2>2
  <1>6. /\ grown.w \in Nat /\ bw <= grown.w /\ grown.w <= fw
        /\ grown.h \in Nat /\ bh <= grown.h /\ grown.h <= fh
    BY <1>1, <1>2, <1>3, <1>4, <1>5
  <1>7. FitInside(grown, [w |-> fw, h |-> fh], p, q) = grown
    BY <1>6 DEF FitInside
  <1> QED BY <1>6, <1>7 DEF grown

(* A region that is drawn is shown by its panel, if it fits the frame when  *)
(* it is grown to the panel's ratio.                                        *)
LEMMA MarkedCropShows ==
  ASSUME NEW width \in Nat, width >= 2, NEW height \in Nat, height >= 2,
         NEW mark, Natural(mark), OnTheFrame(mark),
         NEW ratio, Ratio(ratio), Fits(mark, width, height, ratio)
  PROVE  LET crop == CropFromMarkedRect(width, height, mark, ratio)
         IN Shows(crop, mark, width, height) /\ EndsWithin(crop, mark, width, height, 2)
  <1> DEFINE p == ratio[1]
             q == ratio[2]
             k == 2 * p * q
             grains == 2 * p * q * Marks
             box == [x |-> mark.x * width * 2 * p * q, y |-> mark.y * height * 2 * p * q,
                     w |-> mark.w * width * 2 * p * q, h |-> mark.h * height * 2 * p * q]
             grown == IF box.w * q < box.h * p
                      THEN [w |-> (box.h * p) \div q, h |-> box.h]
                      ELSE [w |-> box.w, h |-> (box.w * q) \div p]
             fw == width * grains
             fh == height * grains
             size == FitInside(grown, [w |-> fw, h |-> fh], p, q)
             left == Clamp(box.x + (box.w - size.w) \div 2, 0, fw - size.w)
             top == Clamp(box.y + (box.h - size.h) \div 2, 0, fh - size.h)
             w == Least(EvenUp(size.w, grains), EvenDown(width, 1))
             h == Least(EvenUp(size.h, grains), EvenDown(height, 1))
             x == EvenDown(Least(left, grains * (width - w)), grains)
             y == EvenDown(Least(top, grains * (height - h)), grains)
             X == mark.x * width
             Y == mark.y * height
             W == mark.w * width
             H == mark.h * height
             FW == Marks * width
             FH == Marks * height
  <1>c. CropFromMarkedRect(width, height, mark, ratio) = [w |-> w, h |-> h, x |-> x, y |-> y]
    BY DEF CropFromMarkedRect
  <1>m. Marks \in Nat \ {0}
    BY FramingAssumption
  <1>p. p \in Nat \ {0} /\ q \in Nat \ {0} /\ p * q \in Nat \ {0}
    <2>1. p \in Nat \ {0} /\ q \in Nat \ {0}
      BY DEF Ratio
    <2> HIDE DEF p, q
    <2> QED BY <2>1
  <1>n. mark.x \in Nat /\ mark.y \in Nat /\ mark.w \in Nat /\ mark.h \in Nat
    BY DEF Natural
  <1>f. W * q <= FH * p /\ H * p <= FW * q
    <2>1. W * q <= height * Marks * p /\ H * p <= width * Marks * q
      BY DEF Fits
    <2>2. FH = height * Marks /\ FW = width * Marks
      BY <1>m
    <2> QED BY <2>1, <2>2
  <1> HIDE DEF p, q
  <1>k. k \in Nat \ {0} /\ grains = k * Marks /\ grains \in Nat \ {0}
    <2>1. k = 2 * (p * q)
      BY <1>p
    <2>2. k \in Nat \ {0}
      BY <1>p, <2>1
    <2> HIDE DEF k
    <2>3. k * Marks \in Nat \ {0}
      BY <2>2, <1>m
    <2>4. grains = k * Marks
      BY DEF k
    <2> QED BY <2>2, <2>3, <2>4
  <1>1. /\ X \in Nat /\ Y \in Nat /\ W \in Nat /\ H \in Nat /\ FW \in Nat /\ FH \in Nat
        /\ X + W <= FW /\ Y + H <= FH
    <2>1. /\ width * (mark.x + mark.w) <= width * Marks
          /\ height * (mark.y + mark.h) <= height * Marks
      BY <1>m, <1>n, Times DEF OnTheFrame
    <2>2. /\ width * (mark.x + mark.w) = X + W /\ height * (mark.y + mark.h) = Y + H
          /\ width * Marks = FW /\ height * Marks = FH
      BY <1>m, <1>n
    <2> QED BY <1>m, <1>n, <2>1, <2>2
  <1>2. box.x = k * X /\ box.y = k * Y /\ box.w = k * W /\ box.h = k * H
    BY <1>n, <1>p
  <1>3. fw = k * FW /\ fh = k * FH
    <2>1. fw = width * (k * Marks) /\ fh = height * (k * Marks)
      BY <1>k
    <2> HIDE DEF k, grains, fw, fh
    <2> QED BY <1>k, <1>m, <2>1
  <1> HIDE DEF X, Y, W, H, FW, FH, k, fw, fh, box
  <1>4. /\ box.x \in Nat /\ box.y \in Nat /\ box.w \in Nat /\ box.h \in Nat
        /\ fw \in Nat /\ fh \in Nat
    BY <1>1, <1>2, <1>3, <1>k
  <1>5. box.x + box.w <= fw /\ box.y + box.h <= fh
    <2>1. k * (X + W) <= k * FW /\ k * (Y + H) <= k * FH
      BY <1>1, <1>k, Times
    <2>2. k * (X + W) = k * X + k * W /\ k * (Y + H) = k * Y + k * H
      BY <1>1, <1>k
    <2> QED BY <1>2, <1>3, <2>1, <2>2
  <1>6. box.w * q <= fh * p /\ box.h * p <= fw * q
    <2>1. W * q \in Int /\ FH * p \in Int /\ H * p \in Int /\ FW * q \in Int
      BY <1>1, <1>p
    <2>2. k * (W * q) <= k * (FH * p) /\ k * (H * p) <= k * (FW * q)
      BY <1>f, <1>k, <2>1, Times
    <2>3. /\ k * (W * q) = (k * W) * q /\ k * (FH * p) = (k * FH) * p
          /\ k * (H * p) = (k * H) * p /\ k * (FW * q) = (k * FW) * q
      BY <1>1, <1>k, <1>p
    <2> QED BY <1>2, <1>3, <2>2, <2>3
  <1>7. /\ grown.w \in Nat /\ box.w <= grown.w /\ grown.w <= fw
        /\ grown.h \in Nat /\ box.h <= grown.h /\ grown.h <= fh
        /\ size = grown
    <2> DEFINE bw == box.w
               bh == box.h
    <2>1. /\ bw \in Nat /\ bh \in Nat /\ fw \in Nat /\ fh \in Nat /\ bw <= fw /\ bh <= fh
          /\ bw * q <= fh * p /\ bh * p <= fw * q
      BY <1>4, <1>5, <1>6
    <2>p. p \in Nat \ {0} /\ q \in Nat \ {0}
      BY <1>p
    <2>2. grown = Grown(bw, bh, p, q)
      BY DEF Grown
    <2>3. size = FitInside(grown, [w |-> fw, h |-> fh], p, q)
      OBVIOUS
    <2> HIDE DEF size, grown, bw, bh
    <2>4. /\ grown.w \in Nat /\ bw <= grown.w /\ grown.w <= fw
          /\ grown.h \in Nat /\ bh <= grown.h /\ grown.h <= fh
          /\ FitInside(grown, [w |-> fw, h |-> fh], p, q) = grown
      <3> DEFINE G == Grown(bw, bh, p, q)
      <3>1. /\ G.w \in Nat /\ bw <= G.w /\ G.w <= fw
            /\ G.h \in Nat /\ bh <= G.h /\ G.h <= fh
            /\ FitInside(G, [w |-> fw, h |-> fh], p, q) = G
        BY <2>p, <2>1, GrownSize
      <3> HIDE DEF G
      <3>2. grown = G
        BY <2>2 DEF G
      <3> QED BY <3>1, <3>2
    <2> QED BY <2>3, <2>4 DEF bw, bh
  <1> HIDE DEF grown
  <1>8. size.w \in Nat /\ box.w <= size.w /\ size.w <= fw
    BY <1>7
  <1>9. size.h \in Nat /\ box.h <= size.h /\ size.h <= fh
    BY <1>7
  <1> HIDE DEF size
  <1>10. left \in Nat /\ left <= box.x /\ left + size.w >= box.x + box.w /\ left + size.w <= fw
    BY <1>4, <1>5, <1>8, GrownAxis
  <1>11. top \in Nat /\ top <= box.y /\ top + size.h >= box.y + box.h /\ top + size.h <= fh
    BY <1>4, <1>5, <1>9, GrownAxis
  <1> HIDE DEF left, top
  <1>12. fw = grains * width /\ fh = grains * height
    BY <1>k DEF fw, fh
  <1> HIDE DEF grains
  <1>13. grains * x <= left /\ grains * (x + w + 2) >= left + size.w
    BY <1>k, <1>8, <1>10, <1>12, AxisShows
  <1>14. grains * y <= top /\ grains * (y + h + 2) >= top + size.h
    BY <1>k, <1>9, <1>11, <1>12, AxisShows
  <1>e. /\ size.w <= grains * w \/ w = EvenDown(width, 1)
        /\ size.h <= grains * h \/ h = EvenDown(height, 1)
    <2> DEFINE W1 == size.w
               H1 == size.h
    <2>1. W1 \in Nat /\ H1 \in Nat /\ grains \in Nat \ {0}
      BY <1>k, <1>8, <1>9
    <2>2. w = Least(EvenUp(W1, grains), EvenDown(width, 1)) /\ h = Least(EvenUp(H1, grains), EvenDown(height, 1))
      OBVIOUS
    <2> HIDE DEF w, h, W1, H1
    <2>3. /\ W1 <= grains * w \/ w = EvenDown(width, 1)
          /\ H1 <= grains * h \/ h = EvenDown(height, 1)
      BY <2>1, <2>2, AxisIsWide
    <2> QED BY <2>3 DEF W1, H1
  <1>15. w \in Int /\ h \in Int /\ x \in Int /\ y \in Int
    <2>g. grains \in Nat \ {0}
      BY <1>k
    <2>1. /\ EvenUp(size.w, grains) \in Int /\ EvenUp(size.h, grains) \in Int
      <3> DEFINE a == size.w
                 b == size.h
      <3>1. a \in Int /\ b \in Int
        BY <1>8, <1>9
      <3> HIDE DEF a, b
      <3>2. EvenUp(a, grains) \in Int /\ EvenUp(b, grains) \in Int
        BY <2>g, <3>1, EvenUpIs
      <3> QED BY <3>2 DEF a, b
    <2>2. EvenDown(width, 1) \in Int /\ EvenDown(height, 1) \in Int
      BY EvenDownIs
    <2>3. w \in Int /\ h \in Int
      BY <2>1, <2>2, LeastGreatest
    <2> DEFINE a == Least(left, grains * (width - w))
               b == Least(top, grains * (height - h))
    <2>4. x = EvenDown(a, grains) /\ y = EvenDown(b, grains)
      OBVIOUS
    <2> HIDE DEF w, h, x, y
    <2>5. a \in Int /\ b \in Int
      <3>1. grains * (width - w) \in Int /\ grains * (height - h) \in Int
        BY <1>k, <2>3
      <3> QED BY <1>10, <1>11, <3>1, LeastGreatest
    <2> HIDE DEF a, b
    <2> QED BY <2>g, <2>3, <2>4, <2>5, EvenDownIs
  <1> HIDE DEF w, h, x, y
  <1>16. Marks * x <= X /\ X + W <= Marks * (x + w + 2)
    <2>1. k * (Marks * x) <= k * X
      BY <1>2, <1>4, <1>10, <1>13, <1>15, <1>k, <1>m
    <2>2. k * (X + W) <= k * (Marks * (x + w + 2))
      <3>1. k * (X + W) = box.x + box.w
        BY <1>1, <1>2, <1>k
      <3>2. k * (Marks * (x + w + 2)) = grains * (x + w + 2)
        BY <1>15, <1>k, <1>m
      <3> QED BY <1>4, <1>8, <1>10, <1>13, <1>15, <1>k, <3>1, <3>2
    <2> QED BY <1>1, <1>15, <1>k, <1>m, <2>1, <2>2, Cancel
  <1>17. Marks * y <= Y /\ Y + H <= Marks * (y + h + 2)
    <2>1. k * (Marks * y) <= k * Y
      BY <1>2, <1>4, <1>11, <1>14, <1>15, <1>k, <1>m
    <2>2. k * (Y + H) <= k * (Marks * (y + h + 2))
      <3>1. k * (Y + H) = box.y + box.h
        BY <1>1, <1>2, <1>k
      <3>2. k * (Marks * (y + h + 2)) = grains * (y + h + 2)
        BY <1>15, <1>k, <1>m
      <3> QED BY <1>4, <1>9, <1>11, <1>14, <1>15, <1>k, <3>1, <3>2
    <2> QED BY <1>1, <1>15, <1>k, <1>m, <2>1, <2>2, Cancel
  <1>18. (mark.x + mark.w) * width = X + W /\ (mark.y + mark.h) * height = Y + H
    BY <1>n DEF X, Y, W, H
  <1>19. W <= Marks * w \/ w = EvenDown(width, 1)
    <2>1. ASSUME size.w <= grains * w PROVE W <= Marks * w
      <3>1. k * W <= k * (Marks * w)
        BY <1>2, <1>4, <1>8, <1>15, <1>k, <1>m, <2>1
      <3> QED BY <1>1, <1>15, <1>k, <1>m, <3>1, Cancel
    <2> QED BY <1>e, <2>1
  <1>20. H <= Marks * h \/ h = EvenDown(height, 1)
    <2>1. ASSUME size.h <= grains * h PROVE H <= Marks * h
      <3>1. k * H <= k * (Marks * h)
        BY <1>2, <1>4, <1>9, <1>15, <1>k, <1>m, <2>1
      <3> QED BY <1>1, <1>15, <1>k, <1>m, <3>1, Cancel
    <2> QED BY <1>e, <2>1
  <1>21. Marks * w \in Int /\ Marks * h \in Int
    BY <1>15, <1>m
  <1> DEFINE crop == [w |-> w, h |-> h, x |-> x, y |-> y]
  <1>22. Shows(crop, mark, width, height)
    BY <1>1, <1>16, <1>17, <1>19, <1>20, <1>21 DEF Shows, X, Y, W, H
  <1>23. EndsWithin(crop, mark, width, height, 2)
    BY <1>16, <1>17, <1>18 DEF EndsWithin
  <1> QED BY <1>22, <1>23, <1>c

-----------------------------------------------------------------------------
(* A window that is cut at a ratio, and put where the job's bias, a face or *)
(* the middle says.                                                         *)
CutOut(size, width, height) ==
  /\ size.w \in Nat /\ size.w >= 2 /\ size.w % 2 = 0 /\ size.w <= width
  /\ size.h \in Nat /\ size.h >= 2 /\ size.h % 2 = 0 /\ size.h <= height
Point(point) == point = <<>> \/ (point[1] \in Int /\ point[2] \in Int)

LEMMA VerticalCropIsAWindow ==
  ASSUME NEW width \in Nat, width >= 2, NEW height \in Nat, height >= 2,
         NEW ratio, Ratio(ratio)
  PROVE  CutOut(VerticalCrop(width, height, ratio), width, height)
  <1> DEFINE p == ratio[1]
             q == ratio[2]
  <1>p. p \in Nat \ {0} /\ q \in Nat \ {0}
    BY DEF Ratio
  <1>d. VerticalCrop(width, height, ratio) =
          IF width * q > height * p
          THEN [w |-> Even((height * p) \div q), h |-> Even(height)]
          ELSE [w |-> Even(width), h |-> Even((width * q) \div p)]
    BY DEF VerticalCrop
  <1> HIDE DEF p, q
  <1>e. /\ Even(width) \in Nat /\ Even(width) >= 2 /\ Even(width) % 2 = 0 /\ Even(width) <= width
        /\ Even(height) \in Nat /\ Even(height) >= 2 /\ Even(height) % 2 = 0 /\ Even(height) <= height
    BY EvenIs
  <1>1. CASE width * q > height * p
    <2> DEFINE n == (height * p) \div q
    <2>1. n \in Int
      BY <1>p, Division
    <2>2. height * p \in Int /\ height * p <= q * width
      BY <1>1, <1>p
    <2>3. n <= width
      BY <1>p, <2>2, DivisionBounds
    <2> HIDE DEF n
    <2>4. Even(n) \in Int /\ Even(n) >= 2 /\ Even(n) % 2 = 0 /\ Even(n) <= width
      BY <2>1, <2>3, EvenIs
    <2>5. VerticalCrop(width, height, ratio) = [w |-> Even(n), h |-> Even(height)]
      BY <1>1, <1>d DEF n
    <2> QED BY <1>e, <2>4, <2>5 DEF CutOut
  <1>2. CASE ~(width * q > height * p)
    <2> DEFINE n == (width * q) \div p
    <2>1. n \in Int
      BY <1>p, Division
    <2>2. width * q \in Int /\ width * q <= p * height
      BY <1>2, <1>p
    <2>3. n <= height
      BY <1>p, <2>2, DivisionBounds
    <2> HIDE DEF n
    <2>4. Even(n) \in Int /\ Even(n) >= 2 /\ Even(n) % 2 = 0 /\ Even(n) <= height
      BY <2>1, <2>3, EvenIs
    <2>5. VerticalCrop(width, height, ratio) = [w |-> Even(width), h |-> Even(n)]
      BY <1>2, <1>d DEF n
    <2> QED BY <1>e, <2>4, <2>5 DEF CutOut
  <1> QED BY <1>1, <1>2

LEMMA PlacedInFrame ==
  ASSUME NEW width \in Nat, NEW height \in Nat, NEW size, CutOut(size, width, height),
         NEW point, Point(point), NEW bias
  PROVE  InFrame(Placed(size, CropOffset(width, height, size, point, bias)), width, height)
  <1> DEFINE at == CropOffset(width, height, size, point, bias)
             w == width - size.w
             h == height - size.h
  <1>1. w \in Nat /\ h \in Nat
    BY DEF CutOut
  <1>2. w \div 2 \in 0..w /\ h \div 2 \in 0..h
    BY <1>1, Halves
  <1>3. at.x \in 0..w /\ at.y \in 0..h
    <2>1. CASE bias # "none"
      <3> DEFINE biased == CASE bias = "left"   -> 0
                             [] bias = "right"  -> width - size.w
                             [] OTHER           -> w \div 2
      <3>1. biased \in 0..w
        BY <1>1, <1>2
      <3>2. at = [x |-> Greatest(0, Least(biased, w)), y |-> h \div 2]
        BY <2>1 DEF CropOffset
      <3> HIDE DEF biased
      <3> QED BY <1>1, <1>2, <3>1, <3>2 DEF Greatest, Least
    <2>2. CASE bias = "none" /\ point = <<>>
      <3>1. at = [x |-> w \div 2, y |-> h \div 2]
        BY <2>2 DEF CropOffset
      <3> QED BY <1>2, <3>1
    <2>3. CASE bias = "none" /\ point # <<>>
      <3> DEFINE a == point[1] - size.w \div 2
                 b == point[2] - size.h \div 2
      <3>1. a \in Int /\ b \in Int
        <4>1. size.w \div 2 \in Int /\ size.h \div 2 \in Int
          BY Halves DEF CutOut
        <4>2. point[1] \in Int /\ point[2] \in Int
          BY <2>3 DEF Point
        <4> QED BY <4>1, <4>2
      <3>2. at = [x |-> IF size.w < width THEN Clamp(a, 0, w) ELSE 0,
                  y |-> IF size.h < height THEN Clamp(b, 0, h) ELSE 0]
        BY <2>3 DEF CropOffset
      <3> HIDE DEF a, b
      <3> QED BY <1>1, <3>1, <3>2 DEF Clamp, Greatest, Least
    <2> QED BY <2>1, <2>2, <2>3
  <1>4. Placed(size, at) = [w |-> size.w, h |-> size.h, x |-> at.x, y |-> at.y]
    BY DEF Placed
  <1> HIDE DEF at
  <1>5. InFrame(Placed(size, at), width, height)
    BY <1>1, <1>3, <1>4 DEF InFrame, CutOut
  <1> QED BY <1>5 DEF at


LEMMA FaceZoomInFrame ==
  ASSUME NEW width \in Nat, width >= 2, NEW height \in Nat, height >= 2,
         NEW face, face.side \in Nat, Point(face.center), NEW ratio, Ratio(ratio)
  PROVE  InFrame(FaceZoomCrop(width, height, face, ratio), width, height)
  <1> DEFINE p == ratio[1]
             q == ratio[2]
             grains == 10 * p * q
             high == Greatest(face.side * 32 * p * q, 20 * grains)
             start == [w |-> (high * p) \div q, h |-> high]
             frame == [w |-> width * grains, h |-> height * grains]
             size == FitInside(start, frame, p, q)
             even == [w |-> Least(Even(size.w \div grains), Even(width)),
                      h |-> Least(Even(size.h \div grains), Even(height))]
  <1>p. p \in Nat \ {0} /\ q \in Nat \ {0}
    BY DEF Ratio
  <1>c. FaceZoomCrop(width, height, face, ratio)
          = Placed(even, CropOffset(width, height, even, face.center, "none"))
    BY DEF FaceZoomCrop
  <1>g. grains \in Nat \ {0}
    <2>1. p * q \in Nat \ {0}
      BY <1>p
    <2>2. grains = 10 * (p * q)
      BY <1>p
    <2> QED BY <2>1, <2>2
  <1>f. frame.w \in Int /\ frame.h \in Int
    BY <1>g
  <1>h. high \in Int
    <2>1. face.side * 32 * p * q \in Int /\ 20 * grains \in Int
      BY <1>g, <1>p
    <2> QED BY <2>1, LeastGreatest
  <1> HIDE DEF p, q, grains, high
  <1>s. start.w \in Int /\ start.h \in Int
    <2>1. (high * p) \div q \in Int
      BY <1>h, <1>p, Division
    <2> QED BY <1>h, <2>1
  <1> HIDE DEF start, frame
  <1>z. size.w \in Int /\ size.h \in Int
    BY <1>f, <1>p, <1>s, FitInsideIsASize
  <1> HIDE DEF size
  <1>w. CutOut(even, width, height)
    <2>1. size.w \div grains \in Int /\ size.h \div grains \in Int
      BY <1>g, <1>z, Division
    <2> DEFINE a == size.w \div grains
               b == size.h \div grains
    <2> HIDE DEF a, b
    <2>2. /\ Even(a) \in Int /\ Even(a) >= 2 /\ Even(a) % 2 = 0
          /\ Even(b) \in Int /\ Even(b) >= 2 /\ Even(b) % 2 = 0
      BY <2>1, EvenIs DEF a, b
    <2>3. /\ Even(width) \in Int /\ Even(width) >= 2 /\ Even(width) % 2 = 0 /\ Even(width) <= width
          /\ Even(height) \in Int /\ Even(height) >= 2 /\ Even(height) % 2 = 0 /\ Even(height) <= height
      BY EvenIs
    <2>4. even.w = Least(Even(a), Even(width)) /\ even.h = Least(Even(b), Even(height))
      BY DEF a, b
    <2> QED BY <2>2, <2>3, <2>4 DEF CutOut, Least
  <1> HIDE DEF even
  <1> QED BY <1>c, <1>w, PlacedInFrame

-----------------------------------------------------------------------------
(* The two panels of a split lie on each other without a gap, and both are  *)
(* even and not empty, whatever facecam fraction a job or the settings give *)
(* (the heights in workers/rendering.py's run).                             *)
THEOREM PanelsMakeThePicture ==
  ASSUME NEW percent \in Int
  PROVE  /\ CamPanel(percent) + MainPanel(percent) = TargetHeight
         /\ CamPanel(percent) \in Nat /\ CamPanel(percent) % 2 = 0 /\ CamPanel(percent) >= 2
         /\ MainPanel(percent) \in Nat /\ MainPanel(percent) % 2 = 0 /\ MainPanel(percent) >= 2
  <1> DEFINE f == Clamp(percent, 20, 80)
             n == (TargetHeight * f) \div 100
             H == TargetHeight
             m == H \div 2
  <1>1. f \in 20..80
    BY DEF Clamp, Greatest, Least
  <1>2. H \in Nat /\ H > 8 /\ H = 2 * m
    BY FramingAssumption
  <1>3. CamPanel(percent) = 2 * (n \div 2) /\ MainPanel(percent) = H - CamPanel(percent)
    BY DEF CamPanel, MainPanel
  <1>4. 20 * H <= H * f /\ H * f <= 80 * H /\ H * f \in Int
    BY <1>1, <1>2
  <1>5. n \in Int /\ 100 * n <= H * f /\ H * f < 100 * n + 100
    BY <1>4, Division
  <1>6. m \in Int
    BY <1>2, Halves
  <1> HIDE DEF f, n, H, m
  <1>7. H >= 10 /\ n >= 2 /\ 10 * n <= 8 * H
    BY <1>2, <1>4, <1>5, <1>6
  <1>8. n \div 2 \in Int /\ 2 * (n \div 2) <= n /\ n <= 2 * (n \div 2) + 1
    BY <1>5, Halves
  <1>9. CamPanel(percent) \in Nat /\ CamPanel(percent) >= 2 /\ MainPanel(percent) \in Nat /\ MainPanel(percent) >= 2
    <2> DEFINE k == n \div 2
    <2>1. CamPanel(percent) = 2 * k /\ MainPanel(percent) = H - 2 * k
      BY <1>3
    <2>2. k \in Int /\ 2 * k <= n /\ n <= 2 * k + 1
      BY <1>8
    <2> HIDE DEF k
    <2>3. k >= 1 /\ H - 2 * k >= 2
      BY <1>2, <1>5, <1>7, <2>2
    <2> QED BY <1>2, <2>1, <2>2, <2>3
  <1>10. CamPanel(percent) % 2 = 0
    BY <1>3, <1>8, Halves
  <1>11. MainPanel(percent) % 2 = 0
    <2>1. MainPanel(percent) = 2 * (m - n \div 2)
      BY <1>2, <1>3, <1>6, <1>8
    <2>2. m - n \div 2 \in Int
      BY <1>6, <1>8
    <2> QED BY <2>1, <2>2, Halves
  <1>12. CamPanel(percent) + MainPanel(percent) = H
    BY <1>2, <1>3, <1>9
  <1> QED BY <1>9, <1>10, <1>11, <1>12 DEF H

LEMMA PanelRatios ==
  ASSUME NEW in, FramingIn(in)
  PROVE  Ratio(CamRatio(in)) /\ Ratio(MainRatio(in)) /\ Ratio(<<TargetWidth, TargetHeight>>)
  <1>1. /\ CamPanel(in.fraction) \in Nat /\ CamPanel(in.fraction) >= 2
        /\ MainPanel(in.fraction) \in Nat /\ MainPanel(in.fraction) >= 2
    BY PanelsMakeThePicture DEF FramingIn
  <1> QED BY <1>1, FramingAssumption DEF Ratio, CamRatio, MainRatio

(* A face is only zoomed in on when it was found.                           *)
LEMMA SplitNeedsACam ==
  ASSUME NEW in, Layout(in) = "split_reaction", ~MarkedCam(in)
  PROVE  in.face # <<>>
  BY DEF Layout

(* Every crop of every layout is inside the source frame, even and not      *)
(* empty, so that ffmpeg's crop filter and x264 take it (the filtergraphs   *)
(* of workers/rendering.py with core/rendering_logic.py).                   *)
THEOREM CropsInFrame ==
  ASSUME NEW in, FramingIn(in), NEW crop \in Crops(in)
  PROVE  InFrame(crop[2], in.width, in.height)
  <1> DEFINE width == in.width
             height == in.height
  <1>f. width \in Nat /\ width >= 2 /\ height \in Nat /\ height >= 2
    BY DEF FramingIn
  <1>r. Ratio(CamRatio(in)) /\ Ratio(MainRatio(in)) /\ Ratio(<<TargetWidth, TargetHeight>>) /\ Ratio(Vertical)
    BY PanelRatios, FramingAssumption DEF Ratio
  <1>c. MarkedCam(in) => Natural(in.facecam)
    BY DEF MarkedCam, FramingIn
  <1>m. MarkedMain(in) => Natural(in.gameplay)
    BY DEF MarkedMain, FramingIn
  <1>1. ASSUME MarkedMain(in), NEW ratio, Ratio(ratio)
        PROVE  InFrame(CropFromMarkedRect(width, height, in.gameplay, ratio), width, height)
    BY <1>1, <1>f, <1>m, MarkedCropInFrame
  <1>2. ASSUME NEW ratio, Ratio(ratio), NEW point, Point(point)
        PROVE  LET size == VerticalCrop(width, height, ratio)
               IN InFrame(Placed(size, CropOffset(width, height, size, point, in.bias)), width, height)
    <2>1. CutOut(VerticalCrop(width, height, ratio), width, height)
      BY <1>2, <1>f, VerticalCropIsAWindow
    <2> QED BY <1>2, <1>f, <2>1, PlacedInFrame
  <1>3. CASE Layout(in) = "split_reaction"
    <2>1. InFrame(CamCrop(in), width, height)
      <3>1. CASE MarkedCam(in)
        BY <1>c, <1>f, <1>r, <3>1, MarkedCropInFrame DEF CamCrop
      <3>2. CASE ~MarkedCam(in)
        <4>1. in.face.side \in Nat /\ Point(in.face.center)
          BY <1>3, <3>2, SplitNeedsACam DEF FramingIn, Point
        <4> QED BY <1>f, <1>r, <3>2, <4>1, FaceZoomInFrame DEF CamCrop
      <3> QED BY <3>1, <3>2
    <2>2. InFrame(MainCrop(in), width, height)
      <3>1. CASE MarkedMain(in)
        BY <1>1, <1>r, <3>1 DEF MainCrop
      <3>2. CASE ~MarkedMain(in)
        <4>1. Point(<<>>)
          BY DEF Point
        <4> QED BY <1>2, <1>r, <3>2, <4>1 DEF MainCrop
      <3> QED BY <3>1, <3>2
    <2>3. crop = <<"cam", CamCrop(in)>> \/ crop = <<"main", MainCrop(in)>>
      BY <1>3 DEF Crops
    <2> QED BY <2>1, <2>2, <2>3
  <1>4. CASE Layout(in) = "single_crop"
    <2>1. InFrame(SingleCrop(in), width, height)
      <3>1. CASE MarkedMain(in)
        BY <1>1, <1>r, <3>1 DEF SingleCrop
      <3>2. CASE ~MarkedMain(in)
        <4> DEFINE point == IF in.face = <<>> THEN <<>> ELSE in.face.center
        <4>1. Point(point)
          BY DEF Point, FramingIn
        <4> HIDE DEF point
        <4>2. LET size == VerticalCrop(width, height, Vertical)
              IN InFrame(Placed(size, CropOffset(width, height, size, point, in.bias)), width, height)
          BY <1>2, <1>r, <4>1
        <4> QED BY <3>2, <4>2 DEF SingleCrop, point
      <3> QED BY <3>1, <3>2
    <2>2. crop = <<"full", SingleCrop(in)>>
      BY <1>4 DEF Crops
    <2> QED BY <2>1, <2>2
  <1>5. CASE Layout(in) \notin {"split_reaction", "single_crop"}
    <2>1. MarkedMain(in) /\ crop = <<"fit", MarkedRectPixels(width, height, in.gameplay)>>
      BY <1>5 DEF Crops
    <2>2. InFrame(MarkedRectPixels(width, height, in.gameplay), width, height)
      BY <1>f, <1>m, <2>1, MarkedPixelsInFrame
    <2> QED BY <2>1, <2>2
  <1> QED BY <1>3, <1>4, <1>5

(* Whatever is cut out at a mark that fits the frame when it is grown to    *)
(* its panel's ratio is not tighter than the mark and cuts nothing off its  *)
(* left or top, and no more than two pixels off its right and its bottom    *)
(* (crop_from_marked_rect and marked_rect_pixels: the offsets are floored   *)
(* to even pixels after the size was rounded up).                           *)
THEOREM DrawnIsShown ==
  ASSUME NEW in, FramingIn(in), in.facecam # <<>> => OnTheFrame(in.facecam),
         in.gameplay # <<>> => OnTheFrame(in.gameplay), NEW crop \in Crops(in)
  PROVE  /\ ShowsWhatIsDrawn(crop, in)
         /\ CanBeShown(crop, in) =>
              EndsWithin(crop[2], Drawn(crop, in), in.width, in.height, 2)
  <1> DEFINE width == in.width
             height == in.height
             drawn == IF crop[1] = "cam" THEN in.facecam ELSE in.gameplay
             full == <<TargetWidth, TargetHeight>>
             ratio == CASE crop[1] = "cam"  -> CamRatio(in)
                        [] crop[1] = "main" -> MainRatio(in)
                        [] OTHER            -> full
  <1> SUFFICES ASSUME drawn # <<>>, HasArea(drawn),
                      crop[1] = "fit" \/ Fits(drawn, width, height, ratio)
               PROVE  /\ Shows(crop[2], drawn, width, height)
                      /\ EndsWithin(crop[2], drawn, width, height, 2)
    BY DEF ShowsWhatIsDrawn, CanBeShown, Drawn
  <1>f. width \in Nat /\ width >= 2 /\ height \in Nat /\ height >= 2
    BY DEF FramingIn
  <1>d. Natural(drawn) /\ OnTheFrame(drawn)
    BY DEF FramingIn
  <1>r. Ratio(CamRatio(in)) /\ Ratio(MainRatio(in)) /\ Ratio(full)
    BY PanelRatios
  <1>1. ASSUME NEW of, Ratio(of), Fits(drawn, width, height, of)
        PROVE  LET cut == CropFromMarkedRect(width, height, drawn, of)
               IN Shows(cut, drawn, width, height) /\ EndsWithin(cut, drawn, width, height, 2)
    BY <1>1, <1>d, <1>f, MarkedCropShows
  <1>2. CASE Layout(in) = "split_reaction"
    <2>1. CASE crop = <<"cam", CamCrop(in)>>
      <3>1. drawn = in.facecam /\ ratio = CamRatio(in) /\ crop[1] # "fit"
        BY <2>1
      <3>2. crop[2] = CropFromMarkedRect(width, height, drawn, CamRatio(in))
        BY <2>1, <3>1 DEF CamCrop, MarkedCam
      <3> QED BY <1>1, <1>r, <3>1, <3>2
    <2>2. CASE crop = <<"main", MainCrop(in)>>
      <3>1. drawn = in.gameplay /\ ratio = MainRatio(in) /\ crop[1] # "fit"
        BY <2>2
      <3>2. crop[2] = CropFromMarkedRect(width, height, drawn, MainRatio(in))
        BY <2>2, <3>1 DEF MainCrop, MarkedMain
      <3> QED BY <1>1, <1>r, <3>1, <3>2
    <2> QED BY <1>2, <2>1, <2>2 DEF Crops
  <1>3. CASE Layout(in) = "single_crop"
    <2>1. crop = <<"full", SingleCrop(in)>>
      BY <1>3 DEF Crops
    <2>2. drawn = in.gameplay /\ ratio = full /\ crop[1] # "fit"
      BY <2>1
    <2>3. crop[2] = CropFromMarkedRect(width, height, drawn, full)
      BY <2>1, <2>2 DEF SingleCrop, MarkedMain
    <2> QED BY <1>1, <1>r, <2>2, <2>3
  <1>4. CASE Layout(in) \notin {"split_reaction", "single_crop"}
    <2>1. crop = <<"fit", MarkedRectPixels(width, height, in.gameplay)>>
      BY <1>4 DEF Crops
    <2>2. drawn = in.gameplay
      BY <2>1
    <2> QED BY <1>d, <1>f, <2>1, <2>2, MarkedPixelsShow
  <1> QED BY <1>2, <1>3, <1>4

-----------------------------------------------------------------------------
(* Drawing marks changes nothing but marks, and leaves only valid ones.     *)
LEMMA MarksStayValid ==
  ASSUME NEW form, Filled(form), Accepted(form), NEW request, Asked(request)
  PROVE  LET job == SetLayoutRegions(Job(form), request)
         IN /\ job.clips = Job(form).clips /\ job.min = form.min /\ job.max = form.max
            /\ job.mode = Job(form).mode /\ job.style = Job(form).style
            /\ job.marks \in [Regions -> Mark \cup {Unset}]
            /\ \A r \in Regions : job.marks[r] # Unset => ValidMark(job.marks[r])
            /\ \A r \in Regions \ DOMAIN request : job.marks[r] = form.marks[r]
            /\ (\A r \in DOMAIN request : job.marks[r] = request[r]) \/ job = Job(form)
  <1> DEFINE before == Job(form)
             job == SetLayoutRegions(before, request)
             drawn == [r \in Regions |-> IF r \in DOMAIN request THEN request[r] ELSE before.marks[r]]
  <1>1. /\ before.marks = form.marks /\ before.min = form.min /\ before.max = form.max
        /\ before = [clips |-> before.clips, min |-> before.min, max |-> before.max,
                     mode |-> before.mode, bias |-> before.bias, marks |-> before.marks,
                     style |-> before.style]
    <2>1. PICK a, b, c, d, e, f, g :
            form = [clips |-> a, min |-> b, max |-> c, mode |-> d, bias |-> e, marks |-> f, style |-> g]
      BY DEF Filled
    <2> DEFINE A == Given(form.clips, DefaultMaxClips)
               B == IF form.mode = "auto" THEN Unset ELSE form.mode
               C == IF form.style # Unset /\ DOMAIN form.style = {} THEN Unset ELSE form.style
    <2>2. before = [form EXCEPT !.clips = A, !.mode = B, !.style = C]
      BY DEF Job
    <2> HIDE DEF A, B, C, before
    <2>3. before = [clips |-> A, min |-> b, max |-> c, mode |-> B, bias |-> e, marks |-> f, style |-> C]
      BY <2>1, <2>2
    <2> QED BY <2>1, <2>3
  <1>2. \A r \in Regions : form.marks[r] # Unset => ValidMark(form.marks[r])
    BY DEF Accepted
  <1> HIDE DEF before
  <1>3. CASE \A r \in DOMAIN request : request[r] # Unset => ValidMark(request[r])
    <2>1. job = [before EXCEPT !.marks = drawn]
      BY <1>3, <1>1 DEF SetLayoutRegions
    <2>2. /\ drawn \in [Regions -> Mark \cup {Unset}]
          /\ \A r \in Regions : drawn[r] # Unset => ValidMark(drawn[r])
          /\ \A r \in Regions \ DOMAIN request : drawn[r] = form.marks[r]
          /\ \A r \in DOMAIN request : drawn[r] = request[r]
      BY <1>1, <1>2, <1>3 DEF Asked, Filled
    <2> HIDE DEF drawn, job
    <2>3. /\ job.marks = drawn /\ job.clips = before.clips /\ job.min = before.min
          /\ job.max = before.max /\ job.mode = before.mode /\ job.style = before.style
      BY <1>1, <2>1
    <2> QED BY <1>1, <2>2, <2>3 DEF job, before
  <1>4. CASE ~\A r \in DOMAIN request : request[r] # Unset => ValidMark(request[r])
    <2>1. job = before
      BY <1>4 DEF SetLayoutRegions
    <2> HIDE DEF job
    <2> QED BY <1>1, <1>2, <2>1 DEF before, job, Filled
  <1> QED BY <1>3, <1>4

(* A style resolves to numbers that are the deployment's or within bounds.  *)
LEMMA StyleIsReadable ==
  ASSUME NEW form, Filled(form), Accepted(form), NEW job, job.style = Job(form).style,
         NEW key \in DOMAIN StyleBounds
  PROVE  LET style == ResolveStyle(job)
         IN /\ style[key] \in Int
            /\ \/ style[key] = StyleDefaults[key]
               \/ StyleBounds[key][1] <= style[key] /\ style[key] <= StyleBounds[key][2]
  <1>1. DOMAIN StyleDefaults = DOMAIN StyleBounds /\ StyleDefaults[key] \in Int
    BY JobSettingsAssumption
  <1>2. ResolveStyle(job)[key] =
          IF job.style # Unset /\ key \in DOMAIN job.style THEN job.style[key] ELSE StyleDefaults[key]
    BY <1>1 DEF ResolveStyle
  <1>3. job.style = Unset \/ (job.style = form.style /\ form.style # Unset)
    BY DEF Job, Filled
  <1>4. CASE job.style # Unset /\ key \in DOMAIN job.style
    <2>1. job.style = form.style /\ form.style # Unset /\ key \in DOMAIN form.style
      BY <1>3, <1>4
    <2>2. form.style[key] \in Int /\ StyleBounds[key][1] <= form.style[key] /\ form.style[key] <= StyleBounds[key][2]
      BY <2>1 DEF Filled, Accepted, ValidStyle
    <2> QED BY <1>2, <1>4, <2>1, <2>2
  <1>5. CASE ~(job.style # Unset /\ key \in DOMAIN job.style)
    BY <1>1, <1>2, <1>5
  <1> QED BY <1>4, <1>5

(* What the API accepts is carried out: no worker refuses its lengths, its  *)
(* marks, or its framing of any source frame, and marks drawn later touch   *)
(* no other region (_validate_job_overrides and the marking endpoint of     *)
(* stream_jobs.py, with segmentation's and rendering's reading of the row). *)
THEOREM AcceptedWorks ==
  ASSUME NEW form, Filled(form), NEW request, Asked(request),
         NEW width \in Nat, width >= 2, NEW height \in Nat, height >= 2
  PROVE  CarriedOut(form, request, width, height)
  <1> SUFFICES ASSUME Accepted(form) PROVE CarriedOut(form, request, width, height)
    BY DEF CarriedOut
  <1> DEFINE before == Job(form)
             job == SetLayoutRegions(before, request)
             style == ResolveStyle(job)
             in(enabled) == FramingInput(job, width, height, enabled, <<>>)
  <1>1. /\ job.clips = before.clips /\ job.min = form.min /\ job.max = form.max
        /\ job.mode = before.mode /\ job.style = before.style
        /\ job.marks \in [Regions -> Mark \cup {Unset}]
        /\ \A r \in Regions : job.marks[r] # Unset => ValidMark(job.marks[r])
        /\ \A r \in Regions \ DOMAIN request : job.marks[r] = form.marks[r]
        /\ (\A r \in DOMAIN request : job.marks[r] = request[r]) \/ job = before
    BY MarksStayValid
  <1>2. before.clips \in 1..HardMaxClips
    BY JobSettingsAssumption DEF Job, Filled, Accepted, Given
  <1>3. before.mode = IF form.mode = "auto" THEN Unset ELSE form.mode
    BY DEF Job, Filled
  <1> HIDE DEF job
  <1>4. \A key \in DOMAIN StyleBounds :
          /\ style[key] \in Int
          /\ \/ style[key] = StyleDefaults[key]
             \/ StyleBounds[key][1] <= style[key] /\ style[key] <= StyleBounds[key][2]
    BY <1>1, StyleIsReadable
  <1> HIDE DEF before, style
  <1>5. Segmentable(job)
    BY <1>1 DEF Segmentable, ClipLengths, Accepted, ValidLengths
  <1>6. \A r \in Regions : job.marks[r] # Unset =>
          /\ HasArea(job.marks[r]) /\ Natural(job.marks[r]) /\ job.marks[r] # <<>>
    <2>1. ASSUME NEW m \in Mark, ValidMark(m) PROVE HasArea(m) /\ Natural(m) /\ m # <<>>
      BY <2>1, FramingAssumption DEF ValidMark, HasArea, Natural, Mark
    <2> QED BY <1>1, <2>1
  <1>7. ASSUME NEW enabled \in BOOLEAN
        PROVE  FramingIn(in(enabled))
    <2>1. style["split_facecam_fraction"] \in Int
      BY <1>4, JobSettingsAssumption
    <2>2. \A r \in Regions : Given(job.marks[r], <<>>) # <<>> => Natural(Given(job.marks[r], <<>>))
      BY <1>6 DEF Given
    <2>3. /\ in(enabled).width = width /\ in(enabled).height = height /\ in(enabled).face = <<>>
          /\ in(enabled).facecam = Given(job.marks["facecam"], <<>>)
          /\ in(enabled).gameplay = Given(job.marks["gameplay"], <<>>)
          /\ in(enabled).fraction = style["split_facecam_fraction"]
      BY DEF FramingInput, style
    <2> HIDE DEF in
    <2> QED BY <2>1, <2>2, <2>3 DEF FramingIn, Regions
  <1>8. \A enabled \in BOOLEAN : \A c \in Crops(in(enabled)) : InFrame(c[2], width, height)
    <2>1. \A enabled \in BOOLEAN : in(enabled).width = width /\ in(enabled).height = height
      BY DEF FramingInput
    <2> HIDE DEF in
    <2> QED BY <1>7, <2>1, CropsInFrame
  <1>9. ASSUME job.marks["facecam"] # Unset, form.mode \notin {"single_crop", "fit_frame"}
        PROVE  Layout(in(TRUE)) = "split_reaction"
    <2>1. /\ in(TRUE).enabled = TRUE /\ in(TRUE).facecam = job.marks["facecam"]
          /\ in(TRUE).mode = Given(job.mode, "auto")
      BY <1>9 DEF FramingInput, Given
    <2>2. in(TRUE).mode \in {"auto", "split_reaction"}
      BY <1>1, <1>3, <1>9, <2>1 DEF Given, Accepted, LayoutModes
    <2> HIDE DEF in
    <2>3. MarkedCam(in(TRUE))
      BY <1>6, <1>9, <2>1 DEF MarkedCam, Regions
    <2> QED BY <2>1, <2>2, <2>3 DEF Layout
  <1> USE DEF job, before, style
  <1> QED BY <1>1, <1>2, <1>4, <1>5, <1>6, <1>8, <1>9 DEF CarriedOut
==============================================================================
