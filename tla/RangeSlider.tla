----------------------------- MODULE RangeSlider -----------------------------
(***************************************************************************)
(* The slider with two handles (RangeSlider.cpp), horizontal, as the       *)
(* receiver's window uses it: values and pixels are integers, and each     *)
(* mouse event converts between them and rounds.  Floating point is taken  *)
(* to be exact up to the rounding to a pixel or a value.                   *)
(***************************************************************************)
EXTENDS Integers

CONSTANTS
  Minimum, Maximum, \* SetRange's
  Side,             \* scHandleSideLength
  Margin,           \* scLeftRightMargin
  Widths            \* widths of the widget

ASSUME SliderAssumption ==
  /\ {Minimum, Maximum} \subseteq Int /\ Minimum < Maximum
  /\ Side \in Nat \ {0} /\ Margin \in Nat
  /\ Widths \subseteq Nat /\ \A w \in Widths : w > 2 * Margin + 2 * Side

VARIABLES
  lower,   \* mLowerValue
  upper,   \* mUpperValue
  width,
  pressed, \* the handle that is pressed, "none", "first" or "second"
  delta    \* mDelta: from its middle to the mouse

sliderVars == <<lower, upper, width, pressed, delta>>

Interval == Maximum - Minimum
ValidLengthOf(w) == w - 2 * Margin - 2 * Side
ValidLength == ValidLengthOf(width)
Half == Side \div 2

(* Left edges of firstHandleRect and secondHandleRect.                     *)
FirstX == Margin + ((lower - Minimum) * ValidLength) \div Interval
SecondX == Margin + Side + ((upper - Minimum) * ValidLength) \div Interval

(* The value of so many pixels, rounded towards zero.                      *)
ValueAt(pixels) ==
  LET n == pixels * Interval + Minimum * ValidLength
  IN  IF n < 0 THEN -((-n) \div ValidLength) ELSE n \div ValidLength

(* What setLowerValue and setUpperValue make of a value.                   *)
Clamped(v) == IF v > Maximum THEN Maximum ELSE IF v < Minimum THEN Minimum ELSE v

SliderInit ==
  /\ lower = Minimum /\ upper = Maximum
  /\ width \in Widths /\ pressed = "none" /\ delta = 0

-----------------------------------------------------------------------------
(* A tenth of the range.                                                   *)
PageStep == IF Interval \div 10 < 1 THEN 1 ELSE Interval \div 10

Lesser(a, b) == IF a < b THEN a ELSE b
Greater(a, b) == IF a > b THEN a ELSE b

(* What a press at x does beside the handles, where the nearer one moves a *)
(* page towards the mouse: the value that is set, and to what.             *)
Paged(x) ==
  LET inner == FirstX + Side
  IN  IF x < FirstX THEN [set |-> "lower", to |-> lower - PageStep]
      ELSE IF x > inner /\ x < SecondX
        THEN IF x - inner < (SecondX - inner) \div 2
               THEN [set |-> "lower", to |-> Lesser(lower + PageStep, upper)]
               ELSE [set |-> "upper", to |-> Greater(upper - PageStep, lower)]
      ELSE IF x > SecondX + Side
        THEN [set |-> "upper", to |-> upper + PageStep]
      ELSE [set |-> "none", to |-> 0]

(* setLowerValue and setUpperValue; each tells the listeners of its value. *)
SetValue(s) ==
  /\ lower' = IF s.set = "lower" THEN Clamped(s.to) ELSE lower
  /\ upper' = IF s.set = "upper" THEN Clamped(s.to) ELSE upper

PressSets(x, inside) == IF inside THEN Paged(x) ELSE [set |-> "none", to |-> 0]

(* mousePressEvent at x: at the height of the handles or not (level), and  *)
(* away from the widget's border or not (inside).  A second button may be  *)
(* pressed while the first is down.                                        *)
Press(x, level, inside) ==
  LET second == level /\ SecondX <= x /\ x <= SecondX + Side
      first == ~second /\ level /\ FirstX <= x /\ x <= FirstX + Side
  IN  /\ pressed' = IF second THEN "second" ELSE IF first THEN "first" ELSE "none"
      /\ delta' = IF first THEN x - (FirstX + Half)
                  ELSE IF second THEN x - (SecondX + Half) ELSE delta
      /\ SetValue(PressSets(x, inside))
      /\ UNCHANGED width

(* Mutant: the lower value goes where the mouse is.                        *)
DraggedFirstAnywhere(x) ==
  [set |-> "lower", to |-> ValueAt(x - delta - Margin - Half)]

(* mouseMoveEvent with the left handle: up to the right one.               *)
DraggedFirst(x) ==
  [set |-> "lower",
   to |-> IF x - delta + Half <= SecondX THEN ValueAt(x - delta - Margin - Half)
                                         ELSE upper]

(* With the right one: down to one and a half sides from the left one.     *)
DraggedSecond(x) ==
  [set |-> "upper",
   to |-> IF 2 * FirstX + 3 * Side <= 2 * (x - delta)
            THEN ValueAt(x - delta - Margin - Half - Side)
            ELSE lower]

DragSets(x) == IF pressed = "first" THEN DraggedFirst(x) ELSE DraggedSecond(x)

Drag(x) ==
  /\ pressed # "none"
  /\ SetValue(DragSets(x))
  /\ UNCHANGED <<width, pressed, delta>>

(* The release of any button lets go.                                      *)
Release ==
  /\ pressed' = "none"
  /\ UNCHANGED <<lower, upper, width, delta>>

(* The window's layout gives the widget another width.                     *)
Resize(w) ==
  /\ width' = w
  /\ UNCHANGED <<lower, upper, pressed, delta>>

-----------------------------------------------------------------------------
(* The value of a pixel of a widget w wide, rounded up.                    *)
PixelWorth(w) == (Interval + ValidLengthOf(w) - 1) \div ValidLengthOf(w)

(* The handles never pass each other by more than the value of a pixel,    *)
(* whatever presses, drags and changes of width come in which order.  That *)
(* they pass at all is the left handle's doing: its half of an odd side is *)
(* rounded twice (RangeSlider.cpp:179-181).                                *)
HandlesMeet == \E w \in Widths : lower <= upper + PixelWorth(w)
=============================================================================
