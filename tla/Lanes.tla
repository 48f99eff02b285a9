--------------------------------- MODULE Lanes ---------------------------------
(***************************************************************************)
(* The conversion between Python values and wirelog's typed lanes           *)
(* (src/src/pyrewire/_core/lanes.py), as operators.                         *)
(*                                                                         *)
(* A number is an integer numerator over Unit, so that 5/2 is a number; a   *)
(* float is a number or one of the values apart, and only the numerators in *)
(* FloatNums are floats. A lane is an unsigned integer of the width of a    *)
(* lane (64 bits in the code). The width, the floats and their bits are     *)
(* parameters: the theorems hold for binary64 in 64 bits, TLC runs a small  *)
(* float in 5 bits.                                                         *)
(***************************************************************************)
EXTENDS Integers, Sequences

CONSTANTS
    Half,       \* half the number of lanes: 2^63
    Unit,       \* what a numerator is divided by
    FloatNums,  \* the numerators of the finite floats
    Even,       \* those of them a tie is rounded to
    TooLarge,   \* the least numerator whose rounding leaves the finite floats
    Bits        \* the lane that holds each float

ASSUME WidthAssumption == Half \in Nat \ {0} /\ Unit \in Nat \ {0}

Width == 2 * Half
Lane == 0 .. Width - 1

Apart == {"-0", "inf", "-inf", "nan"}
Core(sp, num) == [sp |-> sp, num |-> num]
Floats == {Core("finite", n) : n \in FloatNums} \cup {Core(sp, 0) : sp \in Apart}

ASSUME FloatAssumption ==
    /\ FloatNums \subseteq Int /\ 0 \in FloatNums /\ Even \subseteq FloatNums
    /\ TooLarge \in Nat
    /\ \A n \in FloatNums : -TooLarge < n /\ n < TooLarge
    /\ Bits \in [Floats -> Lane]
    /\ \A f, g \in Floats : Bits[f] = Bits[g] => f = g

--------------------------------------------------------------------------------
(* What Python tells apart: type(value) is int, a bool, a type with          *)
(* __index__, a float, a Number that is exact and convertible (Fraction), a   *)
(* type of which float(value) is all there is, a str, and anything else.      *)

IntKinds == {"int", "bool", "index"}
FloatKinds == {"float", "opaque"}
FloatLike == FloatKinds \cup {"exact"}

Value(kind, core) == [kind |-> kind, core |-> core]
Exact == [sp : {"finite"}, num : Int]
WholeCores == {core \in Exact : core.num % Unit = 0}
Values ==
    [kind : IntKinds, core : WholeCores]
      \cup [kind : FloatKinds, core : Floats]
      \cup [kind : {"exact"}, core : Exact]

ColumnTypes == {"INT", "UINT", "FLOAT", "STRING", "BOOL"}

--------------------------------------------------------------------------------
(* float(value), rounded to nearest and to even in a tie. *)

Dist(a, b) == IF a < b THEN b - a ELSE a - b
IsNearest(f, num) ==
    \A g \in FloatNums \ {f} :
        \/ Dist(f, num) < Dist(g, num)
        \/ Dist(f, num) = Dist(g, num) /\ f \in Even
Nearest(num) == CHOOSE f \in FloatNums : IsNearest(f, num)

(* A number that does not overflow has a nearest float. *)
ASSUME RoundingAssumption ==
    \A num \in 1 - TooLarge .. TooLarge - 1 : \E f \in FloatNums : IsNearest(f, num)

Overflows(v) == v.kind \notin FloatKinds /\ Dist(v.core.num, 0) >= TooLarge
AsFloat(v) == IF v.kind \in FloatKinds THEN v.core ELSE Core("finite", Nearest(v.core.num))

IsInteger(core) == core.sp \in {"finite", "-0"} /\ core.num % Unit = 0
WholePart(core) == core.num \div Unit

(* MUTANT of FloatConversionLostValue: what float() gives is taken for the value. *)
NeverLost(v) == FALSE
(* Asked only of a type that can answer: the others are what float() says. *)
FloatConversionLostValue(v) ==
    v.kind = "exact" /\ Unit * WholePart(AsFloat(v)) # v.core.num

(* The exception encode_lane raises, if any. *)
EncodeError(v, type) ==
    IF v.kind \notin IntKinds \cup FloatLike THEN "TypeError"
    ELSE IF type # "FLOAT" /\ v.kind \in IntKinds THEN "none"
    ELSE IF Overflows(v) THEN "OverflowError"
    ELSE IF type # "FLOAT" /\ (~IsInteger(AsFloat(v)) \/ FloatConversionLostValue(v)) THEN "ValueError"
    ELSE "none"

Masked(i) == i % Width

(* The lane it packs when it raises none. *)
EncodeLane(v, type) ==
    IF type = "FLOAT" THEN Bits[AsFloat(v)]
    ELSE Masked(WholePart(IF v.kind \in IntKinds THEN v.core ELSE AsFloat(v)))

--------------------------------------------------------------------------------
Unpack(lane) == CHOOSE f \in Floats : Bits[f] = lane
Signed(lane) == IF lane < Half THEN lane ELSE lane - Width
Whole(kind, i) == Value(kind, Core("finite", Unit * i))

DecodeLane(lane, type) ==
    CASE type = "FLOAT" -> Value("float", Unpack(lane))
      [] type = "BOOL" -> Whole("bool", IF lane # 0 THEN 1 ELSE 0)
      [] type = "UINT" -> Whole("int", lane)
      [] type \in {"INT", "STRING"} -> Whole("int", Signed(lane))

(* A descriptor of the typed row ABI: column c is in the lane its offset names. *)
DecodeTypedRow(row) ==
    [c \in DOMAIN row.types |-> DecodeLane(row.lanes[row.lane_offsets[c]], row.types[c])]

--------------------------------------------------------------------------------
(* What the conversions are held to. *)

(* Python's == between numbers: -0.0 == 0, nan equals nothing. *)
SameNumber(a, b) ==
    LET infinite == {"inf", "-inf"} IN
    /\ "nan" \notin {a.core.sp, b.core.sp}
    /\ IF infinite \cap {a.core.sp, b.core.sp} # {} THEN a.core.sp = b.core.sp
       ELSE a.core.num = b.core.num

(* The number is one a column of that type has. *)
Fits(v, type) ==
    LET whole == v.core.sp \in {"finite", "-0"} /\ v.core.num % Unit = 0
        i == WholePart(v.core)
    IN CASE type = "FLOAT" -> v.core.sp # "nan" /\ (v.core.sp = "finite" => v.core.num \in FloatNums)
         [] type = "BOOL" -> whole /\ i \in {0, 1}
         [] type = "UINT" -> whole /\ i \in Lane
         [] type \in {"INT", "STRING"} -> whole /\ i \in -Half .. Half - 1
================================================================================
