--------------------------------- MODULE MCRows ---------------------------------
(* Instances of Rows: lanes of 5 bits, and a float in them with a sign, three *)
(* bits of exponent and one of mantissa. Its numbers are eighths, up to 12;   *)
(* like binary64 in 64 bits it has integers that are no floats: 5, 7, 9.      *)
EXTENDS Rows

Magnitudes == <<0, 1, 2, 3, 4, 6, 8, 12, 16, 24, 32, 48, 64, 96>>
Mini == ToSet(Magnitudes) \cup {-n : n \in ToSet(Magnitudes)}
MiniEven == {n \in Mini : \E i \in DOMAIN Magnitudes : i % 2 = 1 /\ n \in {Magnitudes[i], -Magnitudes[i]}}
MiniFloats == {Core("finite", n) : n \in Mini} \cup {Core(sp, 0) : sp \in Apart}
Position(n) == CHOOSE i \in DOMAIN Magnitudes : Magnitudes[i] = n
MiniBits ==
    [f \in MiniFloats |->
        CASE f.sp = "inf" -> 14 [] f.sp = "nan" -> 15 [] f.sp = "-0" -> 16 [] f.sp = "-inf" -> 30
          [] f.sp = "finite" -> IF f.num >= 0 THEN Position(f.num) - 1 ELSE 15 + Position(-f.num)]

I(i) == Whole("int", i)
B(i) == Whole("bool", i)
Index(i) == Whole("index", i)
Float(n) == Value("float", Core("finite", n))
Special(sp) == Value("float", Core(sp, 0))
Opaque(n) == Value("opaque", Core("finite", n))
Fraction(n) == Value("exact", Core("finite", n))

Easy(types, facts, rows) ==
    [class |-> "easy", types |-> types, facts |-> facts, rows |-> rows, batches |-> {}]
Advanced(types, facts, batches) ==
    [class |-> "advanced", types |-> types, facts |-> facts, rows |-> {}, batches |-> batches]

AllSessions == {
    Easy(<<"STRING", "INT">>, << <<Str("a"), I(1)>>, <<Str("b"), I(-16)>> >>,
         {<<Str("a"), I(1)>>, <<Str("b"), B(1)>>, <<Str("c"), I(-16)>>, <<Str("c"), Float(16)>>,
          <<Str("b"), Fraction(8)>>}),
    Easy(<<"STRING", "STRING">>, << <<Str("a"), Str("b")>> >>,
         {<<Str("a"), Str("b")>>, <<Str("b"), Str("a")>>, <<Str("c"), Other>>, <<Str("c"), Str("c")>>}),
    Easy(<<"UINT", "BOOL">>, << <<I(20), B(1)>>, <<I(1), B(0)>> >>,
         {<<I(20), B(1)>>, <<I(1), I(0)>>, <<B(1), B(0)>>, <<I(15), B(1)>>}),
    Easy(<<"FLOAT">>, << <<Float(12)>> >>, {<<Float(12)>>, <<Float(-24)>>, <<I(1)>>, <<Special("-0")>>}),
    Advanced(<<"FLOAT", "INT">>, << <<Float(12), I(3)>>, <<Float(0), I(-1)>> >>,
         {<< <<Special("-0"), Float(-8)>>, <<Opaque(12), I(3)>> >>,
          << <<I(4), Index(-16)>>, <<Float(0), B(1)>> >>,
          << <<Float(12), Opaque(24)>>, <<Special("nan"), I(3)>> >>,
          << <<Float(12), I(3)>>, <<I(200), I(3)>> >>,
          << <<Fraction(20), Fraction(24)>> >>}),
    Advanced(<<"UINT", "STRING">>, << <<I(20), Str("a")>> >>,
         {<< <<I(20), I(0)>>, <<Float(96), I(1)>> >>,
          << <<I(20), I(0)>>, <<I(20), Str("a")>> >>,
          << <<Index(31), I(0)>>, <<I(20)>> >>, << <<>>, <<I(20), I(0)>> >>,
          << <<I(4), I(0)>>, <<Fraction(40), I(1)>> >>}),
    Advanced(<<"BOOL", "INT">>, << <<B(1), I(5)>> >>,
         {<< <<B(1), I(5)>>, <<I(0), Float(-48)>> >>,
          << <<B(0), Float(12)>> >>,
          << <<Float(8), I(15)>>, <<I(2), I(1)>> >>})}

(* What insert_with_dedupe and the printer are asked about in their runs. *)
StringSession == {s \in AllSessions : s.class = "easy" /\ s.types = <<"STRING", "STRING">>}

OnePair == {<<"a", 0>>, <<"a", 1>>}
================================================================================
