------------------------------ MODULE Rows_proofs ------------------------------
(***************************************************************************)
(* What lanes.py keeps of a value, for every width of lane and every set of *)
(* floats: a value that fits its column and is encoded at all comes back    *)
(* equal, and no value like a float enters an integer column as another one.*)
(* Then what the calls do with values: a call that raises writes nothing,   *)
(* the intern table stays true to the engine's, and the relation is what    *)
(* callers wrote.                                                           *)
(***************************************************************************)
EXTENDS Rows, SequenceTheorems, FiniteSetTheorems, TLAPS

LEMMA MaskKeepsLanes ==
    ASSUME NEW w \in Nat \ {0}, NEW i \in 0 .. w - 1
    PROVE  i % w = i
  BY SMT

LEMMA MaskOfNegative ==
    ASSUME NEW w \in Nat \ {0}, NEW i \in -w .. -1
    PROVE  i % w = i + w
  BY SMT

LEMMA DivOfMultiple ==
    ASSUME NEW w \in Nat \ {0}, NEW i \in Int
    PROVE  /\ (w * i) \div w = i
           /\ (w * i) % w = 0
  BY SMT

LEMMA DivExact ==
    ASSUME NEW w \in Nat \ {0}, NEW n \in Int, n % w = 0
    PROVE  w * (n \div w) = n
  BY SMT

--------------------------------------------------------------------------------
(* What every value has. *)
LEMMA ValueParts ==
    ASSUME NEW v \in Values
    PROVE  /\ v.core = Core(v.core.sp, v.core.num) /\ v.core.num \in Int
           /\ v.kind \in IntKinds \cup FloatLike
           /\ v.kind \in FloatKinds => v.core \in Floats
           /\ v.kind \notin FloatKinds => v.core.sp = "finite"
           /\ v.kind \in IntKinds => v.core.num % Unit = 0
           /\ v.core.sp \in Apart \cup {"finite"}
           /\ v.core.sp # "finite" => v.core.num = 0
  <1>1. CASE v \in [kind : IntKinds, core : WholeCores]
    <2>1. v.kind \in IntKinds /\ v.core \in WholeCores
      BY <1>1
    <2>2. v.core = Core("finite", v.core.num) /\ v.core.num \in Int /\ v.core.num % Unit = 0
      BY <2>1 DEF WholeCores, Exact, Core
    <2> QED  BY <2>1, <2>2 DEF Core, IntKinds, FloatKinds, FloatLike
  <1>2. CASE v \in [kind : FloatKinds, core : Floats]
    <2>1. v.kind \in FloatKinds /\ v.core \in Floats
      BY <1>2
    <2>2. CASE \E n \in FloatNums : v.core = Core("finite", n)
      BY <2>1, <2>2, FloatAssumption DEF Core, IntKinds, FloatKinds, FloatLike
    <2>3. CASE \E sp \in Apart : v.core = Core(sp, 0)
      BY <2>1, <2>3 DEF Apart, Core, IntKinds, FloatKinds, FloatLike
    <2> QED  BY <2>1, <2>2, <2>3 DEF Floats
  <1>3. CASE v \in [kind : {"exact"}, core : Exact]
    <2>1. v.kind = "exact" /\ \E n \in Int : v.core = Core("finite", n)
      BY <1>3 DEF Exact, Core
    <2> QED  BY <2>1 DEF Core, IntKinds, FloatKinds, FloatLike
  <1> QED  BY <1>1, <1>2, <1>3 DEF Values

(* float() of a number that a float is. *)
LEMMA NearestOfFloat ==
    ASSUME NEW n \in FloatNums
    PROVE  Nearest(n) = n
  <1>1. IsNearest(n, n)
    <2> SUFFICES ASSUME NEW g \in FloatNums \ {n} PROVE Dist(n, n) < Dist(g, n)
      BY DEF IsNearest
    <2> QED  BY FloatAssumption, SMT DEF Dist
  <1>2. ASSUME NEW f \in FloatNums, IsNearest(f, n), f # n PROVE FALSE
    <2>1. Dist(f, n) < Dist(n, n) \/ Dist(f, n) = Dist(n, n)
      BY <1>2 DEF IsNearest
    <2> QED  BY <1>2, <2>1, FloatAssumption, SMT DEF Dist
  <1> QED  BY <1>1, <1>2 DEF Nearest

LEMMA NearestIsFloat ==
    ASSUME NEW n \in Int, Dist(n, 0) < TooLarge
    PROVE  Nearest(n) \in FloatNums
  <1>1. n \in 1 - TooLarge .. TooLarge - 1
    BY FloatAssumption, SMT DEF Dist
  <1> QED  BY <1>1, RoundingAssumption DEF Nearest

LEMMA UnpackBits ==
    ASSUME NEW f \in Floats
    PROVE  Bits[f] \in Lane /\ Unpack(Bits[f]) = f
  BY FloatAssumption DEF Unpack

(* A lane read as a signed integer. *)
LEMMA SignedMask ==
    ASSUME NEW i \in -Half .. Half - 1
    PROVE  Signed(Masked(i)) = i
  <1>1. Width \in Nat \ {0} /\ Half \in Nat \ {0} /\ Width = 2 * Half
    BY WidthAssumption DEF Width
  <1>2. CASE i >= 0
    <2>1. Masked(i) = i
      BY <1>1, <1>2, MaskKeepsLanes DEF Masked
    <2> QED  BY <1>1, <1>2, <2>1 DEF Signed
  <1>3. CASE i < 0
    <2>1. i \in -Width .. -1
      BY <1>1, <1>3
    <2>2. Masked(i) = i + Width
      BY <1>1, <2>1, MaskOfNegative DEF Masked
    <2> QED  BY <1>1, <1>3, <2>2 DEF Signed
  <1> QED  BY <1>1, <1>2, <1>3

(* What encode_lane puts into an integer column is the whole number itself:  *)
(* a value that had to go through float() is there, or refused.              *)
THEOREM NothingLost ==
    ASSUME NEW v \in Values, NEW type \in ColumnTypes \ {"FLOAT"},
           EncodeError(v, type) = "none"
    PROVE  /\ EncodeLane(v, type) = Masked(WholePart(v.core))
           /\ Unit * WholePart(v.core) = v.core.num
  <1>1. v.core.num \in Int /\ v.kind \in IntKinds \cup FloatLike /\ Unit \in Nat \ {0}
    BY ValueParts, WidthAssumption
  <1>2. CASE v.kind \in IntKinds
    <2>1. EncodeLane(v, type) = Masked(WholePart(v.core))
      BY <1>2 DEF EncodeLane
    <2>2. v.core.num % Unit = 0
      BY <1>2, ValueParts
    <2> QED  BY <1>1, <2>1, <2>2, DivExact DEF WholePart
  <1>3. CASE v.kind \in FloatLike
    <2>1. v.kind \notin IntKinds
      BY <1>3 DEF IntKinds, FloatLike, FloatKinds
    <2>2. IsInteger(AsFloat(v)) /\ ~FloatConversionLostValue(v)
      BY <1>3, <2>1 DEF EncodeError
    <2>3. EncodeLane(v, type) = Masked(WholePart(AsFloat(v)))
      BY <2>1 DEF EncodeLane
    <2>4. CASE v.kind \in FloatKinds
      <3>1. AsFloat(v) = v.core
        BY <2>4 DEF AsFloat
      <3> QED  BY <1>1, <2>2, <2>3, <3>1, DivExact DEF WholePart, IsInteger
    <2>5. CASE v.kind = "exact"
      <3>1. Unit * WholePart(AsFloat(v)) = v.core.num
        BY <2>2, <2>5 DEF FloatConversionLostValue
      <3>2. AsFloat(v).num \in Int
        <4>1. AsFloat(v) = Core("finite", Nearest(v.core.num))
          BY <2>5 DEF AsFloat, FloatKinds
        <4>2. ~Overflows(v)
          BY <1>3, <2>1 DEF EncodeError
        <4>3. Dist(v.core.num, 0) < TooLarge
          BY <1>1, <2>5, <4>2, FloatAssumption DEF Overflows, FloatKinds, Dist
        <4>4. Nearest(v.core.num) \in Int
          BY <1>1, <4>3, NearestIsFloat, FloatAssumption
        <4> QED  BY <4>1, <4>4 DEF Core
      <3>3. WholePart(AsFloat(v)) \in Int
        BY <1>1, <3>2 DEF WholePart
      <3>4. WholePart(v.core) = WholePart(AsFloat(v))
        BY <1>1, <3>1, <3>3, DivOfMultiple DEF WholePart
      <3> QED  BY <2>3, <3>1, <3>4
    <2> QED  BY <1>3, <2>4, <2>5 DEF FloatLike
  <1> QED  BY <1>1, <1>2, <1>3

--------------------------------------------------------------------------------
(* A value in a FLOAT column. *)
LEMMA FittingFloat ==
    ASSUME NEW v \in Values, Fits(v, "FLOAT")
    PROVE  AsFloat(v) = v.core /\ v.core \in Floats
  <1>1. CASE v.kind \in FloatKinds
    BY <1>1, ValueParts DEF AsFloat
  <1>2. CASE v.kind \notin FloatKinds
    <2>1. v.core = Core("finite", v.core.num) /\ v.core.num \in FloatNums
      BY <1>2, ValueParts DEF Fits
    <2>2. AsFloat(v) = Core("finite", Nearest(v.core.num))
      BY <1>2 DEF AsFloat
    <2> QED  BY <2>1, <2>2, NearestOfFloat DEF Floats
  <1> QED  BY <1>1, <1>2

LEMMA FloatRoundTrip ==
    ASSUME NEW v \in Values, Fits(v, "FLOAT")
    PROVE  SameNumber(DecodeLane(EncodeLane(v, "FLOAT"), "FLOAT"), v)
  <1>1. v.core.sp # "nan"
    BY DEF Fits
  <1>2. AsFloat(v) = v.core /\ v.core \in Floats
    BY FittingFloat
  <1>3. DecodeLane(EncodeLane(v, "FLOAT"), "FLOAT") = Value("float", v.core)
    <2>1. EncodeLane(v, "FLOAT") = Bits[v.core]
      BY <1>2 DEF EncodeLane
    <2> QED  BY <1>2, <2>1, UnpackBits DEF DecodeLane
  <1>4. Value("float", v.core).core = v.core
    BY DEF Value
  <1> QED  BY <1>1, <1>3, <1>4 DEF SameNumber

(* A whole number in any other column. *)
LEMMA WholeRoundTrip ==
    ASSUME NEW v \in Values, NEW type \in ColumnTypes \ {"FLOAT"}, Fits(v, type),
           EncodeError(v, type) = "none"
    PROVE  SameNumber(DecodeLane(EncodeLane(v, type), type), v)
  <1> DEFINE i == WholePart(v.core)
  <1>1. EncodeLane(v, type) = Masked(i) /\ Unit * i = v.core.num
    BY NothingLost
  <1>2. Width \in Nat \ {0} /\ Width >= 2 /\ Width = 2 * Half /\ Half \in Nat \ {0}
    BY WidthAssumption DEF Width
  <1>3. v.core.sp \in {"finite", "-0"}
    BY DEF Fits, ColumnTypes
  <1>4. i \in Int
    BY ValueParts, WidthAssumption DEF WholePart
  <1>5. \E kind \in {"int", "bool"} : DecodeLane(EncodeLane(v, type), type) = Whole(kind, i)
    <2>1. CASE type = "UINT"
      <3>1. i \in 0 .. Width - 1
        BY <2>1 DEF Fits, Lane
      <3>2. Masked(i) = i
        BY <1>2, <3>1, MaskKeepsLanes DEF Masked
      <3>3. DecodeLane(EncodeLane(v, type), type) = Whole("int", i)
        BY <1>1, <2>1, <3>2 DEF DecodeLane
      <3> QED  BY <3>3
    <2>2. CASE type = "BOOL"
      <3>1. i \in {0, 1}
        BY <2>2 DEF Fits
      <3>2. Masked(i) = i
        BY <1>2, <3>1, MaskKeepsLanes DEF Masked
      <3>3. DecodeLane(EncodeLane(v, type), type) = Whole("bool", IF i # 0 THEN 1 ELSE 0)
        BY <1>1, <2>2, <3>2 DEF DecodeLane
      <3>4. (IF i # 0 THEN 1 ELSE 0) = i
        BY <3>1
      <3> QED  BY <3>3, <3>4
    <2>3. CASE type \in {"INT", "STRING"}
      <3>1. i \in -Half .. Half - 1
        BY <2>3 DEF Fits
      <3>2. Signed(Masked(i)) = i
        BY <3>1, SignedMask
      <3>3. DecodeLane(EncodeLane(v, type), type) = Whole("int", i)
        BY <1>1, <2>3, <3>2 DEF DecodeLane
      <3> QED  BY <3>3
    <2> QED  BY <2>1, <2>2, <2>3 DEF ColumnTypes
  <1>6. \A kind \in {"int", "bool"} :
           Whole(kind, i).core.sp = "finite" /\ Whole(kind, i).core.num = Unit * i
    BY DEF Whole, Value, Core
  <1> HIDE DEF i
  <1> QED  BY <1>1, <1>3, <1>5, <1>6 DEF SameNumber

(* Every value that fits its column and that encode_lane takes comes back as *)
(* an equal number, whatever the width of a lane and whatever floats there    *)
(* are: signed and unsigned, at both ends of the range, -0.0, integers and    *)
(* fractions given for floats and the other way round.                        *)
THEOREM RoundTrip ==
    ASSUME NEW v \in Values, NEW type \in ColumnTypes, Fits(v, type),
           EncodeError(v, type) = "none"
    PROVE  SameNumber(DecodeLane(EncodeLane(v, type), type), v)
  BY FloatRoundTrip, WholeRoundTrip

(* Values that are equal in Python have one lane in a column, whatever their  *)
(* types are: a row is retracted by an equal one. The two zeros of a FLOAT    *)
(* column are the exception, which wirelog makes one (session.py:864-869).    *)
THEOREM EqualValuesShareALane ==
    ASSUME NEW v \in Values, NEW w \in Values, NEW type \in ColumnTypes,
           Fits(v, type), EncodeError(v, type) = "none",
           Fits(w, type), EncodeError(w, type) = "none",
           SameNumber(v, w), type = "FLOAT" => "-0" \notin {v.core.sp, w.core.sp}
    PROVE  EncodeLane(v, type) = EncodeLane(w, type)
  <1>1. CASE type = "FLOAT"
    <2>1. v.core = w.core
      <3>1. \A u \in {v, w} : u.core.sp \in {"finite", "inf", "-inf"}
        <4> SUFFICES ASSUME NEW u \in Values, Fits(u, "FLOAT"), u.core.sp # "-0"
                     PROVE  u.core.sp \in {"finite", "inf", "-inf"}
          BY <1>1
        <4>1. u.core.sp \in Apart \cup {"finite"}
          BY ValueParts
        <4> QED  BY <4>1 DEF Apart, Fits
      <3>2. v.core.sp = w.core.sp /\ v.core.num = w.core.num
        <4>1. CASE v.core.sp = "finite"
          BY <3>1, <4>1 DEF SameNumber
        <4>2. CASE v.core.sp \in {"inf", "-inf"}
          <5>1. v.core.sp = w.core.sp
            BY <4>2 DEF SameNumber
          <5>2. \A u \in {v, w} : u.core.num = 0
            BY <4>2, <5>1, ValueParts
          <5> QED  BY <5>1, <5>2
        <4> QED  BY <3>1, <4>1, <4>2
      <3> QED  BY <3>2, ValueParts
    <2>2. AsFloat(v) = v.core /\ AsFloat(w) = w.core
      BY <1>1, FittingFloat
    <2> QED  BY <1>1, <2>1, <2>2 DEF EncodeLane
  <1>2. CASE type # "FLOAT"
    <2>1. \A u \in {v, w} : u.core.sp \in {"finite", "-0"}
      BY <1>2 DEF Fits, ColumnTypes
    <2>2. v.core.num = w.core.num
      BY <2>1 DEF SameNumber
    <2>3. \A u \in {v, w} : EncodeLane(u, type) = Masked(WholePart(u.core))
      BY <1>2, NothingLost
    <2> QED  BY <2>2, <2>3 DEF WholePart
  <1> QED  BY <1>1, <1>2

(* And values that are not equal have different ones: no row stands for two. *)
THEOREM DifferentValuesDoNot ==
    ASSUME NEW v \in Values, NEW w \in Values, NEW type \in ColumnTypes,
           Fits(v, type), EncodeError(v, type) = "none",
           Fits(w, type), EncodeError(w, type) = "none",
           EncodeLane(v, type) = EncodeLane(w, type)
    PROVE  SameNumber(v, w)
  <1> DEFINE u == DecodeLane(EncodeLane(v, type), type)
  <1>1. SameNumber(u, v) /\ SameNumber(u, w)
    BY RoundTrip
  <1> HIDE DEF u
  <1> QED  BY <1>1 DEF SameNumber

--------------------------------------------------------------------------------
(* The session's facts are strings the engine knows; no two of its symbols   *)
(* have one id.                                                             *)
EngineInv ==
    /\ session \in Sessions
    /\ engine = [ids |-> engine.ids, rows |-> engine.rows]
    /\ engine.ids \in [DOMAIN engine.ids -> SymbolIds] /\ IsInjective(engine.ids)
    /\ \A fact \in ToSet(session.facts) : StringsOf(fact) \subseteq DOMAIN engine.ids

(* What the table has been told, by the engine or by remember(), and that no  *)
(* two of these contradict each other and none has an id the engine does not  *)
(* give. A pair that is Honest now may have been given before the engine      *)
(* knew its string, so that Honest itself can become true; Compatible can     *)
(* only become false.                                                       *)
Pairs == {<<s, engine.ids[s]>> : s \in DOMAIN engine.ids} \cup seeded
Compatible ==
    /\ \A p, q \in Pairs : p[1] = q[1] <=> p[2] = q[2]
    /\ \A p \in Pairs : p[2] \in SymbolIds

(* The two halves of the table are each other's inverse, and true. *)
MirrorInv ==
    Compatible =>
        /\ \A s \in DOMAIN mirror.forward :
              /\ <<s, mirror.forward[s]>> \in Pairs
              /\ ContainsId(mirror, mirror.forward[s]) /\ mirror.reverse[mirror.forward[s]] = s
        /\ \A id \in DOMAIN mirror.reverse :
              ContainsValue(mirror, mirror.reverse[id]) /\ mirror.forward[mirror.reverse[id]] = id

(* If the table knew the row's strings when insert_with_dedupe began, it does *)
(* still, and an inline fact that equals the row is yet to be looked up or    *)
(* has been found.                                                          *)
DedupeInv ==
    /\ pending = [row |-> pending.row, todo |-> pending.todo,
                  existing |-> pending.existing, known |-> pending.known]
    /\ pending # NoCall => session.class = "easy" /\ pending.row \in session.rows
    /\ pending.todo \in Seq(ToSet(session.facts))
    /\ Compatible /\ pending.known =>
          /\ pending # NoCall /\ Decodable(pending.row)
          /\ \A fact \in ToSet(session.facts) : SameRow(fact, pending.row) =>
                \/ \E i \in DOMAIN pending.todo : SameRow(pending.todo[i], pending.row)
                \/ \E row \in pending.existing : SameRow(row, pending.row)

DoubledInv == Compatible => \A d \in doubled : ~d.known

RowsInv == EngineInv /\ MirrorInv /\ DedupeInv /\ DoubledInv

--------------------------------------------------------------------------------
(* The intern table learns pairs: the forward half has them as they are, the  *)
(* reverse half the other way round.                                        *)
LEMMA Learnt ==
    ASSUME NEW table, NEW f, IsInjective(f)
    PROVE  LET new == Learn(table, f) IN
           /\ DOMAIN new.forward = DOMAIN f \cup DOMAIN table.forward
           /\ \A s \in DOMAIN f : new.forward[s] = f[s]
           /\ \A s \in DOMAIN table.forward \ DOMAIN f : new.forward[s] = table.forward[s]
           /\ DOMAIN new.reverse = Range(f) \cup DOMAIN table.reverse
           /\ \A s \in DOMAIN f : f[s] \in Range(f) /\ new.reverse[f[s]] = s
           /\ \A id \in DOMAIN table.reverse \ Range(f) : new.reverse[id] = table.reverse[id]
  <1> DEFINE g == AntiFunction(f)
  <1>1. DOMAIN g = Range(f) /\ \A s \in DOMAIN f : f[s] \in Range(f) /\ g[f[s]] = s
    BY DEF AntiFunction, Inverse, Range, IsInjective
  <1>2. Learn(table, f) = [forward |-> Over(f, table.forward), reverse |-> Over(g, table.reverse)]
    BY DEF Learn
  <1>3. /\ DOMAIN Over(f, table.forward) = DOMAIN f \cup DOMAIN table.forward
        /\ \A s \in DOMAIN f \cup DOMAIN table.forward :
              Over(f, table.forward)[s] = IF s \in DOMAIN f THEN f[s] ELSE table.forward[s]
    BY DEF Over
  <1> HIDE DEF g
  <1>4. /\ DOMAIN Over(g, table.reverse) = DOMAIN g \cup DOMAIN table.reverse
        /\ \A id \in DOMAIN g \cup DOMAIN table.reverse :
              Over(g, table.reverse)[id] = IF id \in DOMAIN g THEN g[id] ELSE table.reverse[id]
    BY DEF Over
  <1> QED  BY <1>1, <1>2, <1>3, <1>4

(* What every step does to the engine's symbols, the given pairs and the      *)
(* table.                                                                   *)
Grows ==
    /\ session' = session
    /\ \A s \in DOMAIN engine.ids : s \in DOMAIN engine'.ids /\ engine'.ids[s] = engine.ids[s]
    /\ seeded \subseteq seeded'
Learns ==
    \/ mirror' = mirror
    \/ \E f : /\ \A s \in DOMAIN f : <<s, f[s]>> \in Pairs'
              /\ mirror' = Learn(mirror, f)

(* Pairs are only added, and cannot undo a contradiction. *)
LEMMA PairsGrow ==
    ASSUME Grows
    PROVE  Pairs \subseteq Pairs' /\ (Compatible' => Compatible)
  <1>1. Pairs \subseteq Pairs'
    BY DEF Grows, Pairs
  <1> QED  BY <1>1 DEF Compatible

LEMMA LearnKeeps ==
    ASSUME MirrorInv, Grows, Learns
    PROVE  /\ MirrorInv'
           /\ Compatible' => \A s \in DOMAIN mirror.forward : ContainsValue(mirror, s)'
  <1> SUFFICES ASSUME Compatible'
               PROVE  /\ MirrorInv'
                      /\ \A s \in DOMAIN mirror.forward : ContainsValue(mirror, s)'
    BY DEF MirrorInv
  <1>1. Pairs \subseteq Pairs' /\ Compatible
    BY PairsGrow
  <1>2. /\ \A s \in DOMAIN mirror.forward :
              /\ <<s, mirror.forward[s]>> \in Pairs'
              /\ mirror.forward[s] \in DOMAIN mirror.reverse
              /\ mirror.reverse[mirror.forward[s]] = s
        /\ \A id \in DOMAIN mirror.reverse :
              mirror.reverse[id] \in DOMAIN mirror.forward /\ mirror.forward[mirror.reverse[id]] = id
    BY <1>1 DEF MirrorInv, ContainsId, ContainsValue
  <1>3. CASE mirror' = mirror
    BY <1>2, <1>3 DEF MirrorInv, ContainsId, ContainsValue
  <1>4. CASE \E f : /\ \A s \in DOMAIN f : <<s, f[s]>> \in Pairs'
                    /\ mirror' = Learn(mirror, f)
    <2>1. PICK f : /\ \A s \in DOMAIN f : <<s, f[s]>> \in Pairs'
                   /\ mirror' = Learn(mirror, f)
      BY <1>4
    <2>2. \A s, r, id : <<s, id>> \in Pairs' /\ <<r, id>> \in Pairs' => s = r
      BY DEF Compatible
    <2>3. IsInjective(f)
      BY <2>1, <2>2 DEF IsInjective
    <2>4. /\ DOMAIN mirror'.forward = DOMAIN f \cup DOMAIN mirror.forward
          /\ \A s \in DOMAIN f : mirror'.forward[s] = f[s]
          /\ \A s \in DOMAIN mirror.forward \ DOMAIN f : mirror'.forward[s] = mirror.forward[s]
          /\ DOMAIN mirror'.reverse = Range(f) \cup DOMAIN mirror.reverse
          /\ \A s \in DOMAIN f : f[s] \in Range(f) /\ mirror'.reverse[f[s]] = s
          /\ \A id \in DOMAIN mirror.reverse \ Range(f) : mirror'.reverse[id] = mirror.reverse[id]
      BY <2>1, <2>3, Learnt
    <2>5. ASSUME NEW s \in DOMAIN mirror'.forward
          PROVE  /\ <<s, mirror'.forward[s]>> \in Pairs'
                 /\ mirror'.forward[s] \in DOMAIN mirror'.reverse
                 /\ mirror'.reverse[mirror'.forward[s]] = s
      <3>1. CASE s \in DOMAIN f
        BY <2>1, <2>4, <3>1
      <3>2. CASE s \in DOMAIN mirror.forward \ DOMAIN f
        <4>1. mirror'.forward[s] = mirror.forward[s] /\ <<s, mirror.forward[s]>> \in Pairs'
          BY <1>2, <2>4, <3>2
        <4>2. mirror.forward[s] \notin Range(f)
          BY <2>1, <2>2, <3>2, <4>1 DEF Range
        <4> QED  BY <1>2, <2>4, <3>2, <4>1, <4>2
      <3> QED  BY <2>4, <3>1, <3>2
    <2>6. ASSUME NEW id \in DOMAIN mirror'.reverse
          PROVE  /\ mirror'.reverse[id] \in DOMAIN mirror'.forward
                 /\ mirror'.forward[mirror'.reverse[id]] = id
      <3>1. CASE id \in Range(f)
        <4>1. PICK s \in DOMAIN f : f[s] = id
          BY <3>1 DEF Range
        <4> QED  BY <2>4, <4>1
      <3>2. CASE id \notin Range(f)
        <4> DEFINE s == mirror.reverse[id]
        <4>1. mirror'.reverse[id] = s /\ s \in DOMAIN mirror.forward /\ mirror.forward[s] = id
          BY <1>2, <2>4, <3>2
        <4>2. <<s, id>> \in Pairs'
          BY <1>2, <4>1
        <4>3. s \in DOMAIN f => f[s] = id
          BY <2>1, <4>2 DEF Compatible
        <4>4. s \notin DOMAIN f
          BY <2>4, <3>2, <4>3
        <4> QED  BY <2>4, <4>1, <4>4
      <3> QED  BY <3>1, <3>2
    <2> QED  BY <2>4, <2>5, <2>6 DEF MirrorInv, ContainsId, ContainsValue
  <1> QED  BY <1>3, <1>4 DEF Learns

(* The engine's ids after it interned strings. *)
LEMMA Interned ==
    ASSUME EngineInv, NEW strings, NEW ids \in EngineIntern(engine.ids, strings)
    PROVE  /\ DOMAIN ids = DOMAIN engine.ids \cup strings
           /\ ids \in [DOMAIN ids -> SymbolIds] /\ IsInjective(ids)
           /\ \A s \in DOMAIN engine.ids : ids[s] = engine.ids[s]
  BY DEF EngineIntern, IsRestriction

(* A step whose engine has those ids. *)
LEMMA GrowsBy ==
    ASSUME EngineInv, session' = session, seeded' = seeded,
           NEW strings, NEW ids \in EngineIntern(engine.ids, strings),
           engine' = [ids |-> ids, rows |-> engine'.rows]
    PROVE  Grows /\ EngineInv'
  <1>1. engine'.ids = ids
    OBVIOUS
  <1>2. /\ DOMAIN ids = DOMAIN engine.ids \cup strings
        /\ ids \in [DOMAIN ids -> SymbolIds] /\ IsInjective(ids)
        /\ \A s \in DOMAIN engine.ids : ids[s] = engine.ids[s]
    BY Interned
  <1>3. Grows
    BY <1>1, <1>2 DEF Grows
  <1>4. \A fact \in ToSet(session.facts) : StringsOf(fact) \subseteq DOMAIN ids
    BY <1>2 DEF EngineInv
  <1> HIDE DEF IsInjective
  <1> QED  BY <1>1, <1>2, <1>3, <1>4 DEF EngineInv

(* And whose table learns some of them. *)
LEMMA LearnsBy ==
    ASSUME NEW strings, Unknown(mirror, strings) \subseteq DOMAIN engine'.ids,
           mirror' \in {mirror, Intern(mirror, engine'.ids, strings)}
    PROVE  Learns
  <1> DEFINE f == Restrict(engine'.ids, Unknown(mirror, strings))
  <1>1. DOMAIN f = Unknown(mirror, strings) /\ \A s \in DOMAIN f : f[s] = engine'.ids[s]
    BY DEF Restrict
  <1>2. \A s \in DOMAIN f : <<s, f[s]>> \in Pairs'
    BY <1>1 DEF Pairs
  <1>3. mirror' \in {mirror, Learn(mirror, f)}
    BY DEF Intern
  <1> QED  BY <1>2, <1>3 DEF Learns

--------------------------------------------------------------------------------
(* What the engine stores of a call. A call it refuses, and one that raises   *)
(* before, add no rows.                                                     *)
NothingWritten == raised' # "none" => engine'.rows = engine.rows

LEMMA Applied ==
    ASSUME EngineInv, NEW ids, NEW lanes, NEW rows, NEW diff, NEW refused, NEW rejects,
           "none" \notin rejects, Apply(ids, lanes, rows, diff, refused, rejects)
    PROVE  engine' = [ids |-> ids, rows |-> engine'.rows] /\ NothingWritten
  <1>1. PICK rc \in {0} \cup Refusals :
          /\ raised' \in {Check(rc)} \cup (IF rc = 0 THEN {} ELSE rejects)
          /\ IF rc = 0 THEN engine' = [ids |-> ids, rows |-> AddAll(engine.rows, lanes, diff)]
             ELSE engine' = [engine EXCEPT !.ids = ids]
    BY DEF Apply
  <1>2. CASE rc = 0
    BY <1>1, <1>2 DEF Check, NothingWritten
  <1>3. CASE rc # 0
    <2>1. engine' = [ids |-> ids, rows |-> engine.rows]
      BY <1>1, <1>3 DEF EngineInv
    <2> QED  BY <2>1 DEF NothingWritten
  <1> QED  BY <1>2, <1>3

(* An engine that a call leaves alone keeps its ids as well. *)
LEMMA GrowsAsItIs ==
    ASSUME EngineInv, session' = session, seeded \subseteq seeded',
           engine' = [ids |-> engine.ids, rows |-> engine'.rows]
    PROVE  Grows /\ EngineInv'
  <1>1. engine'.ids = engine.ids
    OBVIOUS
  <1> HIDE DEF IsInjective
  <1> QED  BY <1>1 DEF Grows, EngineInv

(* The strings of an insert or a remove, and those of a symbol call, are      *)
(* known to the engine before the table has them.                           *)
LEMMA EasySendSteps ==
    ASSUME EngineInv, NEW row, NEW diff, EasySend(row, diff), session' = session, seeded' = seeded
    PROVE  Grows /\ EngineInv' /\ Learns /\ NothingWritten
  <1> DEFINE strings == StringsOf(Taken(row))
             unknown == Unknown(mirror, strings)
  <1>1. PICK ids \in EngineIntern(engine.ids, unknown) :
          /\ mirror' = Intern(mirror, ids, strings)
          /\ IF RowError(row) # "none"
             THEN Raise(RowError(row)) /\ engine' = [engine EXCEPT !.ids = ids]
             ELSE Apply(ids, <<RowToInt64(row, mirror')>>, <<row>>, diff, FALSE, {})
    BY DEF EasySend
  <1>2. engine' = [ids |-> ids, rows |-> engine'.rows] /\ NothingWritten
    <2>1. CASE RowError(row) # "none"
      <3>1. engine' = [ids |-> ids, rows |-> engine.rows]
        BY <1>1, <2>1 DEF EngineInv
      <3> QED  BY <3>1 DEF NothingWritten
    <2>2. CASE RowError(row) = "none"
      BY <1>1, <2>2, Applied
    <2> QED  BY <2>1, <2>2
  <1>3. Grows /\ EngineInv'
    BY <1>2, GrowsBy
  <1>4. unknown \subseteq DOMAIN engine'.ids /\ mirror' = Intern(mirror, engine'.ids, strings)
    <2>1. engine'.ids = ids
      BY <1>2
    <2>2. DOMAIN ids = DOMAIN engine.ids \cup unknown
      BY <1>1, Interned
    <2> QED  BY <1>1, <2>1, <2>2
  <1> HIDE DEF strings
  <1>5. Learns
    BY <1>4, LearnsBy
  <1> QED  BY <1>2, <1>3, <1>5

LEMMA InternFailsSteps ==
    ASSUME EngineInv, NEW row, InternFails(row), session' = session, seeded' = seeded
    PROVE  Grows /\ EngineInv' /\ Learns /\ NothingWritten
  <1>1. PICK strings, ids :
          /\ ids \in EngineIntern(engine.ids, Unknown(mirror, strings))
          /\ mirror' = Intern(mirror, ids, strings) /\ engine' = [engine EXCEPT !.ids = ids]
    BY DEF InternFails
  <1>2. engine' = [ids |-> ids, rows |-> engine.rows]
    BY <1>1 DEF EngineInv
  <1>3. engine'.ids = ids /\ engine'.rows = engine.rows /\ engine' = [ids |-> ids, rows |-> engine'.rows]
    BY <1>2
  <1>4. Grows /\ EngineInv'
    BY <1>1, <1>3, GrowsBy
  <1>5. DOMAIN ids = DOMAIN engine.ids \cup Unknown(mirror, strings)
    BY <1>1, Interned
  <1>6. Learns
    BY <1>1, <1>3, <1>5, LearnsBy
  <1> QED  BY <1>3, <1>4, <1>6 DEF NothingWritten

LEMMA EasyIudSteps ==
    ASSUME EngineInv, NEW row, NEW diff, EasyIud(row, diff), session' = session, seeded' = seeded
    PROVE  Grows /\ EngineInv' /\ Learns /\ NothingWritten
  BY EasySendSteps, InternFailsSteps DEF EasyIud

LEMMA SymWriteSteps ==
    ASSUME EngineInv, NEW row, NEW diff, SymWrite(row, diff)
    PROVE  Grows /\ EngineInv' /\ Learns /\ NothingWritten
  <1> DEFINE strings == StringsOf(row)
  <1>1. PICK ids \in EngineIntern(engine.ids, strings) :
          /\ Apply(ids, <<[c \in DOMAIN row |-> ids[String(row[c])]]>>, <<row>>, diff, FALSE, {})
          /\ mirror' = IF raised' = "none" THEN Intern(mirror, ids, strings) ELSE mirror
    BY DEF SymWrite
  <1>2. engine' = [ids |-> ids, rows |-> engine'.rows] /\ NothingWritten
    BY <1>1, Applied
  <1>3. session' = session /\ seeded' = seeded
    BY DEF SymWrite, Call
  <1>4. Grows /\ EngineInv'
    BY <1>2, <1>3, GrowsBy
  <1> HIDE DEF strings
  <1>5. Unknown(mirror, strings) \subseteq DOMAIN engine'.ids
    <2>1. engine'.ids = ids
      BY <1>2
    <2>2. DOMAIN ids = DOMAIN engine.ids \cup strings
      BY <1>1, Interned
    <2> QED  BY <2>1, <2>2 DEF Unknown
  <1>6. mirror' \in {mirror, Intern(mirror, engine'.ids, strings)}
    BY <1>1, <1>2
  <1> QED  BY <1>2, <1>4, <1>5, <1>6, LearnsBy

(* A batch of an advanced session is sent as a whole, or not at all. *)
LEMMA BatchSteps ==
    ASSUME EngineInv, NEW batch, NEW diff, UntypedWrite(batch, diff) \/ TypedWrite(batch, diff)
    PROVE  Grows /\ EngineInv' /\ Learns /\ NothingWritten
  <1>1. engine' = [ids |-> engine.ids, rows |-> engine'.rows] /\ NothingWritten
    <2>1. CASE engine' = engine
      BY <2>1 DEF EngineInv, NothingWritten
    <2>2. ASSUME NEW lanes, NEW refused, NEW rejects, Apply(engine.ids, lanes, batch, diff, refused, rejects),
                      "none" \notin rejects
          PROVE  engine' = [ids |-> engine.ids, rows |-> engine'.rows] /\ NothingWritten
      BY <2>2, Applied
    <2>3. engine' = engine \/ \E lanes, refused, rejects :
                    "none" \notin rejects /\ Apply(engine.ids, lanes, batch, diff, refused, rejects)
      <3>1. CASE UntypedWrite(batch, diff)
        BY <3>1 DEF UntypedWrite
      <3>2. CASE TypedWrite(batch, diff)
        BY <3>2 DEF TypedWrite
      <3> QED  BY <3>1, <3>2
    <2> QED  BY <2>1, <2>2, <2>3
  <1>2. session' = session /\ seeded' = seeded /\ mirror' = mirror
    BY DEF UntypedWrite, TypedWrite, Call
  <1>3. Grows /\ EngineInv'
    BY <1>1, <1>2, GrowsAsItIs
  <1> QED  BY <1>1, <1>2, <1>3 DEF Learns

LEMMA SeedInternSteps ==
    ASSUME EngineInv, NEW s, NEW id, SeedIntern(s, id)
    PROVE  Grows /\ EngineInv' /\ Learns /\ NothingWritten
  <1> DEFINE f == [x \in {s} |-> id]
  <1>1. /\ session' = session /\ engine' = engine /\ seeded' = seeded \cup {<<s, id>>}
        /\ mirror' = Learn(mirror, f) /\ raised' = "none"
    BY DEF SeedIntern, Call, Remember
  <1>2. engine' = [ids |-> engine.ids, rows |-> engine'.rows]
    BY <1>1 DEF EngineInv
  <1>3. Grows /\ EngineInv'
    BY <1>1, <1>2, GrowsAsItIs
  <1>4. \A x \in DOMAIN f : <<x, f[x]>> \in Pairs'
    BY <1>1 DEF Pairs
  <1> HIDE DEF f
  <1> QED  BY <1>1, <1>3, <1>4 DEF Learns, NothingWritten

(* insert_with_dedupe. *)
LEMMA DedupeEndSteps ==
    ASSUME EngineInv, DedupeEnd
    PROVE  Grows /\ EngineInv' /\ Learns /\ NothingWritten
  <1>1. session' = session /\ seeded' = seeded
    BY DEF DedupeEnd
  <1>2. CASE EasyIud(pending.row, 1)
    BY <1>1, <1>2, EasyIudSteps
  <1>3. CASE UNCHANGED <<mirror, engine, doubled>>
    <2>1. engine' = [ids |-> engine.ids, rows |-> engine'.rows]
      BY <1>3 DEF EngineInv
    <2>2. Grows /\ EngineInv'
      BY <1>1, <2>1, GrowsAsItIs
    <2> QED  BY <1>3, <2>2 DEF Learns, NothingWritten
  <1> QED  BY <1>2, <1>3 DEF DedupeEnd

LEMMA QuietSteps ==
    ASSUME EngineInv, UNCHANGED <<session, mirror, engine, seeded>>
    PROVE  Grows /\ EngineInv' /\ Learns /\ NothingWritten
  <1>1. engine' = [ids |-> engine.ids, rows |-> engine'.rows]
    BY DEF EngineInv
  <1>2. Grows /\ EngineInv'
    BY <1>1, GrowsAsItIs
  <1> QED  BY <1>2 DEF Learns, NothingWritten

LEMMA StepGrows ==
    ASSUME EngineInv, [Next]_vars
    PROVE  Grows /\ EngineInv' /\ Learns /\ NothingWritten
  <1>1. ASSUME NEW row, NEW diff, EasyWrite(row, diff)
        PROVE  Grows /\ EngineInv' /\ Learns /\ NothingWritten
    BY <1>1, EasyIudSteps DEF EasyWrite, Call
  <1>2. ASSUME NEW row, DedupeBegin(row)
        PROVE  Grows /\ EngineInv' /\ Learns /\ NothingWritten
    BY <1>2, QuietSteps DEF DedupeBegin, Call, history
  <1>3. CASE DedupePreview
    BY <1>3, QuietSteps DEF DedupePreview, history
  <1>4. CASE UNCHANGED vars
    BY <1>4, QuietSteps DEF vars
  <1> QED
    BY <1>1, <1>2, <1>3, <1>4, SymWriteSteps, BatchSteps, SeedInternSteps, DedupeEndSteps
    DEF Next, Finished

--------------------------------------------------------------------------------
(* What Program.facts hands out of an inline fact, against the row that       *)
(* insert_with_dedupe is asked about.                                       *)
LEMMA SameTransitive ==
    ASSUME NEW u, NEW v, NEW w, SameNumber(u, v), SameNumber(v, w)
    PROVE  SameNumber(u, w)
  BY DEF SameNumber

LEMMA FactParts ==
    ASSUME NEW type \in ColumnTypes \ {"STRING"}, NEW v \in FactValues(type)
    PROVE  /\ v \in Values /\ ~IsStr(v) /\ EncodeError(v, type) = "none" /\ Fits(v, type)
           /\ v.core.sp = "finite"
           /\ type # "FLOAT" => \E i \in Int : /\ v = Whole("int", i) \/ v = Whole("bool", i)
                                               /\ WholePart(v.core) = i /\ v.core.num = Unit * i
                                               /\ type = "INT" => i \in -Half .. Half - 1
  <1>1. CASE type = "FLOAT"
    <2>1. PICK n \in FloatNums : v = Value("float", Core("finite", n))
      BY <1>1 DEF FactValues
    <2>2. v.core \in Floats /\ v.core.sp = "finite" /\ v.core.num = n /\ v.kind = "float"
      BY <2>1 DEF Floats, Value, Core
    <2>3. v \in [kind : FloatKinds, core : Floats]
      BY <2>1, <2>2 DEF Value, FloatKinds
    <2> QED
      BY <1>1, <2>2, <2>3
      DEF Values, IsStr, EncodeError, Fits, Overflows, IntKinds, FloatKinds, FloatLike
  <1>2. CASE type # "FLOAT"
    <2>1. PICK i \in Int, kind \in {"int", "bool"} :
            /\ v = Whole(kind, i)
            /\ type = "BOOL" => i \in {0, 1} /\ kind = "bool"
            /\ type = "INT" => i \in -Half .. Half - 1 /\ kind = "int"
            /\ type = "UINT" => i \in Lane /\ kind = "int"
      BY <1>2, WidthAssumption, SMT DEF FactValues, ColumnTypes, Lane, Width
    <2>2. v.kind = kind /\ v.core = Core("finite", Unit * i) /\ v.core.sp = "finite" /\ v.core.num = Unit * i
      BY <2>1 DEF Whole, Value, Core
    <2>3. WholePart(v.core) = i /\ v.core.num % Unit = 0
      BY <2>2, WidthAssumption, DivOfMultiple DEF WholePart
    <2>4. v \in [kind : IntKinds, core : WholeCores]
      <3>1. Unit * i \in Int
        BY WidthAssumption
      <3>2. v.core \in WholeCores
        BY <2>2, <2>3, <3>1 DEF Core, WholeCores, Exact
      <3> QED  BY <2>1, <2>2, <3>2 DEF Whole, Value, IntKinds
    <2>5. EncodeError(v, type) = "none" /\ ~IsStr(v) /\ v \in Values
      BY <1>2, <2>1, <2>2, <2>4 DEF EncodeError, IntKinds, FloatLike, FloatKinds, IsStr, Values
    <2>6. Fits(v, type)
      BY <1>2, <2>1, <2>2, <2>3 DEF Fits, ColumnTypes
    <2> QED  BY <2>1, <2>2, <2>3, <2>5, <2>6
  <1> QED  BY <1>1, <1>2

LEMMA DecodedNumber ==
    ASSUME NEW type \in ColumnTypes \ {"STRING"}, NEW v \in FactValues(type), NEW w,
           SameNumber(v, w), EasyFits(w, type)
    PROVE  LET lane == EncodeLane(v, type)
               got == IF type \in {"BOOL", "FLOAT"} THEN DecodeLane(lane, type)
                      ELSE Whole("int", Signed(lane))
           IN SameNumber(got, w) /\ ~IsStr(got)
  <1>1. v \in Values /\ EncodeError(v, type) = "none" /\ Fits(v, type) /\ v.core.sp = "finite"
    BY FactParts
  <1>2. CASE type \in {"BOOL", "FLOAT"}
    <2>1. SameNumber(DecodeLane(EncodeLane(v, type), type), w)
      BY <1>1, RoundTrip, SameTransitive
    <2>2. ~IsStr(DecodeLane(EncodeLane(v, type), type))
      BY <1>2 DEF DecodeLane, IsStr, Value, Whole
    <2> QED  BY <1>2, <2>1, <2>2
  <1>3. CASE type \in {"INT", "UINT"}
    <2>1. PICK i \in Int : /\ v = Whole("int", i) \/ v = Whole("bool", i)
                           /\ WholePart(v.core) = i /\ v.core.num = Unit * i
      BY <1>3, FactParts
    <2>2. w.core.num = v.core.num /\ Fits(w, "INT")
      BY <1>1, <1>3 DEF SameNumber, EasyFits, Fits
    <2>3. i \in -Half .. Half - 1
      BY <2>1, <2>2 DEF Fits, WholePart
    <2>4. EncodeLane(v, type) = Masked(i)
      BY <1>1, <1>3, <2>1, NothingLost
    <2>5. Whole("int", Signed(EncodeLane(v, type))) = Whole("int", i)
      BY <2>3, <2>4, SignedMask
    <2>6. SameNumber(Whole("int", i), w) /\ ~IsStr(Whole("int", i))
      BY <2>1 DEF SameNumber, Whole, Value, Core, IsStr
    <2> QED  BY <1>3, <2>5, <2>6
  <1> QED  BY <1>2, <1>3 DEF ColumnTypes

(* A string the table knows is handed out as it is, if the table is true. *)
LEMMA DecodedString ==
    ASSUME EngineInv, MirrorInv, Compatible, NEW s \in DOMAIN engine.ids, ContainsValue(mirror, s)
    PROVE  Lookup(mirror, Signed(engine.ids[s])) = Str(s)
  <1>1. engine.ids[s] \in SymbolIds
    BY DEF EngineInv
  <1>2. Signed(engine.ids[s]) = engine.ids[s]
    <2>1. SymbolIds \subseteq 0 .. Half - 1
      BY RowsAssumption
    <2>2. engine.ids[s] \in 0 .. Half - 1
      BY <1>1, <2>1
    <2> QED  BY <2>2, WidthAssumption DEF Signed
  <1>3. /\ <<s, mirror.forward[s]>> \in Pairs /\ <<s, engine.ids[s]>> \in Pairs
        /\ ContainsId(mirror, mirror.forward[s]) /\ mirror.reverse[mirror.forward[s]] = s
    BY DEF MirrorInv, ContainsValue, Pairs
  <1>4. mirror.forward[s] = engine.ids[s]
    BY <1>3 DEF Compatible
  <1> QED  BY <1>2, <1>3, <1>4 DEF Lookup

LEMMA SessionParts ==
    ASSUME EngineInv, NEW fact \in ToSet(session.facts)
    PROVE  /\ session.types \in Seq(ColumnTypes) /\ fact \in Seq(Inputs)
           /\ DOMAIN fact = DOMAIN session.types
           /\ \A c \in DOMAIN fact : IsFactOf(fact[c], session.types[c])
           /\ session.rows \subseteq Seq(Inputs)
  <1>1. PICK i \in DOMAIN session.facts : fact = session.facts[i]
    BY DEF ToSet
  <1>2. session.facts \in Seq(Seq(Inputs))
    BY RowsAssumption DEF EngineInv
  <1>3. fact \in Seq(Inputs)
    BY <1>1, <1>2, ElementOfSeq, LenProperties
  <1> QED  BY <1>1, <1>3, RowsAssumption DEF EngineInv

LEMMA DecodedFact ==
    ASSUME EngineInv, MirrorInv, Compatible, NEW fact \in ToSet(session.facts),
           NEW row \in session.rows, Decodable(row), SameRow(fact, row)
    PROVE  SameRow(DecodeInt64(FactLanes(fact, engine.ids), mirror), row)
  <1> DEFINE lanes == FactLanes(fact, engine.ids)
             got == DecodeInt64(lanes, mirror)
  <1> SUFFICES SameRow(got, row)
    OBVIOUS
  <1>1. /\ session.types \in Seq(ColumnTypes) /\ fact \in Seq(Inputs) /\ row \in Seq(Inputs)
        /\ DOMAIN fact = DOMAIN session.types
        /\ \A c \in DOMAIN fact : IsFactOf(fact[c], session.types[c])
    BY SessionParts
  <1>2. Len(fact) = Len(row) /\ Len(row) \in Nat /\ DOMAIN fact = 1 .. Len(row) /\ DOMAIN row = 1 .. Len(row)
    BY <1>1, LenProperties DEF SameRow
  <1>3. DOMAIN lanes = 1 .. Len(row) /\ DOMAIN got = 1 .. Len(row)
    BY <1>2 DEF FactLanes, DecodeInt64
  <1>4. Len(got) = Len(row)
    <2> DEFINE decoded(c) ==
                  CASE session.types[c] = "STRING" -> Lookup(mirror, Signed(lanes[c]))
                    [] session.types[c] \in {"BOOL", "FLOAT"} -> DecodeLane(lanes[c], session.types[c])
                    [] session.types[c] \in {"INT", "UINT"} -> Whole("int", Signed(lanes[c]))
    <2>1. got = [c \in DOMAIN lanes |-> decoded(c)]
      BY DEF DecodeInt64
    <2> HIDE DEF decoded
    <2>2. got \in [1 .. Len(row) -> Range(got)]
      <3> HIDE DEF lanes, got
      <3> QED  BY <1>3, <2>1 DEF Range
    <2> HIDE DEF got
    <2>3. got \in Seq(Range(got))
      BY <1>2, <2>2, SeqDef
    <2>4. Len(got) \in Nat /\ DOMAIN got = 1 .. Len(got)
      BY <2>3, LenProperties
    <2> QED  BY <1>2, <1>3, <2>4
  <1>5. ASSUME NEW c \in 1 .. Len(row)
        PROVE  Same(got[c], row[c])
    <2> DEFINE type == session.types[c]
    <2>1. type \in ColumnTypes /\ IsFactOf(fact[c], type) /\ Same(fact[c], row[c])
      BY <1>1, <1>2, ElementOfSeq, LenProperties DEF SameRow
    <2>2. lanes[c] = IF IsStr(fact[c]) THEN engine.ids[String(fact[c])] ELSE EncodeLane(fact[c], type)
      BY <1>2 DEF FactLanes
    <2>3. got[c] = CASE type = "STRING" -> Lookup(mirror, Signed(lanes[c]))
                     [] type \in {"BOOL", "FLOAT"} -> DecodeLane(lanes[c], type)
                     [] type \in {"INT", "UINT"} -> Whole("int", Signed(lanes[c]))
      BY <1>3 DEF DecodeInt64
    <2>4. IF IsStr(row[c]) THEN ContainsValue(mirror, String(row[c])) ELSE EasyFits(row[c], type)
      BY <1>2 DEF Decodable
    <2> HIDE DEF lanes, got, type
    <2>5. CASE type = "STRING"
      <3>1. IsStr(fact[c]) /\ fact[c] = Str(String(fact[c]))
        BY <2>1, <2>5 DEF IsFactOf, IsStr, Str, Value
      <3>2. row[c] = fact[c]
        BY <2>1, <3>1 DEF Same
      <3>3. String(fact[c]) \in DOMAIN engine.ids
        BY <1>2, <3>1 DEF EngineInv, StringsOf, ToSet
      <3>4. got[c] = Str(String(fact[c]))
        BY <2>2, <2>3, <2>4, <2>5, <3>1, <3>2, <3>3, DecodedString
      <3> QED  BY <3>1, <3>2, <3>4 DEF Same
    <2>6. CASE type # "STRING"
      <3>1. fact[c] \in FactValues(type)
        BY <2>1, <2>6 DEF IsFactOf
      <3>2. ~IsStr(fact[c])
        BY <2>1, <2>6, <3>1, FactParts
      <3>3. ~IsStr(row[c]) /\ SameNumber(fact[c], row[c])
        BY <2>1, <3>2 DEF Same
      <3>4. EasyFits(row[c], type)
        BY <2>4, <3>3
      <3>5. got[c] = IF type \in {"BOOL", "FLOAT"} THEN DecodeLane(EncodeLane(fact[c], type), type)
                     ELSE Whole("int", Signed(EncodeLane(fact[c], type)))
        BY <2>1, <2>2, <2>3, <2>6, <3>2 DEF ColumnTypes
      <3>6. SameNumber(got[c], row[c]) /\ ~IsStr(got[c])
        BY <2>1, <2>6, <3>1, <3>3, <3>4, <3>5, DecodedNumber
      <3> QED  BY <3>3, <3>6 DEF Same
    <2> QED  BY <2>5, <2>6
  <1> HIDE DEF got
  <1> QED  BY <1>3, <1>4, <1>5 DEF SameRow

--------------------------------------------------------------------------------
(* Each step keeps what insert_with_dedupe relies on. *)

(* What the table knew, it knows. *)
LEMMA StaysDecodable ==
    ASSUME Grows, NEW row, Decodable(row),
           \A s \in DOMAIN mirror.forward : ContainsValue(mirror, s)'
    PROVE  Decodable(row)'
  BY DEF Grows, Decodable, ContainsValue, EasyFits

LEMMA DedupePreviewKeeps ==
    ASSUME EngineInv, MirrorInv, DedupeInv, DedupePreview
    PROVE  DedupeInv'
  <1> DEFINE fact == Head(pending.todo)
             got == DecodeInt64(FactLanes(fact, engine.ids), mirror)
  <1>1. /\ pending' = [row |-> pending.row, todo |-> Tail(pending.todo),
                       existing |-> pending.existing \cup {got}, known |-> pending.known]
        /\ UNCHANGED <<session, mirror, engine, seeded>>
    BY DEF DedupePreview, DedupeInv, history
  <1>2. pending.todo # <<>> /\ pending.todo \in Seq(ToSet(session.facts))
    BY DEF DedupePreview, DedupeInv
  <1>3. /\ fact \in ToSet(session.facts) /\ Tail(pending.todo) \in Seq(ToSet(session.facts))
        /\ Len(Tail(pending.todo)) = Len(pending.todo) - 1
        /\ \A i \in 1 .. Len(Tail(pending.todo)) : Tail(pending.todo)[i] = pending.todo[i + 1]
    BY <1>2, HeadTailProperties
  <1>4. pending # NoCall /\ session.class = "easy" /\ pending.row \in session.rows
    BY <1>2 DEF DedupeInv, NoCall
  <1>5. pending'.existing # {}
    BY <1>1
  <1>6. pending' # NoCall
    BY <1>5 DEF NoCall
  <1>7. ASSUME Compatible, pending.known
        PROVE  /\ Decodable(pending.row)
               /\ \A f \in ToSet(session.facts) : SameRow(f, pending.row) =>
                     \/ \E i \in DOMAIN Tail(pending.todo) : SameRow(Tail(pending.todo)[i], pending.row)
                     \/ \E row \in pending.existing \cup {got} : SameRow(row, pending.row)
    <2>1. Decodable(pending.row)
      BY <1>7 DEF DedupeInv
    <2>2. SUFFICES ASSUME NEW f \in ToSet(session.facts), SameRow(f, pending.row)
                   PROVE  \/ \E i \in DOMAIN Tail(pending.todo) : SameRow(Tail(pending.todo)[i], pending.row)
                          \/ \E row \in pending.existing \cup {got} : SameRow(row, pending.row)
      BY <2>1
    <2>3. CASE \E row \in pending.existing : SameRow(row, pending.row)
      BY <2>3
    <2>4. CASE \E i \in DOMAIN pending.todo : SameRow(pending.todo[i], pending.row)
      <3>1. PICK i \in DOMAIN pending.todo : SameRow(pending.todo[i], pending.row)
        BY <2>4
      <3>2. i \in 1 .. Len(pending.todo) /\ Len(pending.todo) \in Nat
        BY <1>2, LenProperties
      <3>3. CASE i = 1
        <4>1. SameRow(fact, pending.row)
          BY <3>1, <3>3
        <4>2. SameRow(got, pending.row)
          BY <1>3, <1>4, <1>7, <2>1, <4>1, DecodedFact
        <4> QED  BY <4>2
      <3>4. CASE i # 1
        <4>1. i - 1 \in 1 .. Len(Tail(pending.todo)) /\ (i - 1) + 1 = i
          BY <1>3, <3>2, <3>4
        <4>2. i - 1 \in DOMAIN Tail(pending.todo)
          BY <1>3, <4>1, LenProperties
        <4>3. Tail(pending.todo)[i - 1] = pending.todo[i]
          BY <1>3, <4>1
        <4> QED  BY <3>1, <4>2, <4>3
      <3> QED  BY <3>3, <3>4
    <2> QED  BY <1>7, <2>2, <2>3, <2>4 DEF DedupeInv
  <1>8. Compatible' => Compatible
    BY <1>1 DEF Compatible, Pairs
  <1>9. pending'.row = pending.row
    BY <1>1
  <1>10. Decodable(pending.row) => Decodable(pending.row)'
    BY <1>1, <1>9 DEF Decodable, ContainsValue, EasyFits
  <1> HIDE DEF fact, got
  <1> QED  BY <1>1, <1>3, <1>4, <1>6, <1>7, <1>8, <1>10 DEF DedupeInv

LEMMA DedupeBeginKeeps ==
    ASSUME EngineInv, NEW row \in session.rows, DedupeBegin(row)
    PROVE  DedupeInv'
  <1>1. /\ pending' = [row |-> row, todo |-> session.facts, existing |-> {}, known |-> Decodable(row)]
        /\ UNCHANGED <<session, mirror>> /\ session.class = "easy"
    BY DEF DedupeBegin, Call
  <1>2. session.facts \in Seq(Seq(Inputs))
    BY RowsAssumption DEF EngineInv
  <1>3. session.facts \in Seq(ToSet(session.facts))
    <2>1. Len(session.facts) \in Nat /\ DOMAIN session.facts = 1 .. Len(session.facts)
      BY <1>2, LenProperties
    <2>2. session.facts \in [1 .. Len(session.facts) -> ToSet(session.facts)]
      BY <1>2, <2>1, LenProperties DEF ToSet
    <2> QED  BY <2>1, <2>2, SeqDef
  <1>4. pending'.known => pending' # NoCall
    BY DEF NoCall
  <1>5. pending'.known => Decodable(row)'
    BY <1>1 DEF Decodable, ContainsValue, EasyFits
  <1>6. \A f \in ToSet(session.facts) : SameRow(f, row) =>
            \E i \in DOMAIN session.facts : SameRow(session.facts[i], row)
    BY DEF ToSet
  <1> QED  BY <1>1, <1>3, <1>4, <1>5, <1>6 DEF DedupeInv

LEMMA PendingStays ==
    ASSUME EngineInv, MirrorInv, DedupeInv, Grows, Learns, pending' = pending
    PROVE  DedupeInv'
  <1>1. session' = session /\ (Compatible' => Compatible)
    BY PairsGrow DEF Grows
  <1>2. Compatible' => (Decodable(pending.row) => Decodable(pending.row)')
    BY LearnKeeps, StaysDecodable
  <1> QED  BY <1>1, <1>2 DEF DedupeInv

LEMMA DedupeEnds ==
    ASSUME EngineInv, DedupeInv, DoubledInv, Grows, DedupeEnd
    PROVE  DedupeInv' /\ DoubledInv'
  <1>1. pending # NoCall /\ pending.todo = <<>> /\ pending' = NoCall /\ session' = session
    BY DEF DedupeEnd
  <1>2. DedupeInv'
    <2>1. <<>> \in Seq(ToSet(session.facts))
      OBVIOUS
    <2> QED  BY <1>1, <2>1 DEF DedupeInv, NoCall
  <1>3. DoubledInv'
    <2> SUFFICES ASSUME Compatible', NEW d \in doubled', d.known
                 PROVE  FALSE
      BY DEF DoubledInv
    <2>1. Compatible
      BY PairsGrow
    <2>2. d \notin doubled
      BY <2>1 DEF DoubledInv
    <2>3. /\ ~\E row \in pending.existing : SameRow(row, pending.row)
          /\ IsFact(pending.row) /\ d = [row |-> pending.row, known |-> pending.known]
      BY <2>2 DEF DedupeEnd
    <2>4. PICK i \in DOMAIN session.facts : SameRow(FactRow(session.facts[i]), pending.row)
      BY <2>3 DEF IsFact
    <2>5. session.facts[i] \in ToSet(session.facts)
      BY DEF ToSet
    <2>6. FactRow(session.facts[i]) = session.facts[i]
      <3>1. session.facts[i] \in Seq(Inputs) /\ session.class = "easy"
        BY <1>1, <2>5, SessionParts DEF DedupeInv
      <3>2. session.facts[i] = [c \in DOMAIN session.facts[i] |-> session.facts[i][c]]
        BY <3>1, LenProperties
      <3> QED  BY <3>1, <3>2 DEF FactRow
    <2>7. ~\E j \in DOMAIN pending.todo : SameRow(pending.todo[j], pending.row)
      BY <1>1
    <2> QED  BY <2>1, <2>3, <2>4, <2>5, <2>6, <2>7 DEF DedupeInv
  <1> QED  BY <1>2, <1>3

LEMMA InitHolds ==
    ASSUME Init
    PROVE  RowsInv
  <1> DEFINE strings == UNION {StringsOf(fact) : fact \in ToSet(session.facts)}
  <1>1. /\ session \in Sessions /\ mirror = EmptyTable /\ pending = NoCall
        /\ seeded = {} /\ doubled = {}
    BY DEF Init
  <1>2. PICK ids \in EngineIntern(<<>>, strings) : engine = [ids |-> ids, rows |-> engine.rows]
    <2>1. \E ids \in EngineIntern(<<>>, strings) : \E rows : engine = [ids |-> ids, rows |-> rows]
      BY DEF Init
    <2>2. \A ids, rows : engine = [ids |-> ids, rows |-> rows] => engine.rows = rows
      OBVIOUS
    <2> QED  BY <2>1, <2>2
  <1>3. engine.ids = ids
    BY <1>2
  <1>4. DOMAIN ids = strings /\ ids \in [DOMAIN ids -> SymbolIds] /\ IsInjective(ids)
    BY <1>2 DEF EngineIntern
  <1>5. \A fact \in ToSet(session.facts) : StringsOf(fact) \subseteq strings
    OBVIOUS
  <1> HIDE DEF strings
  <1>6. EngineInv
    BY <1>1, <1>2, <1>3, <1>4, <1>5 DEF EngineInv
  <1>7. DOMAIN mirror.forward = {} /\ DOMAIN mirror.reverse = {}
    BY <1>1 DEF EmptyTable
  <1>8. MirrorInv
    BY <1>7 DEF MirrorInv
  <1>9. DedupeInv /\ DoubledInv
    BY <1>1 DEF DedupeInv, DoubledInv, NoCall
  <1> QED  BY <1>6, <1>8, <1>9 DEF RowsInv

LEMMA StepKeeps ==
    ASSUME RowsInv, [Next]_vars
    PROVE  RowsInv'
  <1>1. EngineInv /\ MirrorInv /\ DedupeInv /\ DoubledInv
    BY DEF RowsInv
  <1>2. Grows /\ EngineInv' /\ Learns
    BY <1>1, StepGrows
  <1>3. MirrorInv'
    BY <1>1, <1>2, LearnKeeps
  <1>4. DoubledInv /\ doubled' = doubled => DoubledInv'
    BY <1>2, PairsGrow DEF DoubledInv
  <1>5. CASE DedupeEnd
    BY <1>1, <1>2, <1>3, <1>5, DedupeEnds DEF RowsInv
  <1>6. CASE DedupePreview
    <2>1. doubled' = doubled
      BY <1>6 DEF DedupePreview, history
    <2> QED  BY <1>1, <1>2, <1>3, <1>4, <1>6, <2>1, DedupePreviewKeeps DEF RowsInv
  <1>7. CASE \E row \in session.rows : DedupeBegin(row)
    <2>1. doubled' = doubled
      BY <1>7 DEF DedupeBegin, history
    <2> QED  BY <1>1, <1>2, <1>3, <1>4, <1>7, <2>1, DedupeBeginKeeps DEF RowsInv
  <1>8. CASE pending' = pending /\ doubled' = doubled
    BY <1>1, <1>2, <1>3, <1>4, <1>8, PendingStays DEF RowsInv
  <1>9. \/ DedupeEnd \/ DedupePreview \/ \E row \in session.rows : DedupeBegin(row)
        \/ pending' = pending /\ doubled' = doubled
    BY DEF Next, Finished, vars, EasyWrite, SymWrite, UntypedWrite, TypedWrite, SeedIntern
  <1> QED  BY <1>5, <1>6, <1>7, <1>8, <1>9

LEMMA AlwaysRows == Spec => []RowsInv
  <1>1. Init => RowsInv
    BY InitHolds
  <1>2. RowsInv /\ [Next]_vars => RowsInv'
    BY StepKeeps
  <1> QED  BY <1>1, <1>2, PTL DEF Spec

(* Pairs that are the engine's do not contradict each other. *)
LEMMA HonestPairs ==
    ASSUME EngineInv, Honest
    PROVE  /\ \A p \in Pairs : p[1] \in DOMAIN engine.ids /\ engine.ids[p[1]] = p[2]
           /\ Compatible
  <1>1. \A p \in Pairs : p[1] \in DOMAIN engine.ids /\ engine.ids[p[1]] = p[2]
    BY DEF Pairs, Honest
  <1> QED  BY <1>1 DEF Compatible, EngineInv, IsInjective

(* If every pair given to remember() is one of the engine, the intern table   *)
(* agrees with the engine's and with itself, whichever calls interned, which  *)
(* of them failed half-way, and whichever symbols the engine interned itself. *)
THEOREM TableSound == Spec => []MirrorSound
  <1>1. RowsInv => MirrorSound
    <2> SUFFICES ASSUME EngineInv, MirrorInv, Honest
                 PROVE  MirrorSound
      BY DEF RowsInv, MirrorSound
    <2>1. \A p \in Pairs : p[1] \in DOMAIN engine.ids /\ engine.ids[p[1]] = p[2]
      BY HonestPairs
    <2>2. Compatible
      BY HonestPairs
    <2>3. ASSUME NEW s \in DOMAIN mirror.forward
          PROVE  /\ s \in DOMAIN engine.ids /\ mirror.forward[s] = engine.ids[s]
                 /\ Lookup(mirror, mirror.forward[s]) = Str(s)
      BY <2>1, <2>2 DEF MirrorInv, Lookup
    <2> QED  BY <2>2, <2>3 DEF MirrorSound, MirrorInv
  <1> QED  BY <1>1, AlwaysRows, PTL

(* insert_with_dedupe never inserts an inline fact again whose strings the    *)
(* table knew when it was called, whatever other calls do between its         *)
(* lookups and its insert.                                                  *)
THEOREM KnownFactsSkipped == Spec => []KnownNeverDoubled
  <1>1. RowsInv => KnownNeverDoubled
    <2> SUFFICES ASSUME EngineInv, DoubledInv, Honest
                 PROVE  \A d \in doubled : ~d.known
      BY DEF RowsInv, KnownNeverDoubled
    <2>1. Compatible
      BY HonestPairs
    <2> QED  BY <2>1 DEF DoubledInv
  <1> QED  BY <1>1, AlwaysRows, PTL

(* No call that raises has added a row, one that the engine refuses, one      *)
(* whose row cannot be converted, or one that meets a value it cannot         *)
(* convert after other rows of its batch.                                   *)
THEOREM RaisedIsUndone == Spec => RaisedWritesNothing
  <1>1. RowsInv /\ [Next]_vars => [raised' # "none" => engine'.rows = engine.rows]_vars
    BY StepGrows DEF RowsInv, NothingWritten
  <1> QED  BY <1>1, AlwaysRows, PTL DEF Spec, RaisedWritesNothing
--------------------------------------------------------------------------------
(* What a column can hold, and how the relation keeps it. *)

(* The lane a column has for a value it can hold, and the row it has so. *)
Id(s) == (CHOOSE p \in Pairs : p[1] = s)[2]
LaneOf(v, type) ==
    IF IsStr(v) THEN Id(String(v))
    ELSE IF type = "FLOAT" THEN Bits[Core("finite", v.core.num)]
    ELSE Masked(WholePart(v.core))
LanesOf(row) == [c \in DOMAIN row |-> LaneOf(row[c], session.types[c])]

(* The values a column can hold, and the rows a relation can. *)
Holds(v, type) ==
    /\ v \in Inputs
    /\ IF type = "STRING" /\ session.class = "easy"
       THEN IsStr(v) /\ \E p \in Pairs : p[1] = String(v)
       ELSE ~IsStr(v) /\ Fits(v, type) /\ v.core.sp \in {"finite", "-0"}
Storable(row) ==
    /\ row \in Seq(Inputs) /\ DOMAIN row = DOMAIN session.types
    /\ \A c \in DOMAIN row : Holds(row[c], session.types[c])
Readable(row) ==
    /\ Storable(row) /\ RowFits(row)
    /\ \A c \in DOMAIN row : IsStr(row[c]) => ContainsValue(mirror, String(row[c]))

(* How often the source, and how often callers wrote the row of some lanes. *)
FactsAt(i) == FactLanes(session.facts[i], engine.ids)
InFacts(lanes) == Cardinality({i \in DOMAIN session.facts : FactsAt(i) = lanes})
InNet(lanes) ==
    LET rows == {r \in DOMAIN net : LanesOf(r) = lanes}
    IN IF rows = {} THEN 0 ELSE net[CHOOSE r \in rows : TRUE]

(* The relation is what the source and the callers wrote, lane by lane. *)
StoredInv ==
    fitted /\ Compatible =>
        /\ \A row \in DOMAIN net :
              Readable(row) /\ LanesOf(row) \in DOMAIN engine.rows /\ net[row] \in Int
        /\ \A r, s \in DOMAIN net : SameRow(r, s) => net[r] = net[s]
        /\ \A i \in DOMAIN session.facts : FactsAt(i) \in DOMAIN engine.rows
        /\ \A lanes \in DOMAIN engine.rows :
              /\ \/ \E row \in DOMAIN net : lanes = LanesOf(row)
                 \/ \E i \in DOMAIN session.facts : lanes = FactsAt(i)
              /\ engine.rows[lanes] = InFacts(lanes) + InNet(lanes)

(* What a session hands out of a lane. *)
ReadLane(lane, type) ==
    IF session.class = "easy" /\ type = "STRING" THEN Lookup(mirror, Signed(lane))
    ELSE IF session.class = "easy" /\ type \in {"INT", "UINT"} THEN Whole("int", Signed(lane))
    ELSE DecodeLane(lane, type)

--------------------------------------------------------------------------------
(* What a relation holds: the lanes of the rows that callers wrote, and of    *)
(* those of the source.                                                     *)
LEMMA InputParts ==
    ASSUME NEW v \in Inputs
    PROVE  /\ v.core.num \in Int
           /\ IsStr(v) => v = Str(String(v))
           /\ v.kind \in IntKinds \cup FloatLike => v \in Values /\ ~IsStr(v)
           /\ v.core.sp = "-0" => v.core.num = 0
  <1>1. CASE v \in Values
    <2>1. ~IsStr(v)
      BY <1>1, ValueParts DEF IsStr, IntKinds, FloatLike, FloatKinds
    <2> QED  BY <1>1, <2>1, ValueParts DEF Apart
  <1>2. CASE v \in [kind : {"str"}, core : [sp : STRING, num : {0}]]
    BY <1>2 DEF IsStr, Str, String, Value, Core, IntKinds, FloatLike, FloatKinds
  <1>3. CASE v = Other
    BY <1>3 DEF Other, Value, Core, IsStr, IntKinds, FloatLike, FloatKinds
  <1> QED  BY <1>1, <1>2, <1>3 DEF Inputs

LEMMA HeldNumber ==
    ASSUME NEW type \in ColumnTypes, NEW v, Holds(v, type), ~IsStr(v)
    PROVE  /\ v.core.num \in Int /\ WholePart(v.core) \in Int /\ v.core.sp \in {"finite", "-0"}
           /\ type = "FLOAT" => Core("finite", v.core.num) \in Floats
           /\ type # "FLOAT" => Unit * WholePart(v.core) = v.core.num
           /\ type = "BOOL" => WholePart(v.core) \in {0, 1}
           /\ type = "UINT" => WholePart(v.core) \in Lane
           /\ type \in {"INT", "STRING"} => WholePart(v.core) \in -Half .. Half - 1
  <1>1. v \in Inputs /\ Fits(v, type) /\ v.core.sp \in {"finite", "-0"}
    BY DEF Holds
  <1>2. v.core.num \in Int /\ (v.core.sp = "-0" => v.core.num = 0)
    BY <1>1, InputParts
  <1>3. WholePart(v.core) \in Int
    BY <1>2, WidthAssumption DEF WholePart
  <1>4. type = "FLOAT" => v.core.num \in FloatNums
    BY <1>1, <1>2, FloatAssumption DEF Fits
  <1>5. type # "FLOAT" => v.core.num % Unit = 0
    BY <1>1 DEF Fits, ColumnTypes
  <1>6. type # "FLOAT" => Unit * WholePart(v.core) = v.core.num
    BY <1>2, <1>5, DivExact, WidthAssumption DEF WholePart
  <1> QED  BY <1>1, <1>2, <1>3, <1>4, <1>6 DEF Fits, Floats

(* The lane of a number is one, and decoded as that number. *)
LEMMA HeldNumberRead ==
    ASSUME NEW type \in ColumnTypes, NEW v, Holds(v, type), ~IsStr(v)
    PROVE  /\ LaneOf(v, type) \in Lane
           /\ ~IsStr(DecodeLane(LaneOf(v, type), type))
           /\ DecodeLane(LaneOf(v, type), type).core = Core("finite", v.core.num)
  <1> DEFINE i == WholePart(v.core)
  <1>1. /\ v.core.num \in Int /\ i \in Int
        /\ type = "FLOAT" => Core("finite", v.core.num) \in Floats
        /\ type # "FLOAT" => Unit * i = v.core.num
        /\ type = "BOOL" => i \in {0, 1}
        /\ type = "UINT" => i \in Lane
        /\ type \in {"INT", "STRING"} => i \in -Half .. Half - 1
    BY HeldNumber
  <1>2. Width \in Nat \ {0} /\ Width >= 2 /\ Width = 2 * Half /\ Half \in Nat \ {0}
    BY WidthAssumption DEF Width
  <1>3. CASE type = "FLOAT"
    <2>1. LaneOf(v, type) = Bits[Core("finite", v.core.num)]
      BY <1>3 DEF LaneOf
    <2>2. DecodeLane(LaneOf(v, type), type) = Value("float", Core("finite", v.core.num))
      BY <1>1, <1>3, <2>1, UnpackBits DEF DecodeLane
    <2> QED  BY <1>1, <1>3, <2>1, <2>2, UnpackBits DEF Value, IsStr
  <1>4. CASE type # "FLOAT"
    <2>1. LaneOf(v, type) = Masked(i)
      BY <1>4 DEF LaneOf
    <2>2. Masked(i) \in Lane
      BY <1>1, <1>2 DEF Masked, Lane
    <2>3. \E kind \in {"int", "bool"} : DecodeLane(LaneOf(v, type), type) = Whole(kind, i)
      <3>1. CASE type \in {"UINT", "BOOL"}
        <4>1. i \in 0 .. Width - 1
          BY <1>1, <1>2, <3>1 DEF Lane
        <4>2. Masked(i) = i
          BY <1>2, <4>1, MaskKeepsLanes DEF Masked
        <4>3. CASE type = "UINT"
          BY <2>1, <4>2, <4>3 DEF DecodeLane
        <4>4. CASE type = "BOOL"
          <5>1. (IF i # 0 THEN 1 ELSE 0) = i
            BY <1>1, <4>4
          <5>2. DecodeLane(LaneOf(v, type), type) = Whole("bool", IF i # 0 THEN 1 ELSE 0)
            BY <2>1, <4>2, <4>4 DEF DecodeLane
          <5> QED  BY <5>1, <5>2
        <4> QED  BY <3>1, <4>3, <4>4
      <3>2. CASE type \in {"INT", "STRING"}
        <4>1. Signed(Masked(i)) = i
          BY <1>1, <3>2, SignedMask
        <4> QED  BY <2>1, <3>2, <4>1 DEF DecodeLane
      <3> QED  BY <1>4, <3>1, <3>2 DEF ColumnTypes
    <2>4. \A kind \in {"int", "bool"} :
            ~IsStr(Whole(kind, i)) /\ Whole(kind, i).core = Core("finite", v.core.num)
      BY <1>1, <1>4 DEF Whole, Value, IsStr
    <2> QED  BY <2>1, <2>2, <2>3, <2>4
  <1> QED  BY <1>3, <1>4

LEMMA SymbolIdRange ==
    ASSUME NEW id \in SymbolIds
    PROVE  id \in 0 .. Half - 1 /\ id \in Int
  <1>1. SymbolIds \subseteq 0 .. Half - 1
    BY RowsAssumption
  <1> QED  BY <1>1, WidthAssumption

LEMMA IdOf ==
    ASSUME Compatible, NEW p \in Pairs
    PROVE  /\ Id(p[1]) = p[2] /\ p[2] \in SymbolIds /\ p[2] \in Lane
           /\ Masked(p[2]) = p[2] /\ Signed(p[2]) = p[2]
  <1> DEFINE q == CHOOSE r \in Pairs : r[1] = p[1]
  <1>1. q \in Pairs /\ q[1] = p[1]
    OBVIOUS
  <1>2. Id(p[1]) = q[2]
    BY DEF Id
  <1> HIDE DEF q
  <1>3. q[2] = p[2] /\ p[2] \in SymbolIds
    BY <1>1 DEF Compatible
  <1>4. p[2] \in 0 .. Half - 1
    BY <1>3, RowsAssumption
  <1>5. Width \in Nat \ {0} /\ Width = 2 * Half /\ Half \in Nat \ {0}
    BY WidthAssumption DEF Width
  <1>6. p[2] \in 0 .. Width - 1
    BY <1>4, <1>5
  <1>7. Masked(p[2]) = p[2]
    BY <1>5, <1>6, MaskKeepsLanes DEF Masked
  <1> QED  BY <1>2, <1>3, <1>4, <1>5, <1>6, <1>7 DEF Lane, Signed

(* Two values have one lane of a column if and only if they are equal. *)
LEMMA SameLane ==
    ASSUME Compatible, NEW type \in ColumnTypes, NEW v, NEW w, Holds(v, type), Holds(w, type)
    PROVE  Same(v, w) <=> LaneOf(v, type) = LaneOf(w, type)
  <1>1. CASE type = "STRING" /\ session.class = "easy"
    <2>1. IsStr(v) /\ IsStr(w) /\ v = Str(String(v)) /\ w = Str(String(w))
      BY <1>1, InputParts DEF Holds
    <2>2. PICK p, q \in Pairs : p[1] = String(v) /\ q[1] = String(w)
      BY <1>1 DEF Holds
    <2>3. Id(String(v)) = p[2] /\ Id(String(w)) = q[2]
      BY <2>2, IdOf
    <2>4. String(v) = String(w) <=> p[2] = q[2]
      BY <2>2 DEF Compatible
    <2> QED  BY <2>1, <2>3, <2>4 DEF Same, LaneOf
  <1>2. CASE ~(type = "STRING" /\ session.class = "easy")
    <2>1. ~IsStr(v) /\ ~IsStr(w)
      BY <1>2 DEF Holds
    <2>2. v.core.sp \in {"finite", "-0"} /\ w.core.sp \in {"finite", "-0"}
      BY <2>1, HeldNumber
    <2>3. Same(v, w) <=> v.core.num = w.core.num
      BY <2>1, <2>2 DEF Same, SameNumber
    <2>4. v.core.num = w.core.num => LaneOf(v, type) = LaneOf(w, type)
      BY <2>1 DEF LaneOf, WholePart
    <2>5. LaneOf(v, type) = LaneOf(w, type) => v.core.num = w.core.num
      <3>1. /\ DecodeLane(LaneOf(v, type), type).core = Core("finite", v.core.num)
            /\ DecodeLane(LaneOf(w, type), type).core = Core("finite", w.core.num)
        BY <2>1, HeldNumberRead
      <3> QED  BY <3>1 DEF Core
    <2> QED  BY <2>3, <2>4, <2>5
  <1> QED  BY <1>1, <1>2

LEMMA SameLanes ==
    ASSUME EngineInv, Compatible, NEW r, NEW s, Storable(r), Storable(s)
    PROVE  SameRow(r, s) <=> LanesOf(r) = LanesOf(s)
  <1>1. /\ DOMAIN r = DOMAIN session.types /\ DOMAIN s = DOMAIN session.types
        /\ r \in Seq(Inputs) /\ s \in Seq(Inputs) /\ session.types \in Seq(ColumnTypes)
        /\ \A c \in DOMAIN session.types : session.types[c] \in ColumnTypes
    BY RowsAssumption DEF EngineInv, Storable
  <1>2. Len(r) = Len(s)
    BY <1>1, LenProperties
  <1>3. \A c \in DOMAIN r : Same(r[c], s[c]) <=>
            LaneOf(r[c], session.types[c]) = LaneOf(s[c], session.types[c])
    BY <1>1, SameLane DEF Storable
  <1>4. /\ DOMAIN LanesOf(r) = DOMAIN r /\ DOMAIN LanesOf(s) = DOMAIN r
        /\ \A c \in DOMAIN r : /\ LanesOf(r)[c] = LaneOf(r[c], session.types[c])
                               /\ LanesOf(s)[c] = LaneOf(s[c], session.types[c])
    BY <1>1 DEF LanesOf
  <1>5. LanesOf(r) = LanesOf(s) <=> \A c \in DOMAIN r : LanesOf(r)[c] = LanesOf(s)[c]
    BY <1>1 DEF LanesOf
  <1> QED  BY <1>2, <1>3, <1>4, <1>5 DEF SameRow

(* An inline fact is a row of the relation, its lanes those of that row. *)
LEMMA FactHeld ==
    ASSUME EngineInv, Compatible, NEW i \in DOMAIN session.facts
    PROVE  Storable(FactRow(session.facts[i])) /\ LanesOf(FactRow(session.facts[i])) = FactsAt(i)
  <1> DEFINE fact == session.facts[i]
             row == FactRow(fact)
  <1>1. /\ fact \in Seq(Inputs) /\ DOMAIN fact = DOMAIN session.types /\ session.types \in Seq(ColumnTypes)
        /\ \A c \in DOMAIN fact : IsFactOf(fact[c], session.types[c])
        /\ StringsOf(fact) \subseteq DOMAIN engine.ids
    <2>1. fact \in ToSet(session.facts)
      BY DEF ToSet
    <2> QED  BY <2>1, SessionParts DEF EngineInv
  <1>2. DOMAIN fact = 1 .. Len(fact) /\ Len(fact) \in Nat
    BY <1>1, LenProperties
  <1>3. /\ DOMAIN row = DOMAIN fact
        /\ \A c \in DOMAIN fact : row[c] =
              IF IsStr(fact[c]) /\ session.class = "advanced" THEN Whole("int", engine.ids[String(fact[c])])
              ELSE fact[c]
    BY DEF FactRow
  <1>4. ASSUME NEW c \in DOMAIN fact
        PROVE  /\ row[c] \in Inputs /\ Holds(row[c], session.types[c])
               /\ LaneOf(row[c], session.types[c]) = FactsAt(i)[c]
    <2> DEFINE type == session.types[c]
               s == String(fact[c])
    <2>1. type \in ColumnTypes /\ IsFactOf(fact[c], type) /\ fact[c] \in Inputs
      BY <1>1, <1>2, ElementOfSeq, LenProperties
    <2>2. FactsAt(i)[c] = IF IsStr(fact[c]) THEN engine.ids[s] ELSE EncodeLane(fact[c], type)
      BY DEF FactsAt, FactLanes
    <2> HIDE DEF type, row
    <2>3. CASE type = "STRING"
      <3>1. fact[c] = Str(s) /\ IsStr(fact[c])
        BY <2>1, <2>3 DEF IsFactOf, Str, IsStr, Value
      <3>2. s \in DOMAIN engine.ids /\ <<s, engine.ids[s]>> \in Pairs
        BY <1>1, <3>1 DEF StringsOf, ToSet, Pairs
      <3>3. Id(s) = engine.ids[s] /\ Masked(engine.ids[s]) = engine.ids[s] /\ engine.ids[s] \in SymbolIds
        BY <3>2, IdOf
      <3>4. CASE session.class = "advanced"
        <4> DEFINE id == engine.ids[s]
        <4>0. id \in 0 .. Half - 1 /\ id \in Int
          BY <3>3, SymbolIdRange
        <4>1. row[c] = Whole("int", id) /\ id \in 0 .. Half - 1 /\ id \in Int
          BY <1>3, <3>1, <3>4, <4>0
        <4>2. row[c].kind = "int" /\ row[c].core = Core("finite", Unit * id) /\ row[c] = Value("int", row[c].core)
              /\ row[c].core.num = Unit * id /\ row[c].core.sp = "finite"
          BY <4>1 DEF Whole, Value, Core
        <4> HIDE DEF id
        <4>3. Unit * id \in Int /\ (Unit * id) % Unit = 0 /\ (Unit * id) \div Unit = id
          BY <4>1, WidthAssumption, DivOfMultiple
        <4>4. row[c] \in Inputs
          <5>1. row[c].core \in WholeCores
            BY <4>2, <4>3 DEF WholeCores, Exact, Core
          <5>2. row[c] \in [kind : IntKinds, core : WholeCores]
            BY <4>2, <5>1 DEF Value, IntKinds
          <5> QED  BY <5>2 DEF Inputs, Values
        <4>5. WholePart(row[c].core) = id /\ ~IsStr(row[c])
          BY <4>2, <4>3 DEF WholePart, IsStr
        <4>6. Fits(row[c], type)
          BY <2>3, <4>1, <4>2, <4>3, <4>5, WidthAssumption DEF Fits
        <4>7. LaneOf(row[c], type) = Masked(id)
          BY <2>3, <4>5 DEF LaneOf
        <4> QED  BY <2>2, <2>3, <3>1, <3>3, <3>4, <4>2, <4>4, <4>5, <4>6, <4>7 DEF Holds, id, type
      <3>5. CASE session.class # "advanced"
        <4>1. row[c] = fact[c] /\ session.class = "easy"
          BY <1>3, <3>5, RowsAssumption DEF EngineInv
        <4>2. Holds(row[c], type)
          BY <2>1, <2>3, <3>1, <3>2, <4>1 DEF Holds
        <4>3. LaneOf(row[c], type) = FactsAt(i)[c]
          BY <2>2, <3>1, <3>3, <4>1 DEF LaneOf
        <4> QED  BY <2>1, <4>1, <4>2, <4>3 DEF type
      <3> QED  BY <3>4, <3>5
    <2>4. CASE type # "STRING"
      <3>1. fact[c] \in FactValues(type) /\ type \in ColumnTypes \ {"STRING"}
        BY <2>1, <2>4 DEF IsFactOf
      <3>2. /\ fact[c] \in Values /\ ~IsStr(fact[c]) /\ EncodeError(fact[c], type) = "none"
            /\ Fits(fact[c], type) /\ fact[c].core.sp = "finite"
        BY <3>1, FactParts
      <3>3. row[c] = fact[c]
        BY <1>3, <3>2
      <3>4. Holds(row[c], type)
        BY <2>1, <2>4, <3>2, <3>3 DEF Holds
      <3>5. LaneOf(row[c], type) = EncodeLane(fact[c], type)
        <4>1. CASE type = "FLOAT"
          <5>1. PICK n \in FloatNums : fact[c] = Value("float", Core("finite", n))
            BY <3>1, <4>1 DEF FactValues
          <5>2. fact[c].kind \in FloatKinds /\ fact[c].core = Core("finite", n) /\ fact[c].core.num = n
            BY <5>1 DEF Value, Core, FloatKinds
          <5> QED  BY <3>2, <3>3, <4>1, <5>2 DEF LaneOf, EncodeLane, AsFloat
        <4>2. CASE type # "FLOAT"
          BY <3>1, <3>2, <3>3, <4>2, NothingLost DEF LaneOf
        <4> QED  BY <4>1, <4>2
      <3> QED  BY <2>1, <2>2, <3>2, <3>3, <3>4, <3>5 DEF type
    <2> QED  BY <2>3, <2>4
  <1>5. row \in Seq(Inputs)
    <2>1. row = [c \in 1 .. Len(fact) |-> row[c]]
      BY <1>2 DEF FactRow
    <2>2. \A c \in 1 .. Len(fact) : row[c] \in Inputs
      BY <1>2, <1>4
    <2> HIDE DEF row
    <2>3. row \in [1 .. Len(fact) -> Inputs]
      BY <2>1, <2>2
    <2> QED  BY <1>2, <2>3, SeqDef
  <1>6. LanesOf(row) = FactsAt(i)
    <2>1. DOMAIN FactsAt(i) = DOMAIN fact /\ FactsAt(i) = [c \in DOMAIN fact |-> FactsAt(i)[c]]
      BY DEF FactsAt, FactLanes
    <2>2. LanesOf(row) = [c \in DOMAIN fact |-> LaneOf(row[c], session.types[c])]
      BY <1>3 DEF LanesOf
    <2>3. \A c \in DOMAIN fact : LaneOf(row[c], session.types[c]) = FactsAt(i)[c]
      BY <1>4
    <2> HIDE DEF row, fact
    <2>4. [c \in DOMAIN fact |-> LaneOf(row[c], session.types[c])] = [c \in DOMAIN fact |-> FactsAt(i)[c]]
      BY <2>3
    <2> QED  BY <2>1, <2>2, <2>4
  <1> QED  BY <1>1, <1>3, <1>4, <1>5, <1>6 DEF Storable

(* A lane is read as a value equal to that of a row, if and only if it is the *)
(* lane of that value.                                                      *)
LEMMA ReadString ==
    ASSUME MirrorInv, Compatible, NEW v, NEW w, session.class = "easy",
           Holds(v, "STRING"), Holds(w, "STRING"), ContainsValue(mirror, String(w))
    PROVE  Same(Lookup(mirror, Signed(LaneOf(v, "STRING"))), w)
              <=> LaneOf(v, "STRING") = LaneOf(w, "STRING")
  <1>1. IsStr(v) /\ IsStr(w) /\ v = Str(String(v)) /\ w = Str(String(w))
    BY InputParts DEF Holds
  <1>2. PICK p, q \in Pairs : p[1] = String(v) /\ q[1] = String(w)
    BY DEF Holds
  <1>3. LaneOf(v, "STRING") = p[2] /\ LaneOf(w, "STRING") = q[2] /\ Signed(p[2]) = p[2]
    BY <1>1, <1>2, IdOf DEF LaneOf
  <1> DEFINE got == Lookup(mirror, p[2])
             t == String(w)
  <1>4. ContainsId(mirror, q[2])
    <2>1. <<t, mirror.forward[t]>> \in Pairs /\ ContainsId(mirror, mirror.forward[t])
      BY DEF MirrorInv, ContainsValue
    <2>2. mirror.forward[t] = q[2]
      BY <1>2, <2>1 DEF Compatible
    <2> QED  BY <2>1, <2>2
  <1>5. CASE ContainsId(mirror, p[2])
    <2> DEFINE x == mirror.reverse[p[2]]
    <2>1. <<x, mirror.forward[x]>> \in Pairs /\ mirror.forward[x] = p[2]
      BY <1>5 DEF MirrorInv, ContainsId, ContainsValue
    <2>2. x = p[1]
      BY <2>1 DEF Compatible
    <2>3. got = v
      BY <1>1, <1>2, <1>5, <2>2 DEF Lookup
    <2>4. String(v) = String(w) <=> p[2] = q[2]
      BY <1>2 DEF Compatible
    <2> HIDE DEF got
    <2> QED  BY <1>1, <1>3, <2>3, <2>4 DEF Same, got
  <1>6. CASE ~ContainsId(mirror, p[2])
    <2>1. got = Whole("int", p[2])
      BY <1>6 DEF Lookup
    <2>2. got.kind = "int"
      BY <2>1 DEF Whole, Value
    <2>3. p[2] # q[2]
      BY <1>4, <1>6
    <2>4. got # w
      BY <1>1, <2>2 DEF IsStr
    <2> QED  BY <1>1, <1>3, <2>3, <2>4 DEF Same
  <1> QED  BY <1>5, <1>6

LEMMA ReadInteger ==
    ASSUME NEW type \in {"INT", "UINT"}, NEW v, NEW w, Holds(v, type), Holds(w, type), EasyFits(w, type)
    PROVE  Same(Whole("int", Signed(LaneOf(v, type))), w) <=> LaneOf(v, type) = LaneOf(w, type)
  <1> DEFINE i == Signed(LaneOf(v, type))
             j == WholePart(w.core)
  <1>1. type \in ColumnTypes /\ ~IsStr(v) /\ ~IsStr(w)
    BY DEF ColumnTypes, Holds
  <1>2. LaneOf(v, type) \in Lane /\ LaneOf(w, type) \in Lane
    BY <1>1, HeldNumberRead
  <1>3. w.core.sp \in {"finite", "-0"} /\ Unit * j = w.core.num /\ w.core.num \in Int /\ j \in Int
    BY <1>1, HeldNumber
  <1>4. j \in -Half .. Half - 1
    BY DEF EasyFits, Fits
  <1>5. LaneOf(w, type) = Masked(j) /\ Signed(LaneOf(w, type)) = j
    BY <1>1, <1>4, SignedMask DEF LaneOf
  <1>6. LaneOf(v, type) = LaneOf(w, type) <=> i = j
    BY <1>2, <1>5, WidthAssumption DEF Signed, Lane, Width
  <1>7. i \in Int
    BY <1>2, WidthAssumption DEF Signed, Lane, Width
  <1> HIDE DEF i, j
  <1>8. Unit * i = Unit * j <=> i = j
    BY <1>3, <1>7, WidthAssumption, DivOfMultiple
  <1>9. Same(Whole("int", i), w) <=> Unit * i = w.core.num
    BY <1>1, <1>3 DEF Same, SameNumber, Whole, Value, Core, IsStr
  <1> QED  BY <1>3, <1>6, <1>8, <1>9 DEF i

LEMMA ReadColumn ==
    ASSUME EngineInv, MirrorInv, Compatible, NEW type \in ColumnTypes, NEW v, NEW w,
           Holds(v, type), Holds(w, type),
           session.class = "easy" => EasyFits(w, type),
           IsStr(w) => ContainsValue(mirror, String(w))
    PROVE  Same(ReadLane(LaneOf(v, type), type), w) <=> LaneOf(v, type) = LaneOf(w, type)
  <1>1. CASE session.class = "easy" /\ type = "STRING"
    BY <1>1, ReadString DEF ReadLane, Holds
  <1>2. CASE session.class = "easy" /\ type \in {"INT", "UINT"}
    BY <1>2, ReadInteger DEF ReadLane
  <1>3. CASE ~(session.class = "easy" /\ type \in {"STRING", "INT", "UINT"})
    <2> DEFINE got == DecodeLane(LaneOf(v, type), type)
    <2>1. ReadLane(LaneOf(v, type), type) = got
      BY <1>3 DEF ReadLane
    <2>2. ~IsStr(v) /\ ~IsStr(w)
      BY <1>3 DEF Holds
    <2>3. ~IsStr(got) /\ got.core = Core("finite", v.core.num)
      BY <2>2, HeldNumberRead
    <2>4. got.core.sp = "finite" /\ got.core.num = v.core.num
      BY <2>3 DEF Core
    <2>5. v.core.sp \in {"finite", "-0"} /\ w.core.sp \in {"finite", "-0"}
      BY <2>2, HeldNumber
    <2> HIDE DEF got
    <2>6. Same(got, w) <=> Same(v, w)
      BY <2>2, <2>3, <2>4, <2>5 DEF Same, SameNumber
    <2>7. Same(v, w) <=> LaneOf(v, type) = LaneOf(w, type)
      BY SameLane
    <2> QED  BY <2>1, <2>6, <2>7
  <1> QED  BY <1>1, <1>2, <1>3

LEMMA LenOf ==
    ASSUME NEW n \in Nat, NEW f, f = [i \in 1 .. n |-> f[i]]
    PROVE  Len(f) = n
  <1> DEFINE S == {f[i] : i \in 1 .. n}
  <1>1. f \in [1 .. n -> S]
    OBVIOUS
  <1>2. f \in Seq(S)
    BY <1>1, SeqDef
  <1> QED  BY <1>1, <1>2, LenProperties

LEMMA ReadDecoded ==
    ASSUME EngineInv, MirrorInv, Compatible, NEW r, NEW s, Storable(r), Readable(s),
           NEW way \in Ways, way # "untyped"
    PROVE  SameRow(ReadBack(way, LanesOf(r)), s) <=> LanesOf(r) = LanesOf(s)
  <1> DEFINE types == session.types
             got == ReadBack(way, LanesOf(r))
             n == Len(types)
  <1>1. /\ DOMAIN r = DOMAIN types /\ DOMAIN s = DOMAIN types
        /\ s \in Seq(Inputs) /\ types \in Seq(ColumnTypes) /\ session.class \in {"easy", "advanced"}
        /\ Storable(s)
    BY RowsAssumption DEF EngineInv, Storable, Readable
  <1>2. DOMAIN types = 1 .. n /\ n \in Nat /\ Len(s) = n /\ \A c \in 1 .. n : types[c] \in ColumnTypes
    BY <1>1, LenProperties
  <1>3. LanesOf(r) = [c \in 1 .. n |-> LaneOf(r[c], types[c])]
    BY <1>1, <1>2 DEF LanesOf
  <1>4. got = [c \in 1 .. n |-> ReadLane(LaneOf(r[c], types[c]), types[c])]
    <2> DEFINE lanes == LanesOf(r)
    <2>1. DOMAIN lanes = 1 .. n /\ \A c \in 1 .. n : lanes[c] = LaneOf(r[c], types[c])
      BY <1>3
    <2> HIDE DEF lanes, n, types
    <2>2. CASE session.class = "easy"
      <3>1. got = [c \in 1 .. n |->
               CASE types[c] = "STRING" -> Lookup(mirror, Signed(lanes[c]))
                 [] types[c] \in {"BOOL", "FLOAT"} -> DecodeLane(lanes[c], types[c])
                 [] types[c] \in {"INT", "UINT"} -> Whole("int", Signed(lanes[c]))]
        BY <2>1, <2>2 DEF ReadBack, Ways, DecodeInt64, lanes, types
      <3>2. ASSUME NEW c \in 1 .. n
            PROVE  (CASE types[c] = "STRING" -> Lookup(mirror, Signed(lanes[c]))
                      [] types[c] \in {"BOOL", "FLOAT"} -> DecodeLane(lanes[c], types[c])
                      [] types[c] \in {"INT", "UINT"} -> Whole("int", Signed(lanes[c])))
                   = ReadLane(lanes[c], types[c])
        <4>1. types[c] \in ColumnTypes
          BY <1>2
        <4> QED  BY <2>2, <4>1 DEF ReadLane, ColumnTypes
      <3> HIDE DEF got
      <3> QED  BY <2>1, <3>1, <3>2
    <2>3. CASE session.class # "easy"
      <3>1. got = [c \in 1 .. n |-> DecodeLane(lanes[c], types[c])]
        BY <1>2, <2>1, <2>3 DEF ReadBack, Ways, DecodeTypedRow, TypedRow, lanes, types
      <3>2. \A lane, type : ReadLane(lane, type) = DecodeLane(lane, type)
        BY <2>3 DEF ReadLane
      <3> HIDE DEF got
      <3> QED  BY <2>1, <3>1, <3>2
    <2> QED  BY <2>2, <2>3
  <1> HIDE DEF got, n, types
  <1>5. \A c \in 1 .. n : got[c] = ReadLane(LaneOf(r[c], types[c]), types[c])
    BY <1>4
  <1>6. DOMAIN got = 1 .. n /\ Len(got) = n
    <2>1. got = [c \in 1 .. n |-> got[c]]
      BY <1>4
    <2> QED  BY <1>2, <2>1, LenOf
  <1>7. ASSUME NEW c \in 1 .. n
        PROVE  Same(got[c], s[c]) <=> LaneOf(r[c], types[c]) = LaneOf(s[c], types[c])
    <2>1. Holds(r[c], types[c]) /\ Holds(s[c], types[c])
      BY <1>1, <1>2 DEF Storable, types
    <2>2. /\ session.class = "easy" => EasyFits(s[c], types[c])
          /\ IsStr(s[c]) => ContainsValue(mirror, String(s[c]))
      BY <1>1, <1>2 DEF Readable, RowFits, types
    <2> QED  BY <1>2, <1>5, <2>1, <2>2, ReadColumn
  <1>8. LanesOf(s) = [c \in 1 .. n |-> LaneOf(s[c], types[c])]
    BY <1>1, <1>2 DEF LanesOf, types
  <1>9. LanesOf(r) = LanesOf(s) <=> \A c \in 1 .. n : LaneOf(r[c], types[c]) = LaneOf(s[c], types[c])
    <2>1. \A c \in 1 .. n : /\ LanesOf(r)[c] = LaneOf(r[c], types[c])
                            /\ LanesOf(s)[c] = LaneOf(s[c], types[c])
      BY <1>3, <1>8
    <2> QED  BY <1>3, <1>8, <2>1
  <1> QED  BY <1>2, <1>6, <1>7, <1>9 DEF SameRow, got

(* Integers that Python compares equal are one; the int64 of a lane is that of *)
(* no other, and so what step() and snapshot() hand out of a row.             *)
LEMMA SameWhole ==
    ASSUME NEW i \in Int, NEW j \in Int
    PROVE  Same(Whole("int", i), Whole("int", j)) <=> i = j
  <1>1. /\ Whole("int", i).kind = "int" /\ Whole("int", i).core = [sp |-> "finite", num |-> Unit * i]
        /\ Whole("int", j).kind = "int" /\ Whole("int", j).core = [sp |-> "finite", num |-> Unit * j]
    BY DEF Whole, Value, Core
  <1>2. Same(Whole("int", i), Whole("int", j)) <=> Unit * i = Unit * j
    BY <1>1 DEF Same, SameNumber, IsStr
  <1>3. (Unit * i) \div Unit = i /\ (Unit * j) \div Unit = j
    BY WidthAssumption, DivOfMultiple
  <1> QED  BY <1>2, <1>3

LEMMA RawLane ==
    ASSUME NEW l \in Lane, NEW m \in Lane
    PROVE  Same(Whole("int", Signed(l)), Whole("int", Signed(m))) <=> l = m
  <1>1. Signed(l) \in Int /\ Signed(m) \in Int /\ (Signed(l) = Signed(m) <=> l = m)
    BY WidthAssumption DEF Signed, Lane, Width
  <1> QED  BY <1>1, SameWhole

LEMMA ReadRaw ==
    ASSUME EngineInv, NEW r, NEW s, Storable(r), Storable(s), "untyped" \in Ways
    PROVE  SameRow(RawRow(LanesOf(r)), HandedOut("untyped", s)) <=> LanesOf(r) = LanesOf(s)
  <1> DEFINE types == session.types
             n == Len(types)
             L == LanesOf(r)
             M == LanesOf(s)
             got == RawRow(L)
             due == HandedOut("untyped", s)
  <1>1. /\ DOMAIN r = DOMAIN types /\ DOMAIN s = DOMAIN types /\ types \in Seq(ColumnTypes)
        /\ session.class \in {"easy", "advanced"}
    BY RowsAssumption DEF EngineInv, Storable
  <1>2. DOMAIN types = 1 .. n /\ n \in Nat /\ \A c \in 1 .. n : types[c] \in ColumnTypes
    BY <1>1, LenProperties
  <1>3. session.class = "advanced" /\ \A c \in 1 .. n : types[c] # "FLOAT"
    BY <1>1, <1>2 DEF Ways, ToSet
  <1>4. /\ L = [c \in 1 .. n |-> LaneOf(r[c], types[c])]
        /\ M = [c \in 1 .. n |-> LaneOf(s[c], types[c])]
    BY <1>1, <1>2 DEF LanesOf
  <1>5. ASSUME NEW c \in 1 .. n
        PROVE  /\ LaneOf(r[c], types[c]) \in Lane /\ LaneOf(s[c], types[c]) \in Lane
               /\ LaneOf(s[c], types[c]) = Masked(WholePart(s[c].core))
    <2>1. Holds(r[c], types[c]) /\ Holds(s[c], types[c])
      BY <1>1, <1>2 DEF Storable
    <2>2. ~IsStr(r[c]) /\ ~IsStr(s[c])
      BY <1>3, <2>1 DEF Holds
    <2> QED  BY <1>2, <1>3, <2>1, <2>2, HeldNumberRead DEF LaneOf
  <1> HIDE DEF types, n, L, M
  <1>6. L = [c \in 1 .. n |-> L[c]] /\ M = [c \in 1 .. n |-> M[c]]
    BY <1>4
  <1>7. \A c \in 1 .. n : L[c] \in Lane /\ M[c] \in Lane /\ M[c] = Masked(WholePart(s[c].core))
    BY <1>4, <1>5
  <1>8. got = [c \in 1 .. n |-> Whole("int", Signed(L[c]))]
    BY <1>6 DEF RawRow
  <1>9. due = [c \in 1 .. n |-> Whole("int", Signed(M[c]))]
    <2>1. due = [c \in 1 .. n |-> Whole("int", Signed(Masked(WholePart(s[c].core))))]
      BY <1>1, <1>2 DEF HandedOut
    <2> HIDE DEF due
    <2> QED  BY <1>7, <2>1
  <1> HIDE DEF got, due
  <1>10. Len(got) = n /\ Len(due) = n
    BY <1>2, <1>8, <1>9, LenOf
  <1>11. \A c \in 1 .. n : Same(got[c], due[c]) <=> L[c] = M[c]
    BY <1>7, <1>8, <1>9, RawLane
  <1>12. L = M <=> \A c \in 1 .. n : L[c] = M[c]
    BY <1>6
  <1>13. SameRow(got, due) <=> \A c \in 1 .. n : Same(got[c], due[c])
    BY <1>8, <1>10 DEF SameRow
  <1> QED  BY <1>11, <1>12, <1>13 DEF got, due, L, M

LEMMA ReadRow ==
    ASSUME EngineInv, MirrorInv, Compatible, NEW r, NEW s, Storable(r), Readable(s), NEW way \in Ways
    PROVE  SameRow(ReadBack(way, LanesOf(r)), HandedOut(way, s)) <=> LanesOf(r) = LanesOf(s)
  <1>1. CASE way = "untyped"
    BY <1>1, ReadRaw DEF ReadBack, Readable
  <1>2. CASE way # "untyped"
    BY <1>2, ReadDecoded DEF HandedOut
  <1> QED  BY <1>1, <1>2

--------------------------------------------------------------------------------
(* Each step keeps StoredInv. *)

(* A nonempty set of indices has a least element: the segments up to its      *)
(* elements are finite, and strict inclusion of finite sets is well-founded.  *)
LEMMA LeastOf ==
    ASSUME NEW n \in Nat, NEW S \in SUBSET (0 .. n), S # {}
    PROVE  \E i \in S : \A j \in S : i <= j
  <1> DEFINE segments == {0 .. i : i \in S}
  <1>0. S \subseteq Nat
    OBVIOUS
  <1>1. segments \subseteq FiniteSubsetsOf(Nat) /\ segments # {}
    <2>1. \A i \in S : IsFiniteSet(0 .. i) /\ 0 .. i \in SUBSET Nat
      BY <1>0, FS_Interval
    <2>2. \A i \in S : 0 .. i \in FiniteSubsetsOf(Nat)
      BY <2>1 DEF FiniteSubsetsOf
    <2> QED  BY <2>2
  <1>2. \E x \in segments : \A y \in segments : <<y, x>> \notin StrictSubsetOrdering(Nat)
    <2> HIDE DEF segments
    <2> QED  BY <1>1, FS_StrictSubsetOrderingWellFounded, WFMin
  <1>3. PICK i \in S : \A j \in S : <<0 .. j, 0 .. i>> \notin StrictSubsetOrdering(Nat)
    BY <1>2
  <1>4. ASSUME NEW j \in S, j < i
        PROVE  FALSE
    <2>1. 0 .. j \subseteq 0 .. i /\ i \in 0 .. i /\ i \notin 0 .. j
      BY <1>0, <1>4
    <2>2. 0 .. j \in SUBSET Nat /\ 0 .. i \in SUBSET Nat /\ 0 .. j # 0 .. i
      BY <1>0, <2>1
    <2> QED  BY <1>3, <2>1, <2>2 DEF StrictSubsetOrdering
  <1>5. \A j \in S : i <= j
    BY <1>0, <1>4
  <1> QED  BY <1>5

LEMMA GreatestOf ==
    ASSUME NEW n \in Nat, NEW S \in SUBSET (0 .. n), S # {}
    PROVE  \E i \in S : \A j \in S : j <= i
  <1> DEFINE T == {n - i : i \in S}
  <1>0. \A i \in S : i \in Int /\ n - i \in 0 .. n
    OBVIOUS
  <1>1. T \in SUBSET (0 .. n) /\ T # {}
    BY <1>0
  <1>2. PICK k \in T : \A j \in T : k <= j
    <2> HIDE DEF T
    <2> QED  BY <1>1, LeastOf
  <1>3. PICK i \in S : k = n - i
    BY <1>2
  <1>4. \A j \in S : n - i <= n - j
    BY <1>2, <1>3
  <1>5. \A j \in S : j <= i
    BY <1>0, <1>4
  <1> QED  BY <1>5

(* How many rows of a batch have some lanes. *)
Count(lanes, l) == Cardinality({i \in DOMAIN lanes : lanes[i] = l})

LEMMA CountIsNat ==
    ASSUME NEW n \in Nat, NEW P \in SUBSET (1 .. n)
    PROVE  Cardinality(P) \in Nat
  <1>1. IsFiniteSet(1 .. n)
    BY FS_Interval
  <1>2. IsFiniteSet(P)
    BY <1>1, FS_Subset
  <1> QED  BY <1>2, FS_CardinalityType

(* Rows are equal if and only if their lanes are, in every state. *)
RowsApart == \A r, s : Storable(r) /\ Storable(s) => (SameRow(r, s) <=> LanesOf(r) = LanesOf(s))

LEMMA AlwaysApart == EngineInv /\ Compatible => RowsApart
  BY SameLanes DEF RowsApart

LEMMA ApartNext ==
    ASSUME EngineInv', Compatible'
    PROVE  RowsApart'
  <1>1. (EngineInv /\ Compatible => RowsApart)'
    BY AlwaysApart, PTL
  <1> QED  BY <1>1

(* What a column holds, it holds after other calls, in the same lane. *)
LEMMA IdStays ==
    ASSUME Grows, Compatible', NEW p \in Pairs
    PROVE  p \in Pairs' /\ Id(p[1])' = Id(p[1])
  <1>1. p \in Pairs' /\ Compatible
    BY PairsGrow
  <1>2. Id(p[1]) = p[2]
    BY <1>1, IdOf
  <1> DEFINE q == CHOOSE r \in Pairs' : r[1] = p[1]
  <1>3. q \in Pairs' /\ q[1] = p[1]
    BY <1>1
  <1>4. Id(p[1])' = q[2]
    BY DEF Id
  <1> HIDE DEF q
  <1>5. q[2] = p[2]
    BY <1>1, <1>3 DEF Compatible
  <1> QED  BY <1>1, <1>2, <1>4, <1>5

LEMMA StaysStorable ==
    ASSUME Grows, Compatible', NEW row, Storable(row)
    PROVE  Storable(row)' /\ LanesOf(row)' = LanesOf(row)
  <1>1. session' = session
    BY DEF Grows
  <1>2. ASSUME NEW type, NEW v, Holds(v, type)
        PROVE  Holds(v, type)' /\ LaneOf(v, type)' = LaneOf(v, type)
    <2>1. CASE type = "STRING" /\ session.class = "easy"
      <3>1. PICK p \in Pairs : p[1] = String(v)
        BY <1>2, <2>1 DEF Holds
      <3>2. p \in Pairs' /\ Id(String(v))' = Id(String(v))
        BY <3>1, IdStays
      <3> QED  BY <1>1, <1>2, <2>1, <3>1, <3>2 DEF Holds, LaneOf
    <2>2. CASE ~(type = "STRING" /\ session.class = "easy")
      <3>1. ~IsStr(v)
        BY <1>2, <2>2 DEF Holds
      <3> QED  BY <1>1, <1>2, <2>2, <3>1 DEF Holds, LaneOf
    <2> QED  BY <2>1, <2>2
  <1>3. \A c \in DOMAIN row : Holds(row[c], session.types[c])
    BY DEF Storable
  <1>4. Storable(row)'
    BY <1>1, <1>2, <1>3 DEF Storable
  <1>5. \A c \in DOMAIN row : LaneOf(row[c], session.types[c])' = LaneOf(row[c], session.types[c])
    BY <1>1, <1>2, <1>3
  <1>6. LanesOf(row)' = LanesOf(row)
    BY <1>1, <1>5 DEF LanesOf
  <1> QED  BY <1>4, <1>6

LEMMA StaysReadable ==
    ASSUME MirrorInv, Grows, Learns, Compatible', NEW row, Readable(row)
    PROVE  Readable(row)' /\ LanesOf(row)' = LanesOf(row)
  <1>1. Storable(row)' /\ LanesOf(row)' = LanesOf(row)
    BY StaysStorable DEF Readable
  <1>2. \A s \in DOMAIN mirror.forward : ContainsValue(mirror, s)'
    BY LearnKeeps
  <1>3. RowFits(row)'
    BY DEF Readable, RowFits, Grows
  <1>4. \A c \in DOMAIN row : IsStr(row[c]) => ContainsValue(mirror, String(row[c]))'
    BY <1>2 DEF Readable, ContainsValue
  <1> QED  BY <1>1, <1>3, <1>4 DEF Readable

LEMMA FactsStay ==
    ASSUME EngineInv, Grows
    PROVE  /\ \A i \in DOMAIN session.facts : FactsAt(i)' = FactsAt(i)
           /\ \A l : InFacts(l)' = InFacts(l)
  <1>1. session' = session
    BY DEF Grows
  <1>2. ASSUME NEW i \in DOMAIN session.facts
        PROVE  FactsAt(i)' = FactsAt(i)
    <2> DEFINE fact == session.facts[i]
    <2>1. fact \in ToSet(session.facts)
      BY DEF ToSet
    <2>2. \A c \in DOMAIN fact : IsStr(fact[c]) => String(fact[c]) \in DOMAIN engine.ids
      BY <2>1 DEF EngineInv, StringsOf, ToSet
    <2>3. \A c \in DOMAIN fact : IsStr(fact[c]) => engine'.ids[String(fact[c])] = engine.ids[String(fact[c])]
      BY <2>2 DEF Grows
    <2> QED  BY <1>1, <2>3 DEF FactsAt, FactLanes
  <1>3. ASSUME NEW l
        PROVE  InFacts(l)' = InFacts(l)
    <2>1. {i \in DOMAIN session.facts : FactsAt(i)' = l} = {i \in DOMAIN session.facts : FactsAt(i) = l}
      BY <1>2
    <2> QED  BY <1>1, <2>1 DEF InFacts
  <1> QED  BY <1>2, <1>3

(* A step that writes nothing, or that writes rows of which it sends the      *)
(* lanes, if they fit.                                                      *)
Untouched == engine'.rows = engine.rows /\ net' = net /\ fitted' = fitted
Writes(rows, lanes, diff) ==
    /\ \E n \in Nat : DOMAIN rows = 1 .. n /\ DOMAIN lanes = 1 .. n
    /\ diff \in Int
    /\ engine'.rows = AddAll(engine.rows, lanes, diff) /\ net' = WriteAll(net, rows, diff)
    /\ fitted' = (fitted /\ \A i \in DOMAIN rows : RowFits(rows[i]))
    /\ fitted' /\ Compatible' => \A i \in DOMAIN rows : Readable(rows[i])' /\ lanes[i] = LanesOf(rows[i])'

LEMMA UntouchedKeeps ==
    ASSUME EngineInv, MirrorInv, StoredInv, Grows, Learns, Untouched
    PROVE  StoredInv'
  <1> SUFFICES ASSUME fitted', Compatible'
               PROVE  StoredInv'
    BY DEF StoredInv
  <1>1. fitted /\ Compatible /\ engine'.rows = engine.rows /\ net' = net /\ session' = session
    BY PairsGrow DEF Untouched, Grows
  <1>2. /\ \A row \in DOMAIN net :
              Readable(row) /\ LanesOf(row) \in DOMAIN engine.rows /\ net[row] \in Int
        /\ \A r, s \in DOMAIN net : SameRow(r, s) => net[r] = net[s]
        /\ \A i \in DOMAIN session.facts : FactsAt(i) \in DOMAIN engine.rows
        /\ \A lanes \in DOMAIN engine.rows :
              /\ \/ \E row \in DOMAIN net : lanes = LanesOf(row)
                 \/ \E i \in DOMAIN session.facts : lanes = FactsAt(i)
              /\ engine.rows[lanes] = InFacts(lanes) + InNet(lanes)
    BY <1>1 DEF StoredInv
  <1>3. \A row \in DOMAIN net : Readable(row)' /\ LanesOf(row)' = LanesOf(row)
    BY <1>2, StaysReadable
  <1>4. /\ \A i \in DOMAIN session.facts : FactsAt(i)' = FactsAt(i)
        /\ \A l : InFacts(l)' = InFacts(l)
    BY FactsStay
  <1>5. \A l : InNet(l)' = InNet(l)
    <2> SUFFICES ASSUME NEW l
                 PROVE  InNet(l)' = InNet(l)
      OBVIOUS
    <2> DEFINE here == {r \in DOMAIN net : LanesOf(r) = l}
               there == {r \in DOMAIN net : LanesOf(r)' = l}
    <2>1. here = there
      BY <1>3
    <2>2. InNet(l) = IF here = {} THEN 0 ELSE net[CHOOSE r \in here : TRUE]
      BY DEF InNet
    <2>3. InNet(l)' = IF there = {} THEN 0 ELSE net[CHOOSE r \in there : TRUE]
      BY <1>1 DEF InNet
    <2> HIDE DEF here, there
    <2> QED  BY <2>1, <2>2, <2>3
  <1> QED  BY <1>1, <1>2, <1>3, <1>4, <1>5 DEF StoredInv

LEMMA WriteKeeps ==
    ASSUME EngineInv, EngineInv', MirrorInv, StoredInv, Grows, Learns,
           NEW rows, NEW lanes, NEW diff, Writes(rows, lanes, diff)
    PROVE  StoredInv'
  <1> SUFFICES ASSUME fitted', Compatible'
               PROVE  StoredInv'
    BY DEF StoredInv
  <1> DEFINE L(row) == LanesOf(row)'
             old == DOMAIN net
             all == DOMAIN net \cup ToSet(rows)
             stored == DOMAIN engine.rows
             new == DOMAIN engine.rows \cup ToSet(lanes)
  <1>0. PICK n \in Nat : DOMAIN rows = 1 .. n /\ DOMAIN lanes = 1 .. n
    BY DEF Writes
  <1>1. /\ fitted /\ Compatible /\ session' = session /\ diff \in Int
        /\ engine'.rows = AddAll(engine.rows, lanes, diff) /\ net' = WriteAll(net, rows, diff)
        /\ \A i \in DOMAIN rows : Readable(rows[i])' /\ lanes[i] = L(rows[i])
    BY PairsGrow DEF Writes, Grows
  <1>2. /\ \A row \in old : Readable(row) /\ LanesOf(row) \in stored /\ net[row] \in Int
        /\ \A r, s \in old : SameRow(r, s) => net[r] = net[s]
        /\ \A i \in DOMAIN session.facts : FactsAt(i) \in stored
        /\ \A l \in stored :
              /\ \/ \E row \in old : l = LanesOf(row)
                 \/ \E i \in DOMAIN session.facts : l = FactsAt(i)
              /\ engine.rows[l] = InFacts(l) + InNet(l)
    BY <1>1 DEF StoredInv
  <1>3. \A row \in old : Readable(row)' /\ L(row) = LanesOf(row)
    BY <1>2, StaysReadable
  <1>4. /\ \A i \in DOMAIN session.facts : FactsAt(i)' = FactsAt(i)
        /\ \A l : InFacts(l)' = InFacts(l)
    BY FactsStay
  <1>5. /\ DOMAIN net' = all
        /\ \A row \in all : net'[row] =
              Written(net, row) + diff * Cardinality({i \in DOMAIN rows : SameRow(rows[i], row)})
    BY <1>1 DEF WriteAll
  <1>6. /\ DOMAIN engine'.rows = new
        /\ \A l \in new : engine'.rows[l] = Stored(engine.rows, l) + diff * Count(lanes, l)
    BY <1>1 DEF AddAll, Count
  <1> HIDE DEF L
  <1>7. \A row \in all : Readable(row)' /\ L(row) \in new
    <2>1. ASSUME NEW i \in DOMAIN rows
          PROVE  Readable(rows[i])' /\ L(rows[i]) \in new
      <3>1. lanes[i] \in ToSet(lanes)
        BY <1>0 DEF ToSet
      <3> QED  BY <1>1, <3>1
    <2>2. \A row \in ToSet(rows) : \E i \in DOMAIN rows : row = rows[i]
      BY DEF ToSet
    <2> QED  BY <1>2, <1>3, <2>1, <2>2
  <1>8. \A r, s \in all : SameRow(r, s) <=> L(r) = L(s)
    <2>1. \A r, s : Storable(r)' /\ Storable(s)' => (SameRow(r, s) <=> L(r) = L(s))
      BY ApartNext DEF RowsApart, L
    <2>2. \A row \in all : Storable(row)'
      BY <1>7 DEF Readable
    <2> QED  BY <2>1, <2>2
  <1>9. \A l : Count(lanes, l) \in Nat
    <2> SUFFICES ASSUME NEW l
                 PROVE  Count(lanes, l) \in Nat
      OBVIOUS
    <2>1. {i \in DOMAIN lanes : lanes[i] = l} \in SUBSET (1 .. n)
      BY <1>0
    <2> QED  BY <2>1, CountIsNat DEF Count
  <1>10. \A l : InNet(l) \in Int
    <2> SUFFICES ASSUME NEW l
                 PROVE  InNet(l) \in Int
      OBVIOUS
    <2> DEFINE some == {r \in DOMAIN net : LanesOf(r) = l}
    <2>1. InNet(l) = IF some = {} THEN 0 ELSE net[CHOOSE r \in some : TRUE]
      BY DEF InNet
    <2>2. some # {} => \E r \in some : r = CHOOSE x \in some : TRUE
      OBVIOUS
    <2>3. \A r \in some : net[r] \in Int
      BY <1>2
    <2> HIDE DEF some
    <2>4. some # {} => net[CHOOSE r \in some : TRUE] \in Int
      BY <2>2, <2>3
    <2> QED  BY <2>1, <2>4
  <1>11. ASSUME NEW row \in all
         PROVE  net'[row] = InNet(L(row)) + diff * Count(lanes, L(row)) /\ net'[row] \in Int
    <2>1. \A r \in DOMAIN net : SameRow(r, row) <=> LanesOf(r) = L(row)
      BY <1>3, <1>8
    <2>2. Written(net, row) = InNet(L(row))
      <3> DEFINE equal == {r \in DOMAIN net : SameRow(r, row)}
                 alike == {r \in DOMAIN net : LanesOf(r) = L(row)}
      <3>1. equal = alike
        BY <2>1
      <3>2. Written(net, row) = IF equal = {} THEN 0 ELSE net[CHOOSE r \in equal : TRUE]
        BY DEF Written
      <3>3. InNet(L(row)) = IF alike = {} THEN 0 ELSE net[CHOOSE r \in alike : TRUE]
        BY DEF InNet
      <3> HIDE DEF equal, alike
      <3> QED  BY <3>1, <3>2, <3>3
    <2>3. \A i \in DOMAIN rows : rows[i] \in ToSet(rows)
      BY DEF ToSet
    <2>4. \A i \in DOMAIN rows : SameRow(rows[i], row) <=> lanes[i] = L(row)
      BY <1>1, <1>8, <2>3
    <2>5. {i \in DOMAIN rows : SameRow(rows[i], row)} = {i \in DOMAIN lanes : lanes[i] = L(row)}
      BY <1>0, <2>4
    <2>6. Cardinality({i \in DOMAIN rows : SameRow(rows[i], row)}) = Count(lanes, L(row))
      BY <2>5 DEF Count
    <2>7. net'[row] = InNet(L(row)) + diff * Count(lanes, L(row))
      BY <1>5, <2>2, <2>6
    <2>8. InNet(L(row)) \in Int /\ Count(lanes, L(row)) \in Int /\ diff \in Int
      BY <1>1, <1>9, <1>10
    <2> QED  BY <2>7, <2>8
  <1>12. ASSUME NEW l
         PROVE  InNet(l)' = InNet(l) + diff * Count(lanes, l)
    <2> DEFINE some == {r \in all : L(r) = l}
    <2>1. InNet(l)' = IF some = {} THEN 0 ELSE net'[CHOOSE r \in some : TRUE]
      BY <1>5 DEF InNet, L
    <2>2. CASE some # {}
      <3>1. PICK r \in some : r = CHOOSE x \in some : TRUE
        BY <2>2
      <3> HIDE DEF some
      <3>2. r \in all /\ L(r) = l
        BY <3>1 DEF some
      <3>3. InNet(l)' = net'[r]
        BY <2>1, <2>2, <3>1
      <3> QED  BY <1>11, <3>2, <3>3
    <2>3. CASE some = {}
      <3>1. {r \in DOMAIN net : LanesOf(r) = l} = {}
        BY <1>3, <2>3
      <3>2. InNet(l) = 0
        BY <3>1 DEF InNet
      <3>3. \A i \in DOMAIN rows : rows[i] \in all
        BY DEF ToSet
      <3>4. {i \in DOMAIN lanes : lanes[i] = l} = {}
        BY <1>0, <1>1, <2>3, <3>3
      <3>5. Count(lanes, l) = 0
        BY <3>4, FS_EmptySet DEF Count
      <3>6. InNet(l)' = 0
        BY <2>1, <2>3
      <3> QED  BY <1>1, <3>2, <3>5, <3>6
    <2> QED  BY <2>2, <2>3
  <1>13. \A l : Stored(engine.rows, l) = InFacts(l) + InNet(l)
    <2> SUFFICES ASSUME NEW l
                 PROVE  Stored(engine.rows, l) = InFacts(l) + InNet(l)
      OBVIOUS
    <2>1. CASE l \in stored
      BY <1>2, <2>1 DEF Stored
    <2>2. CASE l \notin stored
      <3>1. {i \in DOMAIN session.facts : FactsAt(i) = l} = {} /\ {r \in DOMAIN net : LanesOf(r) = l} = {}
        BY <1>2, <2>2
      <3>2. InFacts(l) = 0 /\ InNet(l) = 0
        BY <3>1, FS_EmptySet DEF InFacts, InNet
      <3> QED  BY <2>2, <3>2 DEF Stored
    <2> QED  BY <2>1, <2>2
  <1>14. ASSUME NEW l \in new
         PROVE  /\ \/ \E row \in all : l = L(row)
                   \/ \E i \in DOMAIN session.facts : l = FactsAt(i)'
                /\ engine'.rows[l] = InFacts(l)' + InNet(l)'
    <2>1. \/ \E row \in all : l = L(row)
          \/ \E i \in DOMAIN session.facts : l = FactsAt(i)'
      <3>1. CASE l \in stored
        BY <1>2, <1>3, <1>4, <3>1
      <3>2. CASE l \in ToSet(lanes)
        <4>1. PICK i \in DOMAIN lanes : l = lanes[i]
          BY <3>2 DEF ToSet
        <4>2. rows[i] \in ToSet(rows) /\ l = L(rows[i])
          BY <1>0, <1>1, <4>1 DEF ToSet
        <4> QED  BY <4>2
      <3> QED  BY <3>1, <3>2
    <2>2. InFacts(l) \in Int
      <3>1. PICK m \in Nat : DOMAIN session.facts = 1 .. m
        <4>1. session.facts \in Seq(Seq(Inputs))
          BY RowsAssumption DEF EngineInv
        <4> QED  BY <4>1, LenProperties
      <3>2. {i \in DOMAIN session.facts : FactsAt(i) = l} \in SUBSET (1 .. m)
        BY <3>1
      <3>3. Cardinality({i \in DOMAIN session.facts : FactsAt(i) = l}) \in Nat
        BY <3>2, CountIsNat
      <3> QED  BY <3>3 DEF InFacts
    <2>3. InNet(l) \in Int /\ diff * Count(lanes, l) \in Int
      BY <1>1, <1>9, <1>10
    <2>4. engine'.rows[l] = InFacts(l) + InNet(l) + diff * Count(lanes, l)
      BY <1>6, <1>13
    <2>5. InNet(l)' = InNet(l) + diff * Count(lanes, l) /\ InFacts(l)' = InFacts(l)
      BY <1>4, <1>12
    <2> QED  BY <2>1, <2>2, <2>3, <2>4, <2>5
  <1>15. \A row \in all : Readable(row)' /\ L(row) \in new /\ net'[row] \in Int
    BY <1>7, <1>11
  <1>16. \A r, s \in all : SameRow(r, s) => net'[r] = net'[s]
    <2> SUFFICES ASSUME NEW r \in all, NEW s \in all, SameRow(r, s)
                 PROVE  net'[r] = net'[s]
      OBVIOUS
    <2>1. L(r) = L(s)
      BY <1>8
    <2> QED  BY <1>11, <2>1
  <1>17. \A i \in DOMAIN session.facts : FactsAt(i)' \in new
    BY <1>2, <1>4
  <1> HIDE DEF all, new, old, stored
  <1> QED  BY <1>1, <1>5, <1>6, <1>14, <1>15, <1>16, <1>17 DEF StoredInv, L

--------------------------------------------------------------------------------
(* What each call writes. *)
Stores == Untouched \/ \E rows, lanes, diff : Writes(rows, lanes, diff)

(* The lanes of a batch that fits are those of its rows. *)
Faithful(rows, lanes) ==
    (\A i \in DOMAIN rows : RowFits(rows[i])) /\ Compatible' =>
        \A i \in DOMAIN rows : Readable(rows[i])' /\ lanes[i] = LanesOf(rows[i])'

LEMMA ApplyStores ==
    ASSUME EngineInv, NEW ids, NEW lanes, NEW rows, NEW diff \in Int, NEW refused, NEW rejects, NEW n \in Nat,
           DOMAIN rows = 1 .. n, DOMAIN lanes = 1 .. n, Apply(ids, lanes, rows, diff, refused, rejects),
           ~refused /\ raised' = "none" /\ engine'.ids = ids => Faithful(rows, lanes)
    PROVE  Stores
  <1>1. PICK rc \in {0} \cup Refusals :
          /\ raised' \in {Check(rc)} \cup (IF rc = 0 THEN {} ELSE rejects)
          /\ rc = 0 => ~refused
          /\ IF rc = 0
             THEN /\ engine' = [ids |-> ids, rows |-> AddAll(engine.rows, lanes, diff)]
                  /\ net' = WriteAll(net, rows, diff)
                  /\ fitted' = (fitted /\ \A i \in DOMAIN rows : RowFits(rows[i]))
             ELSE engine' = [engine EXCEPT !.ids = ids] /\ UNCHANGED <<net, fitted>>
    BY DEF Apply
  <1>2. CASE rc = 0
    <2>1. /\ engine'.ids = ids /\ engine'.rows = AddAll(engine.rows, lanes, diff)
          /\ net' = WriteAll(net, rows, diff) /\ raised' = "none" /\ ~refused
          /\ fitted' = (fitted /\ \A i \in DOMAIN rows : RowFits(rows[i]))
      BY <1>1, <1>2 DEF Check
    <2>2. Faithful(rows, lanes)
      BY <2>1
    <2>3. Writes(rows, lanes, diff)
      BY <2>1, <2>2 DEF Writes, Faithful
    <2> QED  BY <2>3 DEF Stores
  <1>3. CASE rc # 0
    <2>1. engine' = [engine EXCEPT !.ids = ids] /\ net' = net /\ fitted' = fitted
      BY <1>1, <1>3
    <2>2. engine'.rows = engine.rows
      BY <2>1 DEF EngineInv
    <2> QED  BY <2>1, <2>2 DEF Stores, Untouched
  <1> QED  BY <1>2, <1>3

(* The symbols have their ids, in every state. *)
IdsRead == \A p \in Pairs : Id(p[1]) = p[2] /\ Masked(p[2]) = p[2]

LEMMA AlwaysIds == Compatible => IdsRead
  BY IdOf DEF IdsRead

LEMMA IdsNext ==
    ASSUME Compatible'
    PROVE  IdsRead'
  <1>1. (Compatible => IdsRead)'
    BY AlwaysIds, PTL
  <1> QED  BY <1>1

(* A row of an EasySession that fits is one its relation can hold. *)
LEMMA EasyHeld ==
    ASSUME session' = session, session.class = "easy", NEW type \in ColumnTypes, NEW v \in Inputs,
           EasyFits(v, type), IsStr(v) => \E p \in Pairs' : p[1] = String(v)
    PROVE  /\ Holds(v, type)' /\ (IsStr(v) <=> type = "STRING")
           /\ ~IsStr(v) => \/ v.kind \in {"bool", "int"} /\ LaneOf(v, type)' = Masked(WholePart(v.core))
                           \/ v.kind = "float" /\ LaneOf(v, type)' = Bits[v.core]
  <1>1. CASE type = "STRING"
    BY <1>1 DEF Holds, EasyFits
  <1>2. CASE type = "FLOAT"
    <2>1. v.kind = "float" /\ v.core.sp = "finite"
      BY <1>2 DEF EasyFits
    <2>2. v \in Values /\ ~IsStr(v) /\ v.kind \in FloatKinds
      BY <2>1, InputParts DEF FloatLike, FloatKinds
    <2>3. v.core = Core("finite", v.core.num) /\ v.core \in Floats /\ v.core.num \in FloatNums
      <3>1. v.core = Core("finite", v.core.num) /\ v.core \in Floats
        BY <2>1, <2>2, ValueParts
      <3> QED  BY <3>1 DEF Floats, Core, Apart
    <2>4. Fits(v, type)
      BY <1>2, <2>1, <2>3 DEF Fits
    <2>5. Holds(v, type)'
      BY <1>2, <2>1, <2>2, <2>4 DEF Holds
    <2>6. LaneOf(v, type)' = Bits[v.core]
      BY <1>2, <2>2, <2>3 DEF LaneOf
    <2> QED  BY <1>2, <2>1, <2>2, <2>5, <2>6
  <1>3. CASE type \in {"BOOL", "INT", "UINT"}
    <2>1. v.kind \in {"bool", "int"} /\ Fits(v, type)
      BY <1>3 DEF EasyFits
    <2>2. ~IsStr(v) /\ v.core.sp \in {"finite", "-0"}
      BY <1>3, <2>1 DEF IsStr, Fits
    <2>3. Holds(v, type)'
      BY <1>3, <2>1, <2>2 DEF Holds
    <2>4. LaneOf(v, type)' = Masked(WholePart(v.core))
      BY <1>3, <2>2 DEF LaneOf
    <2> QED  BY <1>3, <2>1, <2>2, <2>3, <2>4
  <1> QED  BY <1>1, <1>2, <1>3 DEF ColumnTypes

(* The strings of a row that the table has learnt. *)
LEMMA LearntStrings ==
    ASSUME NEW ids, NEW strings, mirror' = Intern(mirror, ids, strings)
    PROVE  \A s \in strings : ContainsValue(mirror, s)'
  <1> DEFINE f == Restrict(ids, Unknown(mirror, strings))
  <1>1. DOMAIN f = Unknown(mirror, strings)
    BY DEF Restrict
  <1>2. mirror' = [forward |-> Over(f, mirror.forward), reverse |-> Over(AntiFunction(f), mirror.reverse)]
    BY DEF Intern, Learn
  <1>3. mirror'.forward = Over(f, mirror.forward)
    BY <1>2
  <1> HIDE DEF f
  <1>4. DOMAIN mirror'.forward = DOMAIN f \cup DOMAIN mirror.forward
    BY <1>3 DEF Over
  <1> QED  BY <1>1, <1>4 DEF Unknown, ContainsValue

(* A call with one row of an EasySession, whose strings are in the table and  *)
(* whose lanes are its numbers and the ids of its strings.                  *)
LEMMA EasyFaithful ==
    ASSUME EngineInv, session' = session, session.class = "easy", NEW row \in session.rows, NEW lanes,
           DOMAIN lanes = DOMAIN row, lanes = [c \in DOMAIN row |-> lanes[c]],
           \A c \in DOMAIN row :
              \/ IsStr(row[c]) /\ /\ ContainsValue(mirror, String(row[c]))'
                                  /\ Compatible' => \E p \in Pairs' : p[1] = String(row[c]) /\ lanes[c] = p[2]
              \/ row[c].kind \in {"bool", "int"} /\ lanes[c] = Masked(WholePart(row[c].core))
              \/ row[c].kind = "float" /\ lanes[c] = Bits[row[c].core]
    PROVE  Faithful(<<row>>, <<lanes>>)
  <1> SUFFICES ASSUME RowFits(row), Compatible'
               PROVE  Readable(row)' /\ lanes = LanesOf(row)'
    BY DEF Faithful
  <1>1. /\ row \in Seq(Inputs) /\ session.types \in Seq(ColumnTypes) /\ DOMAIN row = DOMAIN session.types
        /\ \A c \in DOMAIN row : EasyFits(row[c], session.types[c])
    BY RowsAssumption DEF EngineInv, RowFits
  <1>2. \A c \in DOMAIN row : row[c] \in Inputs /\ session.types[c] \in ColumnTypes
    BY <1>1, LenProperties
  <1>3. ASSUME NEW c \in DOMAIN row
        PROVE  Holds(row[c], session.types[c])' /\ lanes[c] = LaneOf(row[c], session.types[c])'
    <2> DEFINE v == row[c]
               type == session.types[c]
    <2>1. v \in Inputs /\ type \in ColumnTypes /\ EasyFits(v, type)
      BY <1>1, <1>2
    <2>2. IsStr(v) => \E p \in Pairs' : p[1] = String(v) /\ lanes[c] = p[2]
      BY DEF IsStr
    <2>3. /\ Holds(v, type)' /\ (IsStr(v) <=> type = "STRING")
          /\ ~IsStr(v) => \/ v.kind \in {"bool", "int"} /\ LaneOf(v, type)' = Masked(WholePart(v.core))
                          \/ v.kind = "float" /\ LaneOf(v, type)' = Bits[v.core]
      BY <2>1, <2>2, EasyHeld
    <2>4. CASE IsStr(v)
      <3>1. PICK p \in Pairs' : p[1] = String(v) /\ lanes[c] = p[2]
        BY <2>2, <2>4
      <3>2. Id(String(v))' = p[2]
        BY <3>1, IdsNext DEF IdsRead
      <3> QED  BY <2>3, <2>4, <3>1, <3>2 DEF LaneOf
    <2>5. CASE ~IsStr(v)
      <3>1. \/ v.kind \in {"bool", "int"} /\ lanes[c] = Masked(WholePart(v.core))
            \/ v.kind = "float" /\ lanes[c] = Bits[v.core]
        BY <2>5
      <3>2. LaneOf(row[c], session.types[c])' = LaneOf(v, type)'
        OBVIOUS
      <3> HIDE DEF v, type
      <3>3. lanes[c] = LaneOf(v, type)'
        BY <2>3, <2>5, <3>1
      <3> QED  BY <2>3, <3>2, <3>3 DEF v, type
    <2> QED  BY <2>4, <2>5
  <1>4. Storable(row)'
    BY <1>1, <1>3 DEF Storable
  <1>5. \A c \in DOMAIN row : IsStr(row[c]) => ContainsValue(mirror, String(row[c]))'
    BY DEF IsStr
  <1>6. RowFits(row)'
    BY DEF RowFits
  <1>7. LanesOf(row)' = [c \in DOMAIN row |-> LaneOf(row[c], session.types[c])']
    BY DEF LanesOf
  <1>8. lanes = LanesOf(row)'
    BY <1>3, <1>7
  <1> QED  BY <1>4, <1>5, <1>6, <1>8 DEF Readable

(* The calls of an EasySession. *)
LEMMA EasySendStores ==
    ASSUME EngineInv, EngineInv', MirrorInv, MirrorInv', session.class = "easy", session' = session,
           NEW row \in session.rows, NEW diff \in Int, EasySend(row, diff)
    PROVE  Stores
  <1> DEFINE strings == StringsOf(Taken(row))
  <1>1. PICK ids :
          /\ mirror' = Intern(mirror, ids, strings)
          /\ IF RowError(row) # "none"
             THEN Raise(RowError(row)) /\ engine' = [engine EXCEPT !.ids = ids]
             ELSE Apply(ids, <<RowToInt64(row, mirror')>>, <<row>>, diff, FALSE, {})
    BY DEF EasySend
  <1>2. CASE RowError(row) # "none"
    <2>1. engine' = [engine EXCEPT !.ids = ids] /\ net' = net /\ fitted' = fitted
      BY <1>1, <1>2 DEF Raise
    <2>2. engine'.rows = engine.rows
      BY <2>1 DEF EngineInv
    <2> QED  BY <2>1, <2>2 DEF Stores, Untouched
  <1>3. CASE RowError(row) = "none"
    <2> DEFINE lanes == RowToInt64(row, mirror')
    <2>1. Taken(row) = row
      BY <1>3 DEF RowError
    <2>2. \A c \in DOMAIN row : IsStr(row[c]) => String(row[c]) \in strings
      BY <2>1 DEF StringsOf, ToSet
    <2>3. \A c \in DOMAIN row : row[c].kind \in EasyKinds
      <3> DEFINE good == {n \in 0 .. Len(row) : \A c \in 1 .. n : row[c].kind \in EasyKinds}
                 n == CHOOSE n \in good : \A m \in good : m <= n
      <3>1. row \in Seq(Inputs)
        BY RowsAssumption DEF EngineInv
      <3>2. DOMAIN row = 1 .. Len(row) /\ Len(row) \in Nat
        BY <3>1, LenProperties
      <3>3. Taken(row) = SubSeq(row, 1, n)
        BY DEF Taken
      <3>4. \E m \in good : \A k \in good : k <= m
        <4>1. good \in SUBSET (0 .. Len(row)) /\ 0 \in good
          BY <3>2
        <4> HIDE DEF good
        <4> QED  BY <3>2, <4>1, GreatestOf
      <3>5. n \in good
        <4> HIDE DEF good
        <4> QED  BY <3>4
      <3>6. n \in 0 .. Len(row) /\ \A c \in 1 .. n : row[c].kind \in EasyKinds
        BY <3>5
      <3> HIDE DEF n, good
      <3>7. Len(SubSeq(row, 1, n)) = n
        BY <3>1, <3>2, <3>6, SubSeqProperties
      <3>8. n = Len(row)
        BY <2>1, <3>3, <3>7
      <3> QED  BY <3>2, <3>6, <3>8
    <2> HIDE DEF strings
    <2>4. \A s \in strings : ContainsValue(mirror, s)'
      BY <1>1, LearntStrings
    <2>5. \A c \in DOMAIN row :
              \/ IsStr(row[c]) /\ /\ ContainsValue(mirror, String(row[c]))'
                                  /\ Compatible' => \E p \in Pairs' : p[1] = String(row[c]) /\ lanes[c] = p[2]
              \/ row[c].kind \in {"bool", "int"} /\ lanes[c] = Masked(WholePart(row[c].core))
              \/ row[c].kind = "float" /\ lanes[c] = Bits[row[c].core]
      <3> SUFFICES ASSUME NEW c \in DOMAIN row
                   PROVE  \/ IsStr(row[c]) /\ /\ ContainsValue(mirror, String(row[c]))'
                                              /\ Compatible' => \E p \in Pairs' : p[1] = String(row[c]) /\ lanes[c] = p[2]
                          \/ row[c].kind \in {"bool", "int"} /\ lanes[c] = Masked(WholePart(row[c].core))
                          \/ row[c].kind = "float" /\ lanes[c] = Bits[row[c].core]
        OBVIOUS
      <3>1. lanes[c] =
              CASE row[c].kind \in {"bool", "int"} -> Masked(WholePart(row[c].core))
                [] row[c].kind = "float" -> Bits[row[c].core]
                [] row[c].kind = "str" -> Masked(mirror'.forward[String(row[c])])
        BY DEF RowToInt64
      <3> HIDE DEF lanes
      <3>2. CASE row[c].kind \in {"bool", "int"}
        BY <3>1, <3>2
      <3>3. CASE row[c].kind = "float"
        BY <3>1, <3>3
      <3>4. CASE row[c].kind = "str"
        <4> DEFINE s == String(row[c])
        <4>1. IsStr(row[c]) /\ lanes[c] = Masked(mirror'.forward[s])
          BY <3>1, <3>4 DEF IsStr
        <4>2. ContainsValue(mirror, s)'
          BY <2>2, <2>4, <4>1
        <4>3. ASSUME Compatible'
              PROVE  \E p \in Pairs' : p[1] = s /\ lanes[c] = p[2]
          <5>1. <<s, mirror'.forward[s]>> \in Pairs'
            BY <4>2, <4>3 DEF MirrorInv, ContainsValue
          <5>2. Masked(mirror'.forward[s]) = mirror'.forward[s]
            BY <4>3, <5>1, IdsNext DEF IdsRead
          <5> QED  BY <4>1, <5>1, <5>2
        <4> QED  BY <4>1, <4>2, <4>3
      <3> QED  BY <2>3, <3>2, <3>3, <3>4 DEF EasyKinds
    <2>6. DOMAIN lanes = DOMAIN row /\ lanes = [c \in DOMAIN row |-> lanes[c]]
      <3> DEFINE lane(c) == CASE row[c].kind \in {"bool", "int"} -> Masked(WholePart(row[c].core))
                              [] row[c].kind = "float" -> Bits[row[c].core]
                              [] row[c].kind = "str" -> Masked(mirror'.forward[String(row[c])])
      <3>1. lanes = [c \in DOMAIN row |-> lane(c)]
        BY DEF RowToInt64
      <3> HIDE DEF lanes, lane
      <3> QED  BY <3>1
    <2> HIDE DEF lanes
    <2>7. Faithful(<<row>>, <<lanes>>)
      BY <2>5, <2>6, EasyFaithful
    <2>8. Apply(ids, <<lanes>>, <<row>>, diff, FALSE, {})
      BY <1>1, <1>3 DEF lanes
    <2>9. DOMAIN <<row>> = 1 .. 1 /\ DOMAIN <<lanes>> = 1 .. 1
      OBVIOUS
    <2> QED  BY <2>7, <2>8, <2>9, ApplyStores
  <1> QED  BY <1>2, <1>3

LEMMA EasyIudStores ==
    ASSUME EngineInv, EngineInv', MirrorInv, MirrorInv', session.class = "easy", session' = session,
           NEW row \in session.rows, NEW diff \in Int, EasyIud(row, diff)
    PROVE  Stores
  <1>1. CASE InternFails(row)
    <2>1. net' = net /\ fitted' = fitted /\ \E ids : engine' = [engine EXCEPT !.ids = ids]
      BY <1>1 DEF InternFails, Raise
    <2>2. engine'.rows = engine.rows
      BY <2>1 DEF EngineInv
    <2> QED  BY <2>1, <2>2 DEF Stores, Untouched
  <1> QED  BY <1>1, EasySendStores DEF EasyIud

LEMMA SymWriteStores ==
    ASSUME EngineInv, NEW row \in session.rows, NEW diff \in Int, SymWrite(row, diff)
    PROVE  Stores
  <1> DEFINE strings == StringsOf(row)
  <1>1. PICK ids \in EngineIntern(engine.ids, strings) :
          /\ Apply(ids, <<[c \in DOMAIN row |-> ids[String(row[c])]]>>, <<row>>, diff, FALSE, {})
          /\ mirror' = IF raised' = "none" THEN Intern(mirror, ids, strings) ELSE mirror
    BY DEF SymWrite
  <1>2. session' = session /\ session.class = "easy" /\ \A c \in DOMAIN row : IsStr(row[c])
    BY DEF SymWrite, Call
  <1> DEFINE lanes == [c \in DOMAIN row |-> ids[String(row[c])]]
  <1>3. \A c \in DOMAIN row : String(row[c]) \in strings
    BY <1>2 DEF StringsOf, ToSet
  <1>4. ASSUME raised' = "none", engine'.ids = ids
        PROVE  Faithful(<<row>>, <<lanes>>)
    <2> HIDE DEF strings
    <2>1. strings \subseteq DOMAIN engine'.ids
      <3>1. DOMAIN ids = DOMAIN engine.ids \cup strings
        BY <1>1, Interned
      <3> QED  BY <1>4, <3>1
    <2>2. \A s \in strings : ContainsValue(mirror, s)'
      BY <1>1, <1>4, LearntStrings
    <2>3. ASSUME NEW c \in DOMAIN row
          PROVE  IsStr(row[c]) /\ /\ ContainsValue(mirror, String(row[c]))'
                                  /\ \E p \in Pairs' : p[1] = String(row[c]) /\ lanes[c] = p[2]
      <3> DEFINE s == String(row[c])
      <3>1. <<s, engine'.ids[s]>> \in Pairs' /\ lanes[c] = engine'.ids[s]
        BY <1>3, <1>4, <2>1 DEF Pairs
      <3> QED  BY <1>2, <1>3, <2>2, <3>1
    <2>4. DOMAIN lanes = DOMAIN row /\ lanes = [c \in DOMAIN row |-> lanes[c]]
      OBVIOUS
    <2> HIDE DEF lanes
    <2> QED  BY <1>2, <2>3, <2>4, EasyFaithful
  <1>5. Apply(ids, <<lanes>>, <<row>>, diff, FALSE, {})
    BY <1>1
  <1> HIDE DEF lanes
  <1>6. DOMAIN <<row>> = 1 .. 1 /\ DOMAIN <<lanes>> = 1 .. 1
    OBVIOUS
  <1> QED  BY <1>4, <1>5, <1>6, ApplyStores

(* The calls of a Session. *)
LEMMA NoError ==
    ASSUME NEW n \in Nat, NEW errors, DOMAIN errors = 1 .. n, FirstError(errors) = "none"
    PROVE  \A i \in 1 .. n : errors[i] = "none"
  <1> DEFINE bad == {i \in DOMAIN errors : errors[i] # "none"}
             first == CHOOSE i \in bad : \A j \in bad : i <= j
  <1>1. FirstError(errors) = IF bad = {} THEN "none" ELSE errors[first]
    BY DEF FirstError
  <1>2. bad = {}
    <2> SUFFICES ASSUME bad # {}
                 PROVE  FALSE
      OBVIOUS
    <2>1. bad \in SUBSET (0 .. n)
      OBVIOUS
    <2>2. first \in bad
      <3> HIDE DEF bad
      <3>1. \E i \in bad : \A j \in bad : i <= j
        BY <2>1, LeastOf
      <3> QED  BY <3>1
    <2>3. errors[first] # "none"
      BY <2>2
    <2> HIDE DEF bad, first
    <2> QED  BY <1>1, <2>3
  <1> QED  BY <1>2

LEMMA BatchRows ==
    ASSUME EngineInv, NEW batch \in session.batches
    PROVE  /\ Len(batch) \in Nat /\ DOMAIN batch = 1 .. Len(batch)
           /\ \A i \in DOMAIN batch : batch[i] \in Seq(Inputs)
           /\ session.types \in Seq(ColumnTypes)
  <1>1. batch \in Seq(Seq(Inputs)) /\ session.types \in Seq(ColumnTypes)
    BY RowsAssumption DEF EngineInv
  <1> QED  BY <1>1, LenProperties

(* A value of a Session that fits is one its relation can hold. *)
LEMMA SessionHeld ==
    ASSUME NEW type \in ColumnTypes, NEW v \in Inputs, SessionFits(v, type), session.class = "advanced",
           v.core.sp \in {"finite", "-0"}
    PROVE  Holds(v, type)
  BY DEF Holds, SessionFits

(* The lanes of a batch are those of the values that fit their columns. *)
Aligned(batch, lanes) ==
    /\ DOMAIN lanes = DOMAIN batch
    /\ \A i \in DOMAIN batch : lanes[i] = [c \in DOMAIN batch[i] |-> lanes[i][c]]
Kept(batch, lanes) ==
    \A i \in DOMAIN batch : \A c \in DOMAIN batch[i] :
        DOMAIN batch[i] = DOMAIN session.types /\ SessionFits(batch[i][c], session.types[c]) =>
           /\ batch[i][c].core.sp \in {"finite", "-0"}
           /\ lanes[i][c] = LaneOf(batch[i][c], session.types[c])

LEMMA SessionFaithful ==
    ASSUME EngineInv, session' = session, session.class = "advanced",
           NEW batch \in session.batches, NEW lanes, Aligned(batch, lanes), Kept(batch, lanes)
    PROVE  Faithful(batch, lanes)
  <1> SUFFICES ASSUME NEW i \in DOMAIN batch, RowFits(batch[i])
               PROVE  Readable(batch[i])' /\ lanes[i] = LanesOf(batch[i])'
    BY DEF Faithful
  <1> DEFINE row == batch[i]
             types == session.types
  <1>1. row \in Seq(Inputs) /\ types \in Seq(ColumnTypes)
    BY BatchRows
  <1>2. DOMAIN row = DOMAIN types /\ \A c \in DOMAIN row : SessionFits(row[c], types[c])
    BY DEF RowFits
  <1>3. \A c \in DOMAIN row : row[c] \in Inputs /\ types[c] \in ColumnTypes
    BY <1>1, <1>2, LenProperties
  <1>4. lanes[i] = [c \in DOMAIN row |-> lanes[i][c]]
    BY DEF Aligned
  <1>5. \A c \in DOMAIN row : row[c].core.sp \in {"finite", "-0"} /\ lanes[i][c] = LaneOf(row[c], types[c])
    BY <1>2 DEF Kept
  <1>6. ASSUME NEW c \in DOMAIN row
        PROVE  /\ Holds(row[c], types[c])' /\ ~IsStr(row[c])
               /\ lanes[i][c] = LaneOf(row[c], types[c])'
    <2>1. Holds(row[c], types[c]) /\ ~IsStr(row[c])
      BY <1>2, <1>3, <1>5, SessionHeld DEF SessionFits
    <2>2. Holds(row[c], types[c])'
      BY <2>1 DEF Holds
    <2>3. LaneOf(row[c], types[c])' = LaneOf(row[c], types[c])
      BY <2>1 DEF LaneOf
    <2> QED  BY <1>5, <2>1, <2>2, <2>3
  <1>7. Storable(row)'
    BY <1>1, <1>2, <1>6 DEF Storable
  <1>8. RowFits(row)'
    BY DEF RowFits
  <1>9. LanesOf(row)' = [c \in DOMAIN row |-> LaneOf(row[c], types[c])']
    BY DEF LanesOf
  <1>10. lanes[i] = LanesOf(row)'
    BY <1>4, <1>6, <1>9
  <1> QED  BY <1>6, <1>7, <1>8, <1>10 DEF Readable

(* int(v) of a whole number. *)
LEMMA TruncatedWhole ==
    ASSUME NEW core, core.num \in Int, core.num % Unit = 0
    PROVE  Truncated(core) = WholePart(core)
  <1> DEFINE i == core.num \div Unit
  <1>1. Unit \in Nat \ {0} /\ i \in Int /\ Unit * i = core.num
    BY DivExact, WidthAssumption
  <1>2. CASE core.num >= 0
    BY <1>2 DEF Truncated, WholePart
  <1>3. CASE ~(core.num >= 0)
    <2> HIDE DEF i
    <2>1. -core.num = Unit * (-i) /\ -i \in Int
      BY <1>1
    <2>2. (-core.num) \div Unit = -i
      BY <1>1, <2>1, DivOfMultiple
    <2> QED  BY <1>1, <1>3, <2>2 DEF Truncated, WholePart, i
  <1> QED  BY <1>2, <1>3

LEMMA UntypedWriteStores ==
    ASSUME EngineInv, NEW batch \in session.batches, NEW diff \in Int, UntypedWrite(batch, diff)
    PROVE  Stores
  <1> DEFINE types == session.types
             lanes == [i \in DOMAIN batch |-> Flatten(batch[i])]
             refused == "FLOAT" \in ToSet(types) \/ Len(batch[1]) # Len(types)
  <1>1. session' = session /\ session.class = "advanced"
    BY DEF UntypedWrite, Call
  <1>2. CASE UntypedError(batch) # "none"
    <2>1. engine' = engine /\ net' = net /\ fitted' = fitted
      BY <1>2 DEF UntypedWrite, Raise
    <2> QED  BY <2>1 DEF Stores, Untouched
  <1>3. CASE UntypedError(batch) = "none"
    <2>1. Apply(engine.ids, lanes, batch, diff, refused, {})
      BY <1>3 DEF UntypedWrite
    <2>2. ASSUME ~refused
          PROVE  Faithful(batch, lanes)
      <3>1. ASSUME NEW i \in DOMAIN batch, NEW c \in DOMAIN batch[i],
                   DOMAIN batch[i] = DOMAIN types, SessionFits(batch[i][c], types[c])
            PROVE  batch[i][c].core.sp \in {"finite", "-0"} /\ lanes[i][c] = LaneOf(batch[i][c], types[c])
        <4> DEFINE v == batch[i][c]
        <4>1. batch[i] \in Seq(Inputs) /\ types \in Seq(ColumnTypes) /\ c \in DOMAIN types
          BY <3>1, BatchRows
        <4>2. v \in Inputs /\ types[c] \in ColumnTypes
          BY <4>1, LenProperties
        <4>3. types[c] # "FLOAT"
          BY <2>2, <4>1 DEF ToSet
        <4>4. v.core.sp \in {"finite", "-0"} /\ v.core.num % Unit = 0 /\ ~IsStr(v)
          BY <3>1, <4>2, <4>3 DEF SessionFits, Fits, ColumnTypes
        <4>5. Truncated(v.core) = WholePart(v.core)
          BY <4>2, <4>4, InputParts, TruncatedWhole
        <4>6. lanes[i][c] = Masked(Truncated(v.core))
          BY DEF Flatten
        <4> HIDE DEF v, lanes
        <4>7. LaneOf(v, types[c]) = Masked(WholePart(v.core))
          BY <4>3, <4>4 DEF LaneOf
        <4> QED  BY <4>4, <4>5, <4>6, <4>7 DEF v
      <3>2. Aligned(batch, lanes)
        BY DEF Aligned, Flatten
      <3> HIDE DEF lanes
      <3>3. Kept(batch, lanes)
        BY <3>1 DEF Kept
      <3> QED  BY <1>1, <3>2, <3>3, SessionFaithful
    <2>3. DOMAIN lanes = DOMAIN batch /\ DOMAIN batch = 1 .. Len(batch) /\ Len(batch) \in Nat
      BY BatchRows
    <2> HIDE DEF lanes, refused
    <2> QED  BY <2>1, <2>2, <2>3, ApplyStores
  <1> QED  BY <1>2, <1>3

(* What the engine keeps of a value that is packed and that it does not refuse. *)
LEMMA SentLane ==
    ASSUME NEW v \in Values, NEW type \in ColumnTypes, ~IsStr(v), Fits(v, type),
           EncodeError(v, type) = "none", Representable(EncodeLane(v, type), type)
    PROVE  /\ v.core.sp \in {"finite", "-0"}
           /\ Canonical(EncodeLane(v, type), type) = LaneOf(v, type)
  <1>1. CASE type # "FLOAT"
    <2>1. v.core.sp \in {"finite", "-0"}
      BY <1>1 DEF Fits, ColumnTypes
    <2>2. EncodeLane(v, type) = Masked(WholePart(v.core))
      BY <1>1, NothingLost
    <2> QED  BY <1>1, <2>1, <2>2 DEF Canonical, LaneOf
  <1>2. CASE type = "FLOAT"
    <2>1. AsFloat(v) = v.core /\ v.core \in Floats
      BY <1>2, FittingFloat
    <2>2. EncodeLane(v, type) = Bits[v.core] /\ Unpack(Bits[v.core]) = v.core
      BY <1>2, <2>1, UnpackBits DEF EncodeLane
    <2>3. v.core.sp \in {"finite", "-0"}
      BY <1>2, <2>2 DEF Representable
    <2>4. v.core = Core(v.core.sp, v.core.num) /\ (v.core.sp = "-0" => v.core.num = 0)
      BY ValueParts
    <2>5. LaneOf(v, type) = Bits[Core("finite", v.core.num)]
      BY <1>2 DEF LaneOf
    <2>6. CASE v.core.sp = "finite"
      BY <1>2, <2>2, <2>4, <2>5, <2>6 DEF Canonical
    <2>7. CASE v.core.sp = "-0"
      BY <1>2, <2>2, <2>4, <2>5, <2>7 DEF Canonical
    <2> QED  BY <2>3, <2>6, <2>7
  <1> QED  BY <1>1, <1>2

LEMMA TypedWriteStores ==
    ASSUME EngineInv, NEW batch \in session.batches, NEW diff \in Int, TypedWrite(batch, diff)
    PROVE  Stores
  <1> DEFINE types == session.types
             rows == [i \in DOMAIN batch |-> BuildTypedRow(batch[i])]
             lanes == [i \in DOMAIN rows |-> [c \in DOMAIN rows[i] |-> Canonical(rows[i][c], types[c])]]
             refused == \E i \in DOMAIN rows : \E c \in DOMAIN types : ~Representable(rows[i][c], types[c])
  <1>1. session' = session /\ session.class = "advanced"
    BY DEF TypedWrite, Call
  <1>2. CASE TypedError(batch) # "none"
    <2>1. engine' = engine /\ net' = net /\ fitted' = fitted
      BY <1>2 DEF TypedWrite, Raise
    <2> QED  BY <2>1 DEF Stores, Untouched
  <1>3. CASE TypedError(batch) = "none"
    <2>1. Apply(engine.ids, lanes, batch, diff, refused, {"TypedRowError"})
      BY <1>3 DEF TypedWrite
    <2>2. Len(batch) \in Nat /\ DOMAIN batch = 1 .. Len(batch) /\ types \in Seq(ColumnTypes)
      BY BatchRows
    <2>3. \A i \in DOMAIN batch : \A c \in 1 .. Len(types) : EncodeError(batch[i][c], types[c]) = "none"
      <3> DEFINE InRow(i) == [c \in 1 .. Len(types) |-> EncodeError(batch[i][c], types[c])]
                 errors == [i \in DOMAIN batch |->
                              IF Len(batch[i]) # Len(types) THEN "ValueError" ELSE FirstError(InRow(i))]
      <3>1. FirstError(errors) = "none"
        BY <1>3 DEF TypedError, BatchError
      <3>2. \A i \in 1 .. Len(batch) : errors[i] = "none"
        <4>1. DOMAIN errors = 1 .. Len(batch)
          BY <2>2
        <4> HIDE DEF errors
        <4> QED  BY <2>2, <3>1, <4>1, NoError
      <3>3. ASSUME NEW i \in DOMAIN batch
            PROVE  \A c \in 1 .. Len(types) : InRow(i)[c] = "none"
        <4>1. FirstError(InRow(i)) = "none"
          BY <2>2, <3>2
        <4>2. DOMAIN InRow(i) = 1 .. Len(types) /\ Len(types) \in Nat
          BY <2>2, LenProperties
        <4> HIDE DEF InRow
        <4> QED  BY <4>1, <4>2, NoError
      <3> QED  BY <3>3
    <2>4. ASSUME ~refused
          PROVE  Faithful(batch, lanes)
      <3>1. ASSUME NEW i \in DOMAIN batch, NEW c \in DOMAIN batch[i],
                   DOMAIN batch[i] = DOMAIN types, SessionFits(batch[i][c], types[c])
            PROVE  batch[i][c].core.sp \in {"finite", "-0"} /\ lanes[i][c] = LaneOf(batch[i][c], types[c])
        <4> DEFINE v == batch[i][c]
                   type == types[c]
                   lane == EncodeLane(v, type)
        <4>1. batch[i] \in Seq(Inputs) /\ types \in Seq(ColumnTypes) /\ c \in DOMAIN types /\ c \in 1 .. Len(types)
          BY <2>2, <3>1, BatchRows, LenProperties
        <4>2. v \in Inputs /\ type \in ColumnTypes
          BY <4>1, LenProperties
        <4>3. EncodeError(v, type) = "none"
          BY <2>3, <4>1
        <4>4. v \in Values /\ ~IsStr(v) /\ Fits(v, type)
          <5>1. v.kind \in IntKinds \cup FloatLike
            BY <4>3 DEF EncodeError
          <5> QED  BY <3>1, <4>2, <5>1, InputParts DEF SessionFits
        <4>5. Representable(lane, type) /\ lanes[i][c] = Canonical(lane, type)
          BY <2>4, <4>1 DEF BuildTypedRow
        <4> HIDE DEF v, type, lane, lanes
        <4>6. v.core.sp \in {"finite", "-0"} /\ Canonical(lane, type) = LaneOf(v, type)
          BY <4>2, <4>3, <4>4, <4>5, SentLane DEF lane
        <4> QED  BY <4>5, <4>6 DEF v, type
      <3>2. Aligned(batch, lanes)
        <4>1. DOMAIN rows = DOMAIN batch /\ \A i \in DOMAIN batch : DOMAIN rows[i] = DOMAIN batch[i]
          BY DEF BuildTypedRow
        <4> HIDE DEF rows
        <4> QED  BY <4>1 DEF Aligned
      <3> HIDE DEF lanes
      <3>3. Kept(batch, lanes)
        BY <3>1 DEF Kept
      <3> QED  BY <1>1, <3>2, <3>3, SessionFaithful
    <2>5. DOMAIN lanes = DOMAIN batch
      OBVIOUS
    <2> HIDE DEF lanes, refused
    <2> QED  BY <2>1, <2>2, <2>4, <2>5, ApplyStores
  <1> QED  BY <1>2, <1>3

LEMMA StepStores ==
    ASSUME RowsInv, RowsInv', session' = session, [Next]_vars
    PROVE  Stores
  <1>1. EngineInv /\ MirrorInv /\ DedupeInv /\ EngineInv' /\ MirrorInv'
    BY DEF RowsInv
  <1>2. ASSUME NEW row \in session.rows, NEW diff \in {1, -1}, EasyWrite(row, diff)
        PROVE  Stores
    BY <1>1, <1>2, EasyIudStores DEF EasyWrite, Call
  <1>3. ASSUME NEW row \in session.rows, NEW diff \in {1, -1}, SymWrite(row, diff)
        PROVE  Stores
    BY <1>1, <1>3, SymWriteStores
  <1>4. ASSUME NEW batch \in session.batches, NEW diff \in {1, -1},
               UntypedWrite(batch, diff) \/ TypedWrite(batch, diff)
        PROVE  Stores
    BY <1>1, <1>4, UntypedWriteStores, TypedWriteStores
  <1>5. CASE DedupeEnd
    <2>1. CASE Raise("none") /\ UNCHANGED <<mirror, engine, doubled>>
      BY <2>1 DEF Raise, Stores, Untouched
    <2>2. CASE EasyIud(pending.row, 1)
      <3>1. session.class = "easy" /\ pending.row \in session.rows
        BY <1>1, <1>5 DEF DedupeEnd, DedupeInv
      <3> QED  BY <1>1, <2>2, <3>1, EasyIudStores
    <2> QED  BY <1>5, <2>1, <2>2 DEF DedupeEnd
  <1>6. CASE UNCHANGED <<engine, net, fitted>>
    BY <1>6 DEF Stores, Untouched
  <1>7. ASSUME NEW row, DedupeBegin(row)
        PROVE  UNCHANGED <<engine, net, fitted>>
    BY <1>7 DEF DedupeBegin, history
  <1>8. ASSUME NEW s, NEW id, SeedIntern(s, id)
        PROVE  UNCHANGED <<engine, net, fitted>>
    BY <1>8 DEF SeedIntern
  <1>9. DedupePreview \/ UNCHANGED vars => UNCHANGED <<engine, net, fitted>>
    BY DEF DedupePreview, history, vars
  <1> QED  BY <1>2, <1>3, <1>4, <1>5, <1>6, <1>7, <1>8, <1>9 DEF Next, Finished

LEMMA StoredAtInit ==
    ASSUME Init
    PROVE  StoredInv
  <1>1. PICK ids : engine = [ids |-> ids, rows |->
                AddAll(<<>>, [i \in DOMAIN session.facts |-> FactLanes(session.facts[i], ids)], 1)]
    BY DEF Init
  <1> DEFINE lanes == [i \in DOMAIN session.facts |-> FactsAt(i)]
  <1>2. engine.ids = ids
    BY <1>1
  <1>3. engine.rows = AddAll(<<>>, lanes, 1)
    BY <1>1, <1>2 DEF FactsAt
  <1>4. net = <<>> /\ DOMAIN net = {} /\ session \in Sessions
    BY DEF Init
  <1>5. DOMAIN engine.rows = ToSet(lanes)
    BY <1>3 DEF AddAll
  <1>6. ASSUME NEW l \in DOMAIN engine.rows
        PROVE  engine.rows[l] = InFacts(l) + InNet(l)
    <2>1. engine.rows[l] = Stored(<<>>, l) + 1 * Cardinality({i \in DOMAIN lanes : lanes[i] = l})
      BY <1>3 DEF AddAll
    <2>2. Stored(<<>>, l) = 0
      BY DEF Stored
    <2>3. {i \in DOMAIN lanes : lanes[i] = l} = {i \in DOMAIN session.facts : FactsAt(i) = l}
      OBVIOUS
    <2>4. Cardinality({i \in DOMAIN lanes : lanes[i] = l}) = InFacts(l)
      BY <2>3 DEF InFacts
    <2>5. InFacts(l) \in Nat
      <3>1. session.facts \in Seq(Seq(Inputs))
        BY <1>4, RowsAssumption
      <3>2. {i \in DOMAIN session.facts : FactsAt(i) = l} \in SUBSET (1 .. Len(session.facts))
        BY <3>1, LenProperties
      <3> QED  BY <3>1, <3>2, LenProperties, CountIsNat DEF InFacts
    <2>6. InNet(l) = 0
      BY <1>4 DEF InNet
    <2> HIDE DEF lanes
    <2> QED  BY <2>1, <2>2, <2>4, <2>5, <2>6
  <1>7. \A i \in DOMAIN session.facts : FactsAt(i) \in ToSet(lanes)
    BY DEF ToSet
  <1>8. \A l \in ToSet(lanes) : \E i \in DOMAIN session.facts : l = FactsAt(i)
    BY DEF ToSet
  <1> HIDE DEF lanes
  <1> QED  BY <1>4, <1>5, <1>6, <1>7, <1>8 DEF StoredInv

LEMMA AlwaysStored == Spec => []StoredInv
  <1>1. Init => StoredInv
    BY StoredAtInit
  <1>2. RowsInv /\ RowsInv' /\ StoredInv /\ [Next]_vars => StoredInv'
    <2> SUFFICES ASSUME RowsInv, RowsInv', StoredInv, [Next]_vars
                 PROVE  StoredInv'
      OBVIOUS
    <2>1. EngineInv /\ EngineInv' /\ MirrorInv
      BY DEF RowsInv
    <2>2. Grows /\ Learns /\ session' = session
      BY <2>1, StepGrows DEF Grows
    <2>3. Stores
      BY <2>2, StepStores
    <2>4. CASE Untouched
      BY <2>1, <2>2, <2>4, UntouchedKeeps
    <2>5. ASSUME NEW rows, NEW lanes, NEW diff, Writes(rows, lanes, diff)
          PROVE  StoredInv'
      BY <2>1, <2>2, <2>5, WriteKeeps
    <2> QED  BY <2>3, <2>4, <2>5 DEF Stores
  <1> QED  BY <1>1, <1>2, AlwaysRows, PTL DEF Spec

(* Whatever callers write, alone or in batches, with values of whatever       *)
(* types, take back by equal rows, or see refused or raise half-way: as long  *)
(* as what was taken fitted its columns, each row a session hands out is one  *)
(* its callers wrote, there once, with the multiplicity they gave it beside   *)
(* the inline facts.                                                        *)
THEOREM WrittenIsRead == Spec => []StoredAsWritten
  <1>1. RowsInv /\ StoredInv => StoredAsWritten
    <2> SUFFICES ASSUME EngineInv, MirrorInv, StoredInv, fitted, Honest, NEW row \in DOMAIN net,
                        NEW way \in Ways
                 PROVE  LET stored == {lanes \in DOMAIN engine.rows :
                                          SameRow(ReadBack(way, lanes), HandedOut(way, row))}
                            fact == Cardinality({i \in DOMAIN session.facts :
                                        SameRow(FactRow(session.facts[i]), row)})
                        IN \E lanes \in stored : stored = {lanes} /\ engine.rows[lanes] = fact + net[row]
      BY DEF RowsInv, StoredAsWritten
    <2> DEFINE stored == {lanes \in DOMAIN engine.rows :
                            SameRow(ReadBack(way, lanes), HandedOut(way, row))}
               equal == {i \in DOMAIN session.facts : SameRow(FactRow(session.facts[i]), row)}
               l == LanesOf(row)
    <2>1. Compatible
      BY HonestPairs
    <2>2. /\ \A r \in DOMAIN net : Readable(r)
          /\ Readable(row) /\ l \in DOMAIN engine.rows
          /\ \A r, s \in DOMAIN net : SameRow(r, s) => net[r] = net[s]
          /\ \A lanes \in DOMAIN engine.rows :
                /\ \/ \E r \in DOMAIN net : lanes = LanesOf(r)
                   \/ \E i \in DOMAIN session.facts : lanes = FactsAt(i)
                /\ engine.rows[lanes] = InFacts(lanes) + InNet(lanes)
      BY <2>1 DEF StoredInv
    <2>3. ASSUME NEW lanes \in DOMAIN engine.rows
          PROVE  SameRow(ReadBack(way, lanes), HandedOut(way, row)) <=> lanes = l
      <3>1. \E r : Storable(r) /\ lanes = LanesOf(r)
        <4>1. CASE \E r \in DOMAIN net : lanes = LanesOf(r)
          BY <2>2, <4>1 DEF Readable
        <4>2. CASE \E i \in DOMAIN session.facts : lanes = FactsAt(i)
          BY <2>1, <4>2, FactHeld
        <4> QED  BY <2>2, <4>1, <4>2
      <3>2. PICK r : Storable(r) /\ lanes = LanesOf(r)
        BY <3>1
      <3> QED  BY <2>1, <2>2, <3>2, ReadRow
    <2>4. stored = {l}
      BY <2>2, <2>3
    <2>5. Cardinality(equal) = InFacts(l)
      <3>1. \A i \in DOMAIN session.facts : SameRow(FactRow(session.facts[i]), row) <=> FactsAt(i) = l
        BY <2>1, <2>2, FactHeld, SameLanes DEF Readable
      <3>2. equal = {i \in DOMAIN session.facts : FactsAt(i) = l}
        BY <3>1
      <3> QED  BY <3>2 DEF InFacts
    <2>6. InNet(l) = net[row]
      <3> DEFINE alike == {r \in DOMAIN net : LanesOf(r) = l}
      <3>1. InNet(l) = IF alike = {} THEN 0 ELSE net[CHOOSE r \in alike : TRUE]
        BY DEF InNet
      <3>2. row \in alike
        OBVIOUS
      <3>3. PICK r \in alike : r = CHOOSE x \in alike : TRUE
        BY <3>2
      <3>4. r \in DOMAIN net /\ LanesOf(r) = l
        BY <3>3
      <3>5. SameRow(r, row)
        BY <2>1, <2>2, <3>4, SameLanes DEF Readable
      <3>6. net[r] = net[row]
        BY <2>2, <3>4, <3>5
      <3> HIDE DEF alike
      <3> QED  BY <3>1, <3>2, <3>3, <3>6
    <2>7. engine.rows[l] = Cardinality(equal) + net[row]
      BY <2>2, <2>5, <2>6
    <2> QED  BY <2>4, <2>7
  <1> QED  BY <1>1, AlwaysRows, AlwaysStored, PTL
================================================================================
