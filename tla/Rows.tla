---------------------------------- MODULE Rows ----------------------------------
(***************************************************************************)
(* What happens to the rows of one relation between a Python caller and the *)
(* engine: EasySession converts a row by the types of its values and its    *)
(* intern table (session.py:261-301, 411-497), Session flattens a batch to  *)
(* int64 or packs it by the relation's column types (session.py:662-896),   *)
(* Program.facts decodes the inline facts (program.py:205-236), and what is *)
(* read back is decoded by type again. Here a call is one step, except      *)
(* insert_with_dedupe, between whose lookups and whose insert other calls   *)
(* run; who holds which lock meanwhile is EasySession and AdvancedSession.  *)
(*                                                                         *)
(* A row is a tuple of values of Lanes. The engine's row is a tuple of      *)
(* lanes: an int64 is the lane with its bits. The engine is external: its   *)
(* relation is a z-set that its calls add to, a batch is taken as a whole   *)
(* or not at all; a symbol keeps its id, and a new one gets an id of its    *)
(* own, whichever; the symbols of the source have theirs from the parser.   *)
(***************************************************************************)
EXTENDS Lanes, SequencesExt

CONSTANTS
    Sessions,  \* the sessions: [class, types, facts, rows, batches]
    SymbolIds, \* the ids the engine may give its symbols
    Seeds,     \* the pairs <<string, id>> callers give remember()
    Refusals,  \* the codes a call of the engine may fail with
    MaxCalls   \* bound on the calls

VARIABLES
    session,   \* the session under way: its class and its relation
    mirror,    \* its InternTable
    engine,    \* [ids: the engine's own symbols, rows: the relation's z-set]
    pending,   \* the insert_with_dedupe under way
    raised,    \* what the last call raised
    calls,     \* how many there were
    \* for the properties: what callers wrote, whether all of it fitted the
    \* columns, the pairs given to remember(), inline facts inserted again
    net, fitted, seeded, doubled

vars == <<session, mirror, engine, pending, raised, calls, net, fitted, seeded, doubled>>
history == <<net, fitted, seeded, doubled>>

--------------------------------------------------------------------------------
Str(s) == Value("str", Core(s, 0))
IsStr(v) == v.kind = "str"
String(v) == v.core.sp
Other == Value("other", Core("finite", 0))
Inputs == Values \cup [kind : {"str"}, core : [sp : STRING, num : {0}]] \cup {Other}

(* The inline facts of a column: what the parser takes for its type. *)
FactValues(type) ==
    CASE type = "BOOL" -> {Whole("bool", i) : i \in {0, 1}}
      [] type = "INT" -> {Whole("int", i) : i \in -Half .. Half - 1}
      [] type = "UINT" -> {Whole("int", i) : i \in Lane}
      [] type = "FLOAT" -> {Value("float", Core("finite", n)) : n \in FloatNums}
IsFactOf(v, type) == IF type = "STRING" THEN v = Str(String(v)) ELSE v \in FactValues(type)

ASSUME RowsAssumption ==
    /\ SymbolIds \subseteq 0 .. Half - 1 /\ Seeds \subseteq STRING \X Int
    /\ \A s \in Sessions :
          /\ s.class \in {"easy", "advanced"} /\ s.types \in Seq(ColumnTypes)
          /\ s.rows \subseteq Seq(Inputs) /\ s.batches \subseteq Seq(Seq(Inputs)) \ {<<>>}
          /\ s.facts \in Seq(Seq(Inputs))
          /\ \A i \in DOMAIN s.facts :
                /\ DOMAIN s.facts[i] = DOMAIN s.types
                /\ \A c \in DOMAIN s.types : IsFactOf(s.facts[i][c], s.types[c])

(* Python's == on tuples. *)
Same(a, b) == IF IsStr(a) \/ IsStr(b) THEN a = b ELSE SameNumber(a, b)
SameRow(r, s) == Len(r) = Len(s) /\ \A c \in DOMAIN r : Same(r[c], s[c])

(* The exception class errors.check raises for a return code. *)
CodeToCls ==
    <<"ParseError", "InvalidIRError", "ExecError", "WirelogMemoryError",
      "WirelogIOError", "CompoundSaturatedError", "CompoundBusyError">>
Check(rc) ==
    IF rc = 0 THEN "none" ELSE IF rc \in DOMAIN CodeToCls THEN CodeToCls[rc] ELSE "WirelogError"

--------------------------------------------------------------------------------
(* The intern table, over the engine's own. *)

(* The engine's ids after it interned strings as well. *)
EngineIntern(ids, strings) ==
    {new \in [DOMAIN ids \cup strings -> SymbolIds] : IsRestriction(ids, new) /\ IsInjective(new)}

Over(f, g) == [x \in DOMAIN f \cup DOMAIN g |-> IF x \in DOMAIN f THEN f[x] ELSE g[x]]
EmptyTable == [forward |-> <<>>, reverse |-> <<>>]
Learn(table, ids) ==
    [forward |-> Over(ids, table.forward), reverse |-> Over(AntiFunction(ids), table.reverse)]
Remember(table, s, id) == Learn(table, [x \in {s} |-> id])
ContainsValue(table, s) == s \in DOMAIN table.forward
ContainsId(table, id) == id \in DOMAIN table.reverse
Unknown(table, strings) == {s \in strings : ~ContainsValue(table, s)}

(* MUTANT of Intern: the id is counted here, not the one wirelog returned. *)
InternCounts(table, ids, strings) ==
    Learn(table, [s \in Unknown(table, strings) |-> Cardinality(DOMAIN table.forward)])

(* intern(s) of each: one not seen is learnt with the id wirelog returned. *)
Intern(table, ids, strings) == Learn(table, Restrict(ids, Unknown(table, strings)))

(* lookup(id), with the id itself for one not seen, as every decoder has it. *)
Lookup(table, id) == IF ContainsId(table, id) THEN Str(table.reverse[id]) ELSE Whole("int", id)

--------------------------------------------------------------------------------
(* EasySession: a value goes by its own type, whatever the column's. *)

EasyKinds == {"bool", "int", "float", "str"}

(* The strings of a row are interned from the left, up to a value that raises. *)
Taken(row) ==
    LET good == {n \in 0 .. Len(row) : \A c \in 1 .. n : row[c].kind \in EasyKinds}
    IN SubSeq(row, 1, CHOOSE n \in good : \A m \in good : m <= n)
StringsOf(row) == {String(v) : v \in {w \in ToSet(row) : IsStr(w)}}
RowError(row) == IF Taken(row) = row THEN "none" ELSE "TypeError"

RowToInt64(row, table) ==
    [c \in DOMAIN row |->
        CASE row[c].kind \in {"bool", "int"} -> Masked(WholePart(row[c].core))
          [] row[c].kind = "float" -> Bits[row[c].core]
          [] row[c].kind = "str" -> Masked(table.forward[String(row[c])])]

(* _decode_row, and the same decoding in Program.facts. *)
DecodeInt64(lanes, table) ==
    [c \in DOMAIN lanes |->
        CASE session.types[c] = "STRING" -> Lookup(table, Signed(lanes[c]))
          [] session.types[c] \in {"BOOL", "FLOAT"} -> DecodeLane(lanes[c], session.types[c])
          [] session.types[c] \in {"INT", "UINT"} -> Whole("int", Signed(lanes[c]))]

(* make_safe_print_delta: what it prints of a value of an event. *)
SafePrint(v) ==
    IF v.kind \in {"int", "bool"}
    THEN IF ContainsId(mirror, WholePart(v.core)) THEN Lookup(mirror, WholePart(v.core))
         ELSE Str("<intern>")
    ELSE v

--------------------------------------------------------------------------------
(* Session: a batch is converted as a whole before any of it is sent. *)

FlattenError(v) ==
    IF v.kind \in {"opaque", "other"} THEN "TypeError"
    ELSE IF v.kind = "str" \/ v.core.sp = "nan" THEN "ValueError"
    ELSE IF v.core.sp \in {"inf", "-inf"} THEN "OverflowError"
    ELSE "none"

(* int(v) drops the fraction. *)
Truncated(core) == IF core.num >= 0 THEN core.num \div Unit ELSE -((-core.num) \div Unit)
Flatten(row) == [c \in DOMAIN row |-> Masked(Truncated(row[c].core))]
BuildTypedRow(row) == [c \in DOMAIN row |-> EncodeLane(row[c], session.types[c])]

(* The first thing that raises, in the order of the loop over the rows. *)
FirstError(errors) ==
    LET bad == {i \in DOMAIN errors : errors[i] # "none"}
    IN IF bad = {} THEN "none" ELSE errors[CHOOSE i \in bad : \A j \in bad : i <= j]
BatchError(batch, width, typed) ==
    FirstError(
        [i \in DOMAIN batch |->
            IF Len(batch[i]) # width THEN "ValueError"
            ELSE FirstError([c \in 1 .. width |->
                    IF typed THEN EncodeError(batch[i][c], session.types[c])
                    ELSE FlattenError(batch[i][c])])])

UntypedError(batch) ==
    IF batch[1] = <<>> THEN "ValueError" ELSE BatchError(batch, Len(batch[1]), FALSE)
TypedError(batch) == BatchError(batch, Len(session.types), TRUE)

(* Columns in place: what the engine hands a typed callback. *)
TypedRow(lanes) ==
    [types |-> session.types, lane_offsets |-> [c \in DOMAIN lanes |-> c], lanes |-> lanes]

--------------------------------------------------------------------------------
(* The engine's part of a call: it adds the rows, or refuses them. *)

(* The typed entry points refuse nan and the infinities and have one zero    *)
(* (session.py:864-869).                                                    *)
Representable(lane, type) ==
    type = "FLOAT" => Unpack(lane).sp \in {"finite", "-0"}
Canonical(lane, type) ==
    IF type = "FLOAT" /\ Unpack(lane).sp = "-0" THEN Bits[Core("finite", 0)] ELSE lane

(* A z-set has a multiplicity for every row it was ever given. *)
Stored(zset, lanes) == IF lanes \in DOMAIN zset THEN zset[lanes] ELSE 0
AddAll(zset, batch, diff) ==
    [lanes \in DOMAIN zset \cup ToSet(batch) |->
        Stored(zset, lanes) + diff * Cardinality({i \in DOMAIN batch : batch[i] = lanes})]

--------------------------------------------------------------------------------
NoCall == [row |-> <<>>, todo |-> <<>>, existing |-> {}, known |-> FALSE]

(* What a column keeps of a value, on each way to it. *)
EasyFits(v, type) ==
    CASE type = "STRING" -> IsStr(v)
      [] type = "FLOAT" -> v.kind = "float" /\ v.core.sp = "finite"
      [] type \in {"BOOL", "INT", "UINT"} ->
           v.kind \in {"bool", "int"} /\ Fits(v, type) /\ Fits(v, "INT")
SessionFits(v, type) == ~IsStr(v) /\ Fits(v, type)
RowFits(row) ==
    /\ DOMAIN row = DOMAIN session.types
    /\ \A c \in DOMAIN row :
        IF session.class = "easy" THEN EasyFits(row[c], session.types[c])
        ELSE SessionFits(row[c], session.types[c])

(* The row of an inline fact: as its session hands it out. *)
FactRow(fact) ==
    [c \in DOMAIN fact |->
        IF IsStr(fact[c]) /\ session.class = "advanced" THEN Whole("int", engine.ids[String(fact[c])])
        ELSE fact[c]]
FactLanes(fact, ids) ==
    [c \in DOMAIN fact |->
        IF IsStr(fact[c]) THEN ids[String(fact[c])] ELSE EncodeLane(fact[c], session.types[c])]

(* What callers wrote of a row: equal rows are one. *)
Written(zset, row) ==
    LET equal == {r \in DOMAIN zset : SameRow(r, row)}
    IN IF equal = {} THEN 0 ELSE zset[CHOOSE r \in equal : TRUE]
WriteAll(zset, rows, diff) ==
    [row \in DOMAIN zset \cup ToSet(rows) |->
        Written(zset, row) + diff * Cardinality({i \in DOMAIN rows : SameRow(rows[i], row)})]
IsFact(row) == \E i \in DOMAIN session.facts : SameRow(FactRow(session.facts[i]), row)

Init ==
    /\ session \in Sessions
    /\ \E ids \in EngineIntern(<<>>, UNION {StringsOf(fact) : fact \in ToSet(session.facts)}) :
          LET lanes == [i \in DOMAIN session.facts |-> FactLanes(session.facts[i], ids)]
          IN engine = [ids |-> ids, rows |-> AddAll(<<>>, lanes, 1)]
    /\ mirror = EmptyTable
    /\ pending = NoCall /\ raised = "none" /\ calls = 0
    /\ net = <<>> /\ fitted = TRUE /\ seeded = {} /\ doubled = {}

(* A call of the engine with the lanes of a batch, by a caller who means rows. *)
(* The typed entry points may say of the batch what is wrong with it, which   *)
(* is raised as one of rejects.                                             *)
Apply(ids, lanes, rows, diff, refused, rejects) ==
    \E rc \in {0} \cup Refusals :
        /\ raised' \in {Check(rc)} \cup (IF rc = 0 THEN {} ELSE rejects)
        /\ rc = 0 => ~refused
        /\ IF rc = 0
           THEN /\ engine' = [ids |-> ids, rows |-> AddAll(engine.rows, lanes, diff)]
                /\ net' = WriteAll(net, rows, diff)
                /\ fitted' = (fitted /\ \A i \in DOMAIN rows : RowFits(rows[i]))
           ELSE engine' = [engine EXCEPT !.ids = ids] /\ UNCHANGED <<net, fitted>>

Raise(error) ==
    raised' = error /\ UNCHANGED <<net, fitted>>

(* The engine refuses a string that is new to it: those before it are kept. *)
InternFails(row) ==
    \E c \in DOMAIN Taken(row) :
        LET strings == StringsOf(SubSeq(row, 1, c - 1)) IN
        /\ IsStr(row[c])
        /\ String(row[c]) \notin strings \cup DOMAIN mirror.forward \cup DOMAIN engine.ids
        /\ \E ids \in EngineIntern(engine.ids, Unknown(mirror, strings)) :
              mirror' = Intern(mirror, ids, strings) /\ engine' = [engine EXCEPT !.ids = ids]
        /\ Raise("WirelogInternError")

(* EasySession.insert and remove, of a row whose strings are all interned. *)
EasySend(row, diff) ==
    LET strings == StringsOf(Taken(row)) IN
    \E ids \in EngineIntern(engine.ids, Unknown(mirror, strings)) :
        /\ mirror' = Intern(mirror, ids, strings)
        /\ IF RowError(row) # "none"
           THEN Raise(RowError(row)) /\ engine' = [engine EXCEPT !.ids = ids]
           ELSE Apply(ids, <<RowToInt64(row, mirror')>>, <<row>>, diff, FALSE, {})

EasyIud(row, diff) == EasySend(row, diff) \/ InternFails(row)

Call(class) == session.class = class /\ calls < MaxCalls /\ calls' = calls + 1 /\ UNCHANGED session

EasyWrite(row, diff) ==
    /\ Call("easy")
    /\ EasyIud(row, diff)
    /\ UNCHANGED <<pending, seeded, doubled>>

(* insert_sym and remove_sym: the engine interns, the mirror follows when it *)
(* has taken the row.                                                        *)
SymWrite(row, diff) ==
    /\ Call("easy") /\ \A c \in DOMAIN row : IsStr(row[c])
    /\ \E ids \in EngineIntern(engine.ids, StringsOf(row)) :
          /\ Apply(ids, <<[c \in DOMAIN row |-> ids[String(row[c])]]>>, <<row>>, diff, FALSE, {})
          /\ mirror' = IF raised' = "none" THEN Intern(mirror, ids, StringsOf(row)) ELSE mirror
    /\ UNCHANGED <<pending, seeded, doubled>>

--------------------------------------------------------------------------------
(* insert_with_dedupe: the inline facts one by one, then the test and insert. *)

(* Its strings are in the table, and its integers come back as they are. *)
Decodable(row) ==
    \A c \in DOMAIN row :
        IF IsStr(row[c]) THEN ContainsValue(mirror, String(row[c])) ELSE EasyFits(row[c], session.types[c])

DedupeBegin(row) ==
    /\ Call("easy") /\ pending = NoCall
    /\ pending' = [row |-> row, todo |-> session.facts, existing |-> {}, known |-> Decodable(row)]
    /\ UNCHANGED <<mirror, engine, raised, history>>

(* MUTANT of DedupePreview: facts(relation), without intern=self._intern. *)
DedupePreviewRaw ==
    /\ pending.todo # <<>>
    /\ pending' = [pending EXCEPT
          !.todo = Tail(@),
          !.existing = @ \cup {DecodeInt64(FactLanes(Head(pending.todo), engine.ids), EmptyTable)}]
    /\ UNCHANGED <<session, mirror, engine, raised, calls, history>>

DedupePreview ==
    /\ pending.todo # <<>>
    /\ pending' = [pending EXCEPT
          !.todo = Tail(@),
          !.existing = @ \cup {DecodeInt64(FactLanes(Head(pending.todo), engine.ids), mirror)}]
    /\ UNCHANGED <<session, mirror, engine, raised, calls, history>>

DedupeEnd ==
    /\ pending # NoCall /\ pending.todo = <<>>
    /\ IF \E row \in pending.existing : SameRow(row, pending.row)
       THEN Raise("none") /\ UNCHANGED <<mirror, engine, doubled>>
       ELSE /\ EasyIud(pending.row, 1)
            /\ doubled' = IF raised' = "none" /\ IsFact(pending.row)
                          THEN doubled \cup {[row |-> pending.row, known |-> pending.known]}
                          ELSE doubled
    /\ pending' = NoCall
    /\ UNCHANGED <<session, calls, seeded>>

--------------------------------------------------------------------------------
(* Session.insert and remove, which the engine refuses beside a FLOAT column. *)
UntypedWrite(batch, diff) ==
    /\ Call("advanced")
    /\ IF UntypedError(batch) # "none" THEN Raise(UntypedError(batch)) /\ UNCHANGED engine
       ELSE LET types == session.types IN
            Apply(engine.ids, [i \in DOMAIN batch |-> Flatten(batch[i])], batch, diff,
                  "FLOAT" \in ToSet(types) \/ Len(batch[1]) # Len(types), {})
    /\ UNCHANGED <<mirror, pending, seeded, doubled>>

(* MUTANT of TypedWrite: rows are sent as they are encoded. *)
TypedWriteByRow(batch, diff) ==
    /\ Call("advanced")
    /\ LET sent == SelectSeq(batch, LAMBDA row : TypedError(<<row>>) = "none")
           lanes == [i \in DOMAIN sent |-> BuildTypedRow(sent[i])]
       IN engine' = [engine EXCEPT !.rows = AddAll(@, lanes, diff)]
    /\ Raise(TypedError(batch))
    /\ UNCHANGED <<mirror, pending, seeded, doubled>>

(* insert_typed and remove_typed. *)
TypedWrite(batch, diff) ==
    /\ Call("advanced")
    /\ IF TypedError(batch) # "none" THEN Raise(TypedError(batch)) /\ UNCHANGED engine
       ELSE LET types == session.types
                rows == [i \in DOMAIN batch |-> BuildTypedRow(batch[i])]
                Kept(row) == [c \in DOMAIN row |-> Canonical(row[c], types[c])]
            IN Apply(engine.ids, [i \in DOMAIN rows |-> Kept(rows[i])], batch, diff,
                     \E i \in DOMAIN rows : \E c \in DOMAIN types : ~Representable(rows[i][c], types[c]),
                     {"TypedRowError"})
    /\ UNCHANGED <<mirror, pending, seeded, doubled>>

(* seed_intern, or remember() on the table of either session. *)
SeedIntern(s, id) ==
    /\ Call(session.class)
    /\ mirror' = Remember(mirror, s, id)
    /\ seeded' = seeded \cup {<<s, id>>}
    /\ raised' = "none"
    /\ UNCHANGED <<engine, pending, net, fitted, doubled>>

(* Every caller has used up its bound of calls. *)
Finished == calls = MaxCalls /\ pending = NoCall /\ UNCHANGED vars

Next ==
    \/ \E row \in session.rows, diff \in {1, -1} : EasyWrite(row, diff) \/ SymWrite(row, diff)
    \/ \E row \in session.rows : DedupeBegin(row)
    \/ DedupePreview
    \/ DedupeEnd
    \/ \E batch \in session.batches, diff \in {1, -1} :
          UntypedWrite(batch, diff) \/ TypedWrite(batch, diff)
    \/ \E pair \in Seeds : SeedIntern(pair[1], pair[2])
    \/ Finished

Spec == Init /\ [][Next]_vars

--------------------------------------------------------------------------------
TypeOK ==
    /\ session \in Sessions
    /\ DOMAIN mirror = {"forward", "reverse"}
    /\ \A lanes \in DOMAIN engine.rows : ToSet(lanes) \subseteq Lane
    /\ pending = NoCall \/ pending.row \in session.rows
    /\ raised \in ToSet(CodeToCls) \cup {"none", "TypeError", "ValueError", "OverflowError", "WirelogError",
                                  "WirelogInternError", "TypedRowError"}
    /\ calls \in 0 .. MaxCalls

(* The pairs given to remember() are pairs of the engine. *)
Honest == \A p \in seeded : p[1] \in DOMAIN engine.ids /\ engine.ids[p[1]] = p[2]

(* The ways a stored row is handed out: EasySession decodes it by the columns, *)
(* Session's step_typed() and snapshot_typed() too; its step(), snapshot() and *)
(* snapshot_arrays() hand out the int64 of each lane, beside a FLOAT column    *)
(* not at all.                                                              *)
Ways ==
    IF session.class = "easy" THEN {"easy"}
    ELSE {"typed"} \cup (IF "FLOAT" \in ToSet(session.types) THEN {} ELSE {"untyped"})
RawRow(lanes) == [c \in DOMAIN lanes |-> Whole("int", Signed(lanes[c]))]
ReadBack(way, lanes) ==
    CASE way = "easy" -> DecodeInt64(lanes, mirror)
      [] way = "typed" -> DecodeTypedRow(TypedRow(lanes))
      [] way = "untyped" -> RawRow(lanes)

(* What a caller is to get for a row: the row; of a way that hands out int64,  *)
(* the int64 with its bits, a negative one for an integer from Half on.       *)
HandedOut(way, row) ==
    IF way = "untyped" THEN [c \in DOMAIN row |-> Whole("int", Signed(Masked(WholePart(row[c].core))))]
    ELSE row

(* Whatever was written, in batches or alone, with whatever types of values, *)
(* taken back by equal rows, refused or raised half-way: as long as every    *)
(* value that was taken fitted its column, the rows a session hands out are  *)
(* those its callers wrote, each with the multiplicity they gave it beside   *)
(* the inline facts, on every way the session has of handing rows out; only  *)
(* int64 makes a UINT from 2^63 on the negative number with its bits, and no *)
(* other row is read as that one (insert and remove, step and snapshot of    *)
(* both sessions, lanes.py).                                                *)
StoredAsWritten ==
    fitted /\ Honest =>
        \A row \in DOMAIN net, way \in Ways :
            LET stored == {lanes \in DOMAIN engine.rows :
                              SameRow(ReadBack(way, lanes), HandedOut(way, row))}
                fact == Cardinality({i \in DOMAIN session.facts : SameRow(FactRow(session.facts[i]), row)})
            IN \E lanes \in stored : stored = {lanes} /\ engine.rows[lanes] = fact + net[row]

(* The intern table agrees with the engine's and with itself, through the    *)
(* calls that intern, those that fail half-way and those of which the engine *)
(* interns the symbols (intern.py:37-70, session.py:479-480, 494).           *)
MirrorSound ==
    Honest =>
        /\ \A s \in DOMAIN mirror.forward :
              /\ s \in DOMAIN engine.ids /\ mirror.forward[s] = engine.ids[s]
              /\ Lookup(mirror, mirror.forward[s]) = Str(s)
        /\ \A id \in DOMAIN mirror.reverse : ContainsValue(mirror, mirror.reverse[id])

(* insert_with_dedupe does not insert an inline fact again whose strings the *)
(* table knew when it was called, whatever other calls do while it looks.    *)
KnownNeverDoubled == Honest => \A d \in doubled : ~d.known

(* A call that raises has stored nothing, no first rows of a batch either.    *)
RaisedWritesNothing == [][raised' # "none" => engine'.rows = engine.rows]_vars

(* zset.md:74-75: insert_with_dedupe of a row that is in the program is False. *)
DedupeSkipsInlineFacts == doubled = {}

(* tests/test_helpers.py:48-49, of make_safe_print_delta: columns of bools   *)
(* and floats print as they are, "no reverse-intern attempted".             *)
OnlyIdsPrintAsStrings ==
    session.class = "easy" =>
        \A lanes \in DOMAIN engine.rows : \A c \in DOMAIN lanes :
            LET read == ReadBack("easy", lanes)[c] IN
            session.types[c] \in {"BOOL", "FLOAT"} => SafePrint(read) = read
================================================================================
