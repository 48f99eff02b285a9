--------------------------- MODULE StdCapture_proofs ---------------------------
(***************************************************************************)
(* Theorems about StdCapture, for every number of threads, captures and    *)
(* chunks, and for pipes of every capacity.  Three arguments: each         *)
(* descriptor above 1 that is open is held by a thread at a label from     *)
(* which it still closes it (NoDescriptorLeft, TypeCorrect); without       *)
(* overlap one thread at a time decides what fd 1 stands for; and what a   *)
(* capture found in stdio, followed by what its call has printed, is then, *)
(* in order, in its buffer, its pipe and stdio.                            *)
(***************************************************************************)
EXTENDS StdCapture, FiniteSetTheorems, SequenceTheorems, TLAPS

(* A nonempty set of naturals has a least element: the initial segments it *)
(* names are finite, and strict inclusion of finite sets is well-founded.  *)
LEMMA LeastNat ==
  ASSUME NEW S \in SUBSET Nat, S # {}
  PROVE  \E n \in S : \A m \in S : n <= m
<1> DEFINE Segments == {0..k : k \in S}
<1>1. Segments \subseteq FiniteSubsetsOf(Nat)
  <2>1. \A k \in S : IsFiniteSet(0..k)
    BY FS_Interval
  <2> QED
    BY <2>1 DEF FiniteSubsetsOf
<1>2. Segments # {}
  OBVIOUS
<1>3. \E x \in Segments : \A y \in Segments : ~(<<y, x>> \in StrictSubsetOrdering(Nat))
  <2> HIDE DEF Segments
  <2> QED
    BY <1>1, <1>2, FS_StrictSubsetOrderingWellFounded, WFMin
<1>4. PICK n \in S : \A m \in S : ~(<<0..m, 0..n>> \in StrictSubsetOrdering(Nat))
  BY <1>3
<1>5. ASSUME NEW m \in S, m < n
      PROVE  FALSE
  <2>1. 0..m \subseteq 0..n /\ n \in 0..n /\ n \notin 0..m
    BY <1>5
  <2>2. 0..m \in SUBSET Nat /\ 0..n \in SUBSET Nat /\ 0..m # 0..n
    BY <2>1
  <2> QED
    BY <1>4, <2>1, <2>2 DEF StrictSubsetOrdering
<1> QED
  BY <1>5

LEMMA LowestIn ==
  ASSUME NEW S \in SUBSET Nat, S # {}
  PROVE  Lowest(S) \in S
BY LeastNat DEF Lowest

-----------------------------------------------------------------------------
(* The labels at which a capture holds each of its three descriptors. *)
HasSaved == {"pipe", "redirect", "close_w", "start", "body", "flush", "restore", "close_saved"}
HasR == {"redirect", "close_w", "start", "body", "flush", "restore", "close_saved", "close_r"}
HasW == {"redirect", "close_w"}

Holds(t, n) ==
  \/ pc[t] \in HasSaved /\ n = frame[t].saved
  \/ pc[t] \in HasR /\ n = frame[t].r
  \/ pc[t] \in HasW /\ n = frame[t].w

FrameType == [n : 0..MaxCaptures, saved : Fds, r : Fds, w : Fds]
DrainType == [at : {"none", "ready", "reading", "done"}, r : Fds, from : Files]

Numbered == \A t \in Threads : ~At(t, "idle") => frame[t].n \in 1..MaxCaptures
Held == \A n \in Fds \ {1} : fd[n] # Nothing => \E t \in Threads : Holds(t, n)

TypeInv == TypeOK /\ Numbered /\ Held

LEMMA FdsNat == Cardinality(Threads) \in Nat /\ Fds \subseteq Nat /\ 1 \in Fds
BY FS_CardinalityType, ConstantsAssumption DEF Fds

(* A capture holds no descriptor before its dup and one before its pipe:   *)
(* the table, of three numbers per thread beside 1, has room for both.     *)
LEMMA Room ==
  ASSUME TypeOK, Held, NEW t \in Threads, pc[t] \in {"dup", "pipe"}
  PROVE  \E m, n \in Free : m # n
<1> DEFINE Used == {n \in Fds \ {1} : fd[n] # Nothing}
           AllSlots == Threads \X (1..3)
           Slots == (AllSlots \ {<<t, 2>>}) \ {<<t, 3>>}
           Fd(s) == CASE s[2] = 1 -> frame[s[1]].saved
                      [] s[2] = 2 -> frame[s[1]].r
                      [] s[2] = 3 -> frame[s[1]].w
           f == [s \in Slots |-> Fd(s)]
           Image == {f[s] : s \in Slots}
<1>1. IsFiniteSet(AllSlots) /\ Cardinality(AllSlots) = 3 * Cardinality(Threads)
  <2>1. IsFiniteSet(1..3) /\ Cardinality(1..3) = 3
    <3>1. 1 \in Int /\ 3 \in Int /\ ~(1 > 3) /\ 3 - 1 + 1 = 3
      OBVIOUS
    <3> QED
      BY <3>1, FS_Interval
  <2>2. Cardinality(Threads) * 3 = 3 * Cardinality(Threads)
    BY FdsNat
  <2> QED
    BY <2>1, <2>2, FS_Product, ConstantsAssumption
<1>2. IsFiniteSet(Slots) /\ Cardinality(Slots) = 3 * Cardinality(Threads) - 2
  <2> DEFINE Rest == AllSlots \ {<<t, 2>>}
  <2>1. <<t, 2>> \in AllSlots /\ <<t, 3>> \in Rest
    OBVIOUS
  <2> HIDE DEF AllSlots
  <2>2. IsFiniteSet(Rest) /\ Cardinality(Rest) = Cardinality(AllSlots) - 1
    BY <1>1, <2>1, FS_RemoveElement
  <2> HIDE DEF Rest
  <2>3. IsFiniteSet(Rest \ {<<t, 3>>}) /\ Cardinality(Rest \ {<<t, 3>>}) = Cardinality(Rest) - 1
    BY <2>1, <2>2, FS_RemoveElement
  <2> QED
    BY <1>1, <2>2, <2>3, FdsNat DEF Rest
<1>3. IsFiniteSet(Image) /\ Cardinality(Image) <= Cardinality(Slots)
  <2> HIDE DEF Slots
  <2>1. f \in Surjection(Slots, Image)
    BY DEF Surjection
  <2> HIDE DEF f, Image
  <2> QED
    BY <1>2, <2>1, FS_Surjection
<1>4. Used \subseteq Image
  <2>1. ASSUME NEW n \in Used
        PROVE  n \in Image
    <3>1. PICK u \in Threads : Holds(u, n)
      BY DEF Held
    <3>2. \E s \in Slots : Fd(s) = n
      <4>1. CASE pc[u] \in HasSaved /\ n = frame[u].saved
        <5>1. <<u, 1>> \in Slots /\ Fd(<<u, 1>>) = n
          BY <4>1
        <5> QED
          BY <5>1
      <4>2. CASE pc[u] \in HasR /\ n = frame[u].r
        <5>1. <<u, 2>> \in Slots /\ Fd(<<u, 2>>) = n
          BY <4>2 DEF HasR
        <5> QED
          BY <5>1
      <4>3. CASE pc[u] \in HasW /\ n = frame[u].w
        <5>1. <<u, 3>> \in Slots /\ Fd(<<u, 3>>) = n
          BY <4>3 DEF HasW
        <5> QED
          BY <5>1
      <4> QED
        BY <3>1, <4>1, <4>2, <4>3 DEF Holds
    <3> QED
      BY <3>2
  <2> QED
    BY <2>1
<1>5. IsFiniteSet(Used) /\ Cardinality(Used) <= 3 * Cardinality(Threads) - 2
  <2> HIDE DEF Used, Image, Slots
  <2>1. IsFiniteSet(Used) /\ Cardinality(Used) <= Cardinality(Image)
    BY <1>3, <1>4, FS_Subset
  <2>2. Cardinality(Used) \in Nat /\ Cardinality(Image) \in Nat /\ Cardinality(Slots) \in Nat
    BY <1>2, <1>3, <2>1, FS_CardinalityType
  <2> QED
    BY <1>2, <1>3, <2>1, <2>2, FdsNat
<1> DEFINE Above == Fds \ {1}
           Empty == Above \ Used
<1>6. IsFiniteSet(Empty) /\ Cardinality(Empty) >= 2
  <2>1. IsFiniteSet(Fds) /\ Cardinality(Fds) = 1 + 3 * Cardinality(Threads)
    BY FS_Interval, FdsNat DEF Fds
  <2>2. IsFiniteSet(Above) /\ Cardinality(Above) = 3 * Cardinality(Threads)
    BY <2>1, FS_RemoveElement, FdsNat
  <2>3. Above \cap Used = Used
    OBVIOUS
  <2> HIDE DEF Used, Above
  <2>4. IsFiniteSet(Empty) /\ Cardinality(Empty) = Cardinality(Above) - Cardinality(Used)
    BY <2>2, <2>3, FS_Difference
  <2> QED
    <3>1. Cardinality(Used) \in Nat
      BY <1>5, FS_CardinalityType
    <3> QED
      BY <1>5, <2>2, <2>4, <3>1, FdsNat
<1>7. Empty \subseteq Free
  BY DEF Free
<1> HIDE DEF Empty
<1>8. PICK m \in Empty : TRUE
  BY <1>6, FS_EmptySet
<1>9. IsFiniteSet(Empty \ {m}) /\ Cardinality(Empty \ {m}) >= 1
  <2>1. Cardinality(Empty) \in Nat
    BY <1>6, FS_CardinalityType
  <2>2. IsFiniteSet(Empty \ {m}) /\ Cardinality(Empty \ {m}) = Cardinality(Empty) - 1
    BY <1>6, <1>8, FS_RemoveElement
  <2> QED
    BY <1>6, <2>1, <2>2
<1>10. PICK n \in Empty \ {m} : TRUE
  BY <1>9, FS_EmptySet
<1> QED
  BY <1>7, <1>8, <1>10

-----------------------------------------------------------------------------
LEMMA Types ==
  ASSUME TypeInv, NEW t \in Threads
  PROVE  /\ frame[t] \in FrameType /\ pc[t] \in Labels
         /\ ~At(t, "idle") => Me(t) \in Captures
         /\ Outside(t) \notin Captures /\ Captures \cup {Outside(t)} \subseteq Sources
BY DEF TypeInv, TypeOK, Numbered, FrameType, Me, Captures, Sources, Outside

(* A step that leaves the table alone takes no descriptor from its thread. *)
LEMMA SameTable ==
  ASSUME Held, UNCHANGED fd, \A u \in Threads : \A n \in Fds : Holds(u, n) => Holds(u, n)'
  PROVE  Held'
BY DEF Held

LEMMA DupTyped ==
  ASSUME TypeInv, NEW t \in Threads, Dup(t)
  PROVE  TypeInv'
<1>1. Lowest(Free) \in Fds
  BY Room, FdsNat, LowestIn DEF Dup, At, TypeInv, Free
<1>2. frame' \in [Threads -> FrameType] /\ pc' \in [Threads -> Labels] /\ Numbered'
  BY <1>1 DEF Dup, Goto, At, TypeInv, TypeOK, Numbered, FrameType, Labels
<1>3. fd' \in [Fds -> Files]
  BY <1>1, FdsNat DEF Dup, TypeInv, TypeOK
<1>4. ASSUME NEW n \in Fds \ {1}, fd'[n] # Nothing
      PROVE  \E u \in Threads : Holds(u, n)'
  <2>1. CASE n = Lowest(Free)
    <3>1. Holds(t, n)'
      BY <2>1 DEF Dup, Goto, Holds, HasSaved, TypeInv, TypeOK
    <3> QED
      BY <3>1
  <2>2. CASE n # Lowest(Free)
    <3>1. PICK u \in Threads : Holds(u, n)
      BY <1>4, <2>2 DEF Dup, Held, TypeInv, TypeOK
    <3>2. u # t
      BY <3>1 DEF Dup, At, Holds, HasSaved, HasR, HasW
    <3>3. Holds(u, n)'
      BY <3>1, <3>2 DEF Dup, Goto, Holds, TypeInv, TypeOK
    <3> QED
      BY <3>3
  <2> QED
    BY <2>1, <2>2
<1> QED
  BY <1>2, <1>3, <1>4 DEF Dup, external, TypeInv, TypeOK, Held, FrameType

(* The two descriptors of a pipe are different. *)
LEMMA PipeFds ==
  ASSUME TypeInv, NEW t \in Threads, Pipe(t)
  PROVE  LET r == Lowest(Free)  w == Lowest(Free \ {r}) IN
         /\ r \in Free /\ w \in Free \ {r}
         /\ r \in Fds /\ w \in Fds /\ w # r
         /\ frame' = [frame EXCEPT ![t].r = r, ![t].w = w]
         /\ fd' = [fd EXCEPT ![r] = ReadEnd(Me(t)), ![w] = WriteEnd(Me(t))]
<1> DEFINE r == Lowest(Free)  w == Lowest(Free \ {r})
<1>1. \E m, n \in Free : m # n
  BY Room DEF Pipe, At, TypeInv
<1>2. Free \subseteq Fds /\ Free \in SUBSET Nat
  BY FdsNat DEF Free
<1>3. r \in Free
  BY <1>1, <1>2, LowestIn
<1>4. Free \ {r} \in SUBSET Nat /\ Free \ {r} # {}
  <2> HIDE DEF r
  <2>1. Free \ {r} # {}
    BY <1>1
  <2> QED
    BY <1>2, <2>1
<1>5. w \in Free \ {r}
  <2> HIDE DEF r
  <2> QED
    BY <1>4, LowestIn
<1>6. /\ frame' = [frame EXCEPT ![t].r = r, ![t].w = w]
      /\ fd' = [fd EXCEPT ![r] = ReadEnd(Me(t)), ![w] = WriteEnd(Me(t))]
  BY DEF Pipe
<1>7. r \in Fds /\ w \in Fds /\ w # r
  <2> HIDE DEF r, w
  <2> QED
    BY <1>2, <1>3, <1>5
<1> QED
  BY <1>3, <1>5, <1>6, <1>7

LEMMA PipeTyped ==
  ASSUME TypeInv, NEW t \in Threads, Pipe(t)
  PROVE  TypeInv'
<1>1. PICK r \in Fds, w \in Fds :
        /\ w # r
        /\ frame' = [frame EXCEPT ![t].r = r, ![t].w = w]
        /\ fd' = [fd EXCEPT ![r] = ReadEnd(Me(t)), ![w] = WriteEnd(Me(t))]
  BY PipeFds
<1>2. Me(t) \in Captures
  BY Types DEF Pipe, At
<1>3. pc' = [pc EXCEPT ![t] = "redirect"] /\ pc[t] = "pipe"
  BY DEF Pipe, Goto, At
<1>4. frame' \in [Threads -> FrameType] /\ pc' \in [Threads -> Labels] /\ Numbered'
  BY <1>1, <1>3 DEF At, TypeInv, TypeOK, Numbered, FrameType, Labels
<1>5. fd' \in [Fds -> Files]
  BY <1>1, <1>2 DEF TypeInv, TypeOK, Files
<1>6. ASSUME NEW n \in Fds \ {1}, fd'[n] # Nothing
      PROVE  \E u \in Threads : Holds(u, n)'
  <2>1. CASE n \in {r, w}
    <3>1. Holds(t, n)'
      BY <1>1, <1>3, <2>1 DEF Holds, HasR, HasW, TypeInv, TypeOK
    <3> QED
      BY <3>1
  <2>2. CASE n \notin {r, w}
    <3>1. PICK u \in Threads : Holds(u, n)
      BY <1>1, <1>6, <2>2 DEF Held, TypeInv, TypeOK
    <3>2. Holds(u, n)'
      BY <1>1, <1>3, <3>1 DEF Holds, HasSaved, HasR, HasW, TypeInv, TypeOK
    <3> QED
      BY <3>2
  <2> QED
    BY <2>1, <2>2
<1> QED
  BY <1>4, <1>5, <1>6 DEF Pipe, external, TypeInv, TypeOK, Held, FrameType

(* dup2 onto 1: by Redirect from w, by Restore from saved. *)
LEMMA DupOntoOneTyped ==
  ASSUME TypeInv, NEW t \in Threads, Redirect(t) \/ Restore(t)
  PROVE  TypeInv'
<1>1. /\ UNCHANGED <<frame, pipe, stdio, console, overlapped, printed, buf, drain>>
      /\ \/ pc[t] = "redirect" /\ pc' = [pc EXCEPT ![t] = "close_w"]
         \/ pc[t] = "restore" /\ pc' = [pc EXCEPT ![t] = "close_saved"]
  BY DEF Redirect, Restore, At, Goto, external
<1>2. PICK m \in Fds : fd' = [fd EXCEPT ![1] = fd[m]]
  BY Types DEF Redirect, Restore, FrameType
<1>3. fd' \in [Fds -> Files]
  BY <1>2, FdsNat DEF TypeInv, TypeOK
<1>4. pc' \in [Threads -> Labels] /\ Numbered'
  BY <1>1 DEF At, TypeInv, TypeOK, Numbered, Labels
<1>5. ASSUME NEW n \in Fds \ {1}, fd'[n] # Nothing
      PROVE  \E u \in Threads : Holds(u, n)'
  <2>1. PICK u \in Threads : Holds(u, n)
    BY <1>2, <1>5 DEF Held, TypeInv, TypeOK
  <2>2. Holds(u, n)'
    BY <1>1, <2>1 DEF Holds, HasSaved, HasR, HasW, TypeInv, TypeOK
  <2> QED
    BY <2>2
<1>6. left' \in [Captures -> Seq(Chunks)]
  BY DEF Redirect, Restore, external, TypeInv, TypeOK
<1> QED
  BY <1>1, <1>3, <1>4, <1>5, <1>6 DEF TypeInv, TypeOK, Held

LEMMA CloseTyped ==
  ASSUME TypeInv, NEW t \in Threads, CloseW(t) \/ CloseSaved(t) \/ CloseR(t)
  PROVE  TypeInv'
<1>1. PICK m \in Fds :
        /\ fd' = [fd EXCEPT ![m] = Nothing] /\ UNCHANGED <<external, frame>>
        /\ \/ pc[t] = "close_w" /\ pc' = [pc EXCEPT ![t] = "start"] /\ m = frame[t].w
           \/ pc[t] = "close_saved" /\ pc' = [pc EXCEPT ![t] = "close_r"] /\ m = frame[t].saved
           \/ pc[t] = "close_r" /\ pc' = [pc EXCEPT ![t] = "join"] /\ m = frame[t].r
  BY Types DEF CloseW, CloseSaved, CloseR, Close, At, Goto, FrameType
<1>2. fd' \in [Fds -> Files]
  BY <1>1 DEF TypeInv, TypeOK, Files
<1>3. pc' \in [Threads -> Labels] /\ Numbered'
  BY <1>1 DEF At, TypeInv, TypeOK, Numbered, Labels
<1>4. ASSUME NEW n \in Fds \ {1}, fd'[n] # Nothing
      PROVE  \E u \in Threads : Holds(u, n)'
  <2>1. PICK u \in Threads : Holds(u, n)
    BY <1>1, <1>4 DEF Held, TypeInv, TypeOK
  <2>2. n # m
    BY <1>1, <1>4 DEF TypeInv, TypeOK
  <2>3. Holds(u, n)'
    BY <1>1, <2>1, <2>2 DEF Holds, HasSaved, HasR, HasW, TypeInv, TypeOK
  <2> QED
    BY <2>3
<1> QED
  BY <1>1, <1>2, <1>3, <1>4 DEF external, TypeInv, TypeOK, Held

LEMMA BeginTyped ==
  ASSUME TypeInv, NEW t \in Threads, Begin(t)
  PROVE  TypeInv'
<1>1. /\ frame[t].n + 1 \in 1..MaxCaptures /\ pc[t] = "idle"
      /\ frame' = [frame EXCEPT ![t].n = frame[t].n + 1] /\ pc' = [pc EXCEPT ![t] = "dup"]
  <2>1. frame[t].n \in 0..MaxCaptures /\ frame[t].n < MaxCaptures
    BY Types DEF Begin, FrameType
  <2>2. frame[t].n + 1 \in 1..MaxCaptures
    BY <2>1, ConstantsAssumption
  <2> QED
    BY <2>2 DEF Begin, Goto, At
<1>2. frame' \in [Threads -> FrameType] /\ pc' \in [Threads -> Labels] /\ Numbered'
  <2>1. frame \in [Threads -> FrameType]
    BY DEF TypeInv, TypeOK, FrameType
  <2>2. frame' \in [Threads -> FrameType] /\ frame'[t].n \in 1..MaxCaptures
    BY <1>1, <2>1, ConstantsAssumption DEF FrameType
  <2>3. \A u \in Threads \ {t} : frame'[u] = frame[u] /\ pc'[u] = pc[u]
    BY <1>1 DEF TypeInv, TypeOK
  <2> QED
    BY <1>1, <2>2, <2>3 DEF At, TypeInv, TypeOK, Numbered, Labels
<1>3. \A u \in Threads : \A n \in Fds : Holds(u, n) => Holds(u, n)'
  BY <1>1 DEF Holds, HasSaved, HasR, HasW, TypeInv, TypeOK
<1>4. Held'
  BY <1>3, SameTable DEF Begin, TypeInv
<1> QED
  BY <1>2, <1>4 DEF Begin, TypeInv, TypeOK, FrameType

(* A thread that goes on without touching the table. *)
LEMMA GoesOn ==
  ASSUME TypeInv, NEW t \in Threads, Start(t) \/ BodyReturns(t) \/ Flush(t) \/ Join(t)
  PROVE  /\ UNCHANGED <<fd, frame>> /\ pc' \in [Threads -> Labels] /\ Numbered' /\ Held'
<1>1. /\ UNCHANGED <<fd, frame>>
      /\ \/ pc[t] = "start" /\ pc' = [pc EXCEPT ![t] = "body"]
         \/ pc[t] = "body" /\ pc' = [pc EXCEPT ![t] = "flush"]
         \/ pc[t] = "flush" /\ pc' = [pc EXCEPT ![t] = "restore"]
         \/ pc[t] = "join" /\ pc' = [pc EXCEPT ![t] = "idle"]
  BY DEF Start, BodyReturns, Flush, Join, At, Goto
<1>2. pc' \in [Threads -> Labels] /\ Numbered'
  BY <1>1 DEF At, TypeInv, TypeOK, Numbered, Labels
<1>3. \A u \in Threads : \A n \in Fds : Holds(u, n) => Holds(u, n)'
  BY <1>1 DEF Holds, HasSaved, HasR, HasW, TypeInv, TypeOK
<1> QED
  BY <1>1, <1>2, <1>3, SameTable DEF TypeInv

LEMMA GoesOnTyped ==
  ASSUME TypeInv, NEW t \in Threads, Start(t) \/ BodyReturns(t) \/ Flush(t) \/ Join(t)
  PROVE  TypeInv'
<1>1. CASE Start(t)
  <2>1. frame[t].r \in Fds /\ frame' = frame
    BY <1>1, Types DEF Start, FrameType
  <2>2. drain' \in [Captures -> DrainType]
    BY <1>1, <2>1 DEF Start, TypeInv, TypeOK, DrainType
  <2> QED
    BY <1>1, <2>2, GoesOn DEF Start, TypeInv, TypeOK, DrainType
<1>2. CASE ~Start(t)
  BY <1>2, GoesOn DEF BodyReturns, Flush, Join, external, TypeInv, TypeOK
<1> QED
  BY <1>1, <1>2

(* The captured call, stdio and the drain threads move chunks and labels   *)
(* of drain threads, and nothing else.                                     *)
LEMMA StillHeld ==
  ASSUME Held, Numbered, UNCHANGED <<fd, pc, frame>>
  PROVE  Held' /\ Numbered'
BY DEF Held, Numbered, Holds, At

LEMMA PrintfTyped ==
  ASSUME TypeInv, NEW s \in Sources, Printf(s)
  PROVE  printed' \in [Sources -> Seq(Chunks)] /\ stdio' \in Seq(Chunks)
<1> DEFINE x == <<s, Len(printed[s]) + 1>>
<1>1. /\ x \in Chunks /\ printed' = [printed EXCEPT ![s] = Append(printed[s], x)]
      /\ stdio' = Append(stdio, x)
  BY DEF Printf
<1> HIDE DEF x
<1>2. printed[s] \in Seq(Chunks) /\ stdio \in Seq(Chunks)
  BY DEF TypeInv, TypeOK
<1>3. Append(printed[s], x) \in Seq(Chunks) /\ Append(stdio, x) \in Seq(Chunks)
  BY <1>1, <1>2, AppendProperties
<1> QED
  BY <1>1, <1>3 DEF TypeInv, TypeOK

LEMMA EmitTyped ==
  ASSUME TypeInv, NEW t \in Threads, Emit(t) \/ PrintOutside(t)
  PROVE  TypeInv'
<1>1. PICK s \in Sources : Printf(s)
  BY Types DEF Emit, PrintOutside, At
<1>2. printed' \in [Sources -> Seq(Chunks)] /\ stdio' \in Seq(Chunks)
  BY <1>1, PrintfTyped
<1>3. overlapped' \in BOOLEAN
  BY DEF Emit, PrintOutside, Capturing, At, TypeInv, TypeOK
<1> QED
  BY <1>1, <1>2, <1>3, StillHeld DEF Printf, TypeInv, TypeOK

LEMMA WriteTyped ==
  ASSUME TypeInv, NEW t \in Threads, Write(t) \/ WriteOutside(t)
  PROVE  TypeInv'
<1>1. WriteOut /\ stdio \in Seq(Chunks) /\ stdio # <<>>
  BY DEF Write, WriteOutside, WriteOut, TypeInv, TypeOK
<1>2. Head(stdio) \in Chunks /\ Tail(stdio) \in Seq(Chunks)
  BY <1>1, HeadTailProperties
<1>3. console' \subseteq Chunks
  BY <1>1, <1>2 DEF WriteOut, TypeInv, TypeOK
<1>4. pipe' \in [Captures -> Seq(Chunks)] /\ \A c \in Captures : Len(pipe'[c]) <= Capacity
  <2>1. CASE UNCHANGED pipe
    BY <2>1 DEF TypeInv, TypeOK
  <2>2. CASE \E c \in Captures :
               /\ Len(pipe[c]) < Capacity
               /\ pipe' = [pipe EXCEPT ![c] = Append(@, Head(stdio))]
    <3>1. PICK c \in Captures :
            /\ Len(pipe[c]) < Capacity
            /\ pipe' = [pipe EXCEPT ![c] = Append(@, Head(stdio))]
      BY <2>2
    <3>2. pipe[c] \in Seq(Chunks) /\ Len(pipe[c]) \in Nat
      BY LenProperties DEF TypeInv, TypeOK
    <3>3. /\ Append(pipe[c], Head(stdio)) \in Seq(Chunks)
          /\ Len(Append(pipe[c], Head(stdio))) = Len(pipe[c]) + 1
      BY <1>2, <3>2, AppendProperties
    <3>4. Len(Append(pipe[c], Head(stdio))) <= Capacity
      BY <3>1, <3>2, <3>3, ConstantsAssumption
    <3> QED
      BY <3>1, <3>3, <3>4 DEF TypeInv, TypeOK
  <2> QED
    BY <1>1, <2>1, <2>2 DEF WriteOut
<1>5. overlapped' \in BOOLEAN
  BY DEF Write, WriteOutside, Capturing, At, TypeInv, TypeOK
<1> QED
  BY <1>1, <1>2, <1>3, <1>4, <1>5, StillHeld DEF WriteOut, TypeInv, TypeOK

LEMMA DrainTyped ==
  ASSUME TypeInv, NEW c \in Captures, Drain(c)
  PROVE  TypeInv'
<1> USE DEF TypeInv
<1>1. UNCHANGED <<fd, stdio, console, overlapped, printed, left, pc, frame>>
  BY DEF Drain, ReadCall, ReadChunk, ReadEof, Stop
<1>2. drain' \in [Captures -> DrainType]
  <2>1. drain \in [Captures -> DrainType] /\ fd[drain[c].r] \in Files
    BY DEF TypeOK, DrainType
  <2>2. CASE ReadCall(c)
    <3>1. \/ drain' = [drain EXCEPT ![c].at = "reading", ![c].from = fd[drain[c].r]]
          \/ drain' = [drain EXCEPT ![c].at = "done"]
      BY <2>2 DEF ReadCall, Stop
    <3> QED
      BY <2>1, <3>1 DEF DrainType
  <2>3. CASE ReadChunk(c)
    BY <2>1, <2>3 DEF ReadChunk, DrainType
  <2>4. CASE ReadEof(c)
    BY <2>1, <2>4 DEF ReadEof, Stop, DrainType
  <2> QED
    BY <2>2, <2>3, <2>4 DEF Drain
<1>3. /\ pipe' \in [Captures -> Seq(Chunks)] /\ \A p \in Captures : Len(pipe'[p]) <= Capacity
      /\ buf' \in [Captures -> Seq(Chunks)]
  <2>1. CASE ReadChunk(c)
    <3>1. PICK p \in Captures :
            /\ pipe[p] # <<>> /\ pipe' = [pipe EXCEPT ![p] = Tail(@)]
            /\ buf' = [buf EXCEPT ![c] = Append(@, Head(pipe[p]))]
      BY <2>1 DEF ReadChunk
    <3>2. pipe[p] \in Seq(Chunks) /\ Len(pipe[p]) \in Nat /\ buf[c] \in Seq(Chunks)
      BY LenProperties DEF TypeOK
    <3>3. /\ Head(pipe[p]) \in Chunks /\ Tail(pipe[p]) \in Seq(Chunks)
          /\ Len(Tail(pipe[p])) = Len(pipe[p]) - 1
      BY <3>1, <3>2, HeadTailProperties
    <3>4. Append(buf[c], Head(pipe[p])) \in Seq(Chunks)
      BY <3>2, <3>3, AppendProperties
    <3>5. Len(Tail(pipe[p])) <= Capacity
      BY <3>2, <3>3, ConstantsAssumption DEF TypeOK
    <3> QED
      BY <3>1, <3>3, <3>4, <3>5 DEF TypeOK
  <2>2. CASE UNCHANGED <<pipe, buf>>
    BY <2>2 DEF TypeOK
  <2> QED
    BY <2>1, <2>2 DEF Drain, ReadCall, ReadEof, Stop
<1> QED
  BY <1>1, <1>2, <1>3, StillHeld DEF TypeOK, DrainType

LEMMA NextTyped == TypeInv /\ [Next]_vars => TypeInv'
<1> SUFFICES ASSUME TypeInv, [Next]_vars
             PROVE  TypeInv'
  OBVIOUS
<1>1. ASSUME NEW t \in Threads, Run(t)
      PROVE  TypeInv'
  BY <1>1, DupTyped, PipeTyped, DupOntoOneTyped, CloseTyped, GoesOnTyped, WriteTyped DEF Run
<1>2. CASE UNCHANGED vars
  BY <1>2, StillHeld DEF vars, TypeInv, TypeOK
<1>3. ASSUME NEW t \in Threads, Emit(t) \/ PrintOutside(t) \/ WriteOutside(t)
      PROVE  TypeInv'
  BY <1>3, EmitTyped, WriteTyped
<1>4. ASSUME NEW c \in Captures, Drain(c)
      PROVE  TypeInv'
  BY <1>4, DrainTyped
<1>5. ASSUME NEW t \in Threads, Begin(t)
      PROVE  TypeInv'
  BY <1>5, BeginTyped
<1> QED
  BY <1>1, <1>2, <1>3, <1>4, <1>5 DEF Next, Finished

LEMMA AlwaysTyped == Spec => []TypeInv
<1>1. Init => TypeInv
  <2>1. \A S : <<>> \in Seq(S) /\ Len(<<>>) = 0
    BY EmptySeq
  <2>2. Init => TypeOK
    <3> SUFFICES ASSUME Init
                 PROVE  TypeOK
      OBVIOUS
    <3>1. fd \in [Fds -> Files] /\ drain \in [Captures -> DrainType]
      BY FdsNat DEF Init, Files, DrainType
    <3>2. pc \in [Threads -> Labels] /\ frame \in [Threads -> FrameType]
      BY FdsNat, ConstantsAssumption DEF Init, Labels, FrameType
    <3>3. /\ pipe \in [Captures -> Seq(Chunks)] /\ \A c \in Captures : Len(pipe[c]) <= Capacity
          /\ printed \in [Sources -> Seq(Chunks)] /\ left \in [Captures -> Seq(Chunks)]
          /\ buf \in [Captures -> Seq(Chunks)]
          /\ stdio \in Seq(Chunks)
      BY <2>1, ConstantsAssumption DEF Init
    <3> QED
      BY <3>1, <3>2, <3>3 DEF Init, TypeOK, DrainType, FrameType
  <2>3. Init => Numbered /\ Held
    BY DEF Init, Numbered, Held, At
  <2> QED
    BY <2>2, <2>3 DEF TypeInv
<1> QED
  BY <1>1, NextTyped, PTL DEF Spec

(* Type correctness: the table never runs short of numbers, and the pipes  *)
(* hold no more than their capacity.                                       *)
THEOREM TypeCorrect == Spec => []TypeOK
BY AlwaysTyped, PTL DEF TypeInv

(* tests/test_stdcapture.py, test_no_fd_leak_after_capture: between        *)
(* captures, however they overlapped, no descriptor is left open.          *)
THEOREM NothingLeaks == Spec => []NoDescriptorLeft
<1>1. TypeInv => NoDescriptorLeft
  BY DEF TypeInv, Held, Holds, HasSaved, HasR, HasW, NoDescriptorLeft, AllIdle, At
<1> QED
  BY <1>1, AlwaysTyped, PTL

-----------------------------------------------------------------------------
(* Captures that never overlap.  One thread at a time is inside a capture; *)
(* what its descriptors stand for follows from its label.                  *)
OnPipe == {"close_w", "start", "body", "flush", "restore"}

OneAtATime == \A t, u \in Threads : ~At(t, "idle") /\ ~At(u, "idle") => t = u

OwnDescriptors(t) ==
  /\ fd[1] = IF pc[t] \in OnPipe THEN WriteEnd(Me(t)) ELSE Stdout
  /\ pc[t] \in HasSaved => frame[t].saved # 1 /\ fd[frame[t].saved] = Stdout
  /\ pc[t] \in HasR => frame[t].r # 1 /\ fd[frame[t].r] = ReadEnd(Me(t))
  /\ pc[t] \in HasW => frame[t].w # 1 /\ fd[frame[t].w] = WriteEnd(Me(t))

Table ==
  /\ AllIdle => fd[1] = Stdout
  /\ \A t \in Threads : ~At(t, "idle") => OwnDescriptors(t)

(* A drain thread that still reads is that of the capture in progress, and *)
(* reads from its pipe.                                                    *)
Draining == {"body", "flush", "restore", "close_saved", "close_r", "join"}

Drains ==
  \A c \in Captures : drain[c].at \in {"ready", "reading"} =>
    /\ drain[c].r # 1
    /\ drain[c].at = "reading" => drain[c].from = ReadEnd(c)
    /\ \E t \in Threads : pc[t] \in Draining /\ c = Me(t) /\ drain[c].r = frame[t].r

(* What a capture found in stdio and what its call has printed since is in *)
(* its buffer, in its pipe and, as long as it may still be written, in     *)
(* stdio: in this order, nothing lost.  Before and after, stdio has only   *)
(* what was printed outside captures.                                      *)
Redirected(t) == pc[t] \in {"close_w", "start", "body", "flush"}
Pending(c) == IF \E t \in Threads : Redirected(t) /\ c = Me(t) THEN stdio ELSE <<>>

OutsideOnly(seq) == \A i \in DOMAIN seq : seq[i][1] \notin Captures

(* A capture that has not redirected fd 1 yet. *)
Fresh(c) ==
  \/ frame[c[1]].n < c[2]
  \/ frame[c[1]].n = c[2] /\ pc[c[1]] \in {"dup", "pipe", "redirect"}

Prints ==
  /\ \A c \in Captures : left[c] \o printed[c] = (buf[c] \o pipe[c]) \o Pending(c)
  /\ (\A t \in Threads : ~Redirected(t)) => OutsideOnly(stdio)
  /\ \A c \in Captures : OutsideOnly(left[c])
  /\ \A c \in Captures : Fresh(c) =>
       left[c] = <<>> /\ printed[c] = <<>> /\ buf[c] = <<>> /\ pipe[c] = <<>>
  /\ \A chunk \in console : chunk[1] \notin Captures

Solo == OneAtATime /\ Table /\ Drains /\ Prints
SoloInv == ~overlapped => Solo

LEMMA FilesDiffer ==
  /\ Stdout # Nothing
  /\ \A c : ReadEnd(c) \notin {Stdout, Nothing} /\ WriteEnd(c) \notin {Stdout, Nothing}
  /\ \A c, d : ReadEnd(c) # WriteEnd(d)
  /\ \A c, d : ReadEnd(c) = ReadEnd(d) => c = d
  /\ \A c, d : WriteEnd(c) = WriteEnd(d) => c = d
BY DEF Stdout, Nothing, ReadEnd, WriteEnd

(* A step of a thread inside a capture: the others are idle, and stay so. *)
LEMMA OthersIdle ==
  ASSUME TypeInv, OneAtATime, NEW t \in Threads, Emit(t) \/ Run(t)
  PROVE  /\ ~At(t, "idle") /\ \E label \in Labels : pc' = [pc EXCEPT ![t] = label]
         /\ \A u \in Threads \ {t} : pc[u] = "idle" /\ pc'[u] = "idle" /\ frame'[u] = frame[u]
         /\ Me(t)' = Me(t) /\ UNCHANGED overlapped
<1>1. /\ ~At(t, "idle") /\ UNCHANGED overlapped
      /\ \E label \in Labels : pc' = [pc EXCEPT ![t] = label]
  <2>1. CASE Emit(t) \/ Write(t)
    <3>1. pc' = [pc EXCEPT ![t] = pc[t]]
      BY <2>1 DEF Emit, Printf, Write, WriteOut, TypeInv, TypeOK
    <3> QED
      BY <2>1, <3>1, Types DEF Emit, Write, At
  <2>2. CASE ~Emit(t) /\ ~Write(t)
    BY <2>2 DEF Run, Dup, Pipe, Redirect, CloseW, Start, BodyReturns, Flush, Restore, CloseSaved,
                CloseR, Join, Close, At, Goto, external, Labels
  <2> QED
    BY <2>1, <2>2
<1>2. \A u \in Threads \ {t} : pc[u] = "idle" /\ pc'[u] = "idle"
  BY <1>1 DEF OneAtATime, At, TypeInv, TypeOK
<1>3. (\A u \in Threads \ {t} : frame'[u] = frame[u]) /\ frame'[t].n = frame[t].n
  <2>1. CASE UNCHANGED frame
    BY <2>1
  <2>2. CASE Dup(t)
    BY <2>2 DEF Dup, TypeInv, TypeOK
  <2>3. CASE Pipe(t)
    BY <2>3 DEF Pipe, TypeInv, TypeOK
  <2> QED
    BY <2>1, <2>2, <2>3 DEF Emit, Printf, Run, Redirect, CloseW, Start, BodyReturns, Write, WriteOut,
                            Flush, Restore, CloseSaved, CloseR, Join, Close
<1> QED
  BY <1>1, <1>2, <1>3 DEF Me

(* A thread that prints outside captures, or whose output is written then, *)
(* does so while no capture is in progress.                                *)
LEMMA OutsideAlone ==
  ASSUME NEW t \in Threads, PrintOutside(t) \/ WriteOutside(t)
  PROVE  /\ UNCHANGED <<fd, drain, buf, left, pc, frame>>
         /\ ~overlapped' => ~overlapped /\ \A u \in Threads : pc[u] = "idle"
BY DEF PrintOutside, Printf, WriteOutside, WriteOut, Capturing, At

LEMMA OneStays ==
  ASSUME TypeInv, OneAtATime, [Next]_vars, ~overlapped'
  PROVE  OneAtATime'
<1>1. ASSUME NEW t \in Threads, Begin(t)
      PROVE  OneAtATime'
  <2>1. \A u \in Threads : At(u, "idle")
    BY <1>1 DEF Begin, Capturing
  <2> QED
    BY <1>1, <2>1 DEF Begin, Goto, OneAtATime, At, TypeInv, TypeOK
<1>2. ASSUME NEW t \in Threads, Emit(t) \/ Run(t)
      PROVE  OneAtATime'
  BY <1>2, OthersIdle DEF OneAtATime, At
<1>3. CASE UNCHANGED pc
  BY <1>3 DEF OneAtATime, At
<1> QED
  BY <1>1, <1>2, <1>3, OutsideAlone DEF Next, Finished, vars, Drain, ReadCall, ReadChunk, ReadEof, Stop

LEMMA TableStays ==
  ASSUME TypeInv, OneAtATime, Table, [Next]_vars, ~overlapped'
  PROVE  Table'
<1>1. ASSUME NEW t \in Threads, Begin(t)
      PROVE  Table'
  <2>1. AllIdle /\ pc' = [pc EXCEPT ![t] = "dup"] /\ UNCHANGED fd
    BY <1>1 DEF Begin, Capturing, Goto, AllIdle
  <2>2. pc'[t] = "dup" /\ \A u \in Threads \ {t} : pc'[u] = "idle"
    BY <2>1 DEF AllIdle, At, TypeInv, TypeOK
  <2>3. OwnDescriptors(t)'
    BY <2>1, <2>2 DEF Table, OwnDescriptors, OnPipe, HasSaved, HasR, HasW
  <2> QED
    BY <2>2, <2>3 DEF Table, AllIdle, At
<1>2. ASSUME NEW t \in Threads, Emit(t) \/ Run(t)
      PROVE  Table'
  <2>1. /\ pc[t] # "idle" /\ OwnDescriptors(t) /\ Me(t)' = Me(t)
        /\ \A u \in Threads \ {t} : pc'[u] = "idle"
        /\ fd \in [Fds -> Files] /\ frame[t] \in FrameType /\ 1 \in Fds
    BY <1>2, OthersIdle, Types, FdsNat DEF Table, At, TypeInv, TypeOK
  <2>2. SUFFICES /\ pc'[t] = "idle" => fd'[1] = Stdout
                 /\ pc'[t] # "idle" => OwnDescriptors(t)'
    BY <2>1 DEF Table, AllIdle, At
  <2> USE FilesDiffer DEF OwnDescriptors, OnPipe, HasSaved, HasR, HasW
  <2>3. CASE Dup(t)
    <3>1. Lowest(Free) \in Fds /\ fd[Lowest(Free)] = Nothing
      BY <2>3, Room, FdsNat, LowestIn DEF Dup, At, TypeInv, Free
    <3>2. pc[t] = "dup" /\ pc'[t] = "pipe" /\ fd[1] = Stdout /\ Lowest(Free) # 1
      BY <2>1, <2>3, <3>1 DEF Dup, At, Goto, TypeInv, TypeOK
    <3>3. frame'[t].saved = Lowest(Free) /\ fd' = [fd EXCEPT ![Lowest(Free)] = Stdout]
      BY <2>3, <3>2 DEF Dup, TypeInv, TypeOK
    <3> QED
      BY <2>1, <3>1, <3>2, <3>3
  <2>4. CASE Pipe(t)
    <3>1. PICK r \in Free, w \in Free :
            /\ r \in Fds /\ w \in Fds /\ w # r
            /\ frame' = [frame EXCEPT ![t].r = r, ![t].w = w]
            /\ fd' = [fd EXCEPT ![r] = ReadEnd(Me(t)), ![w] = WriteEnd(Me(t))]
      BY <2>4, PipeFds
    <3>2. pc[t] = "pipe" /\ pc'[t] = "redirect" /\ fd[1] = Stdout
      BY <2>1, <2>4 DEF Pipe, At, Goto, TypeInv, TypeOK
    <3>3. fd[r] = Nothing /\ fd[w] = Nothing /\ r # w /\ r # 1 /\ w # 1
      BY <3>1, <3>2 DEF Free
    <3>4. frame'[t].r = r /\ frame'[t].w = w /\ frame'[t].saved = frame[t].saved
      BY <3>1 DEF TypeInv, TypeOK
    <3>5. fd'[r] = ReadEnd(Me(t)) /\ fd'[w] = WriteEnd(Me(t)) /\ fd'[1] = Stdout
      BY <2>1, <3>1, <3>2, <3>3
    <3>6. frame[t].saved # 1 /\ fd'[frame[t].saved] = Stdout
      BY <2>1, <3>1, <3>2, <3>3 DEF FrameType
    <3> QED
      BY <2>1, <3>2, <3>3, <3>4, <3>5, <3>6
  <2>5. CASE Redirect(t)
    BY <2>1, <2>5 DEF Redirect, At, Goto, TypeInv, TypeOK, FrameType
  <2>6. CASE CloseW(t)
    BY <2>1, <2>6 DEF CloseW, Close, At, Goto, TypeInv, TypeOK, FrameType
  <2>7. CASE Restore(t)
    BY <2>1, <2>7 DEF Restore, At, Goto, TypeInv, TypeOK, FrameType
  <2>8. CASE CloseSaved(t)
    BY <2>1, <2>8 DEF CloseSaved, Close, At, Goto, TypeInv, TypeOK, FrameType
  <2>9. CASE CloseR(t)
    BY <2>1, <2>9 DEF CloseR, Close, At, Goto, TypeInv, TypeOK, FrameType
  <2>10. CASE Start(t) \/ BodyReturns(t) \/ Flush(t) \/ Join(t)
    BY <2>1, <2>10 DEF Start, BodyReturns, Flush, Join, At, Goto, TypeInv, TypeOK
  <2>11. CASE Emit(t) \/ Write(t)
    BY <2>1, <2>11 DEF Emit, Printf, Write, WriteOut
  <2> QED
    BY <1>2, <2>3, <2>4, <2>5, <2>6, <2>7, <2>8, <2>9, <2>10, <2>11 DEF Run
<1>3. CASE UNCHANGED <<fd, pc, frame>>
  BY <1>3 DEF Table, OwnDescriptors, AllIdle, At, Me
<1> QED
  BY <1>1, <1>2, <1>3, OutsideAlone DEF Next, Finished, vars, Drain, ReadCall, ReadChunk, ReadEof, Stop

(* A capture that has joined its drain thread has seen it end: with fd 1   *)
(* restored nobody could write to the pipe any more.                       *)
LEMMA JoinedAfterEnd ==
  ASSUME TypeInv, OneAtATime, Table, Drains, NEW t \in Threads, Join(t)
  PROVE  drain[Me(t)].at = "done"
<1>1. pc[t] = "join" /\ Me(t) \in Captures
  BY Types DEF Join, At
<1>2. fd[1] = Stdout /\ \A u \in Threads : u # t => pc[u] = "idle"
  BY <1>1 DEF Table, OwnDescriptors, OnPipe, OneAtATime, At
<1>3. \A n \in Fds \ {1} : fd[n] = Nothing
  BY <1>1, <1>2 DEF TypeInv, Held, Holds, HasSaved, HasR, HasW
<1>4. \A c \in Captures : ~Writable(c)
  BY <1>2, <1>3, FilesDiffer DEF Writable
<1>5. ~Blocked(Me(t))
  BY <1>1, <1>4, FilesDiffer DEF Blocked, Reading, Drains
<1> QED
  BY <1>5 DEF Join

LEMMA DrainsStay ==
  ASSUME TypeInv, OneAtATime, Table, Drains, [Next]_vars, ~overlapped'
  PROVE  Drains'
<1> USE DEF Drains, Draining
<1>1. ASSUME NEW t \in Threads, Begin(t)
      PROVE  Drains'
  <2>1. \A u \in Threads : pc[u] = "idle"
    BY <1>1 DEF Begin, Capturing, At
  <2> QED
    BY <1>1, <2>1 DEF Begin
<1>2. ASSUME NEW t \in Threads, Emit(t) \/ Run(t)
      PROVE  Drains'
  <2>1. /\ ~At(t, "idle") /\ Me(t)' = Me(t) /\ Me(t) \in Captures
        /\ \A u \in Threads \ {t} : pc[u] = "idle" /\ frame'[u] = frame[u]
        /\ pc \in [Threads -> Labels]
    BY <1>2, OthersIdle, Types DEF TypeInv, TypeOK
  <2>2. CASE Start(t)
    <3>1. /\ pc[t] = "start" /\ pc'[t] = "body" /\ UNCHANGED frame
          /\ drain' = [drain EXCEPT ![Me(t)].at = "ready", ![Me(t)].r = frame[t].r]
      BY <2>1, <2>2 DEF Start, At, Goto
    <3>2. frame[t].r # 1
      BY <2>1, <3>1 DEF Table, OwnDescriptors, HasR
    <3>3. drain \in [Captures -> DrainType]
      BY DEF TypeInv, TypeOK, DrainType
    <3>4. /\ drain'[Me(t)].at = "ready" /\ drain'[Me(t)].r = frame[t].r
          /\ \A c \in Captures \ {Me(t)} : drain'[c] = drain[c]
      BY <2>1, <3>1, <3>3 DEF DrainType
    <3>5. \A c \in Captures : drain[c].at \notin {"ready", "reading"}
      BY <2>1, <3>1
    <3> QED
      BY <2>1, <3>1, <3>2, <3>4, <3>5
  <2>3. CASE Join(t)
    <3>1. drain[Me(t)].at = "done"
      BY <2>3, JoinedAfterEnd
    <3>2. \A c \in Captures : drain[c].at \notin {"ready", "reading"}
      BY <2>1, <3>1
    <3> QED
      BY <2>3, <3>2 DEF Join, external
  <2>4. CASE Dup(t) \/ Pipe(t) \/ Redirect(t) \/ CloseW(t)
    <3>1. pc[t] \notin Draining /\ UNCHANGED drain
      BY <2>4 DEF Dup, Pipe, Redirect, CloseW, Close, At, external
    <3>2. \A c \in Captures : drain[c].at \notin {"ready", "reading"}
      BY <2>1, <3>1
    <3> QED
      BY <3>1, <3>2
  <2>5. CASE \/ BodyReturns(t) \/ Flush(t) \/ Restore(t) \/ CloseSaved(t) \/ CloseR(t)
             \/ Emit(t) \/ Write(t)
    <3>1. pc'[t] \in Draining /\ UNCHANGED <<drain, frame>>
      BY <2>1, <2>5
      DEF BodyReturns, Flush, Restore, CloseSaved, CloseR, Emit, Printf, Write, WriteOut, Close, At, Goto,
          external
    <3>2. \A c \in Captures, u \in Threads :
            pc[u] \in Draining /\ c = Me(u) => pc'[u] \in Draining /\ c = Me(u)'
      BY <2>1, <3>1 DEF Me
    <3> QED
      BY <3>1, <3>2
  <2> QED
    BY <1>2, <2>2, <2>3, <2>4, <2>5 DEF Run
<1>3. ASSUME NEW d \in Captures, Drain(d)
      PROVE  Drains'
  <2>1. UNCHANGED <<fd, pc, frame>> /\ drain \in [Captures -> DrainType]
    BY <1>3 DEF Drain, ReadCall, ReadChunk, ReadEof, Stop, TypeInv, TypeOK, DrainType
  <2>2. \A c \in Captures \ {d} : drain'[c] = drain[c]
    BY <1>3, <2>1 DEF Drain, ReadCall, ReadChunk, ReadEof, Stop
  <2>3. drain'[d].r = drain[d].r /\ drain[d].at \in {"ready", "reading"}
    BY <1>3, <2>1 DEF Drain, ReadCall, ReadChunk, ReadEof, Stop, Reading, DrainType
  <2>4. drain'[d].at = "reading" => drain'[d].from = ReadEnd(d)
    <3>1. CASE ReadCall(d) /\ drain'[d].at = "reading"
      <4>1. /\ drain'[d].from = fd[drain[d].r]
            /\ fd[drain[d].r] = Stdout \/ \E p \in Captures : fd[drain[d].r] = ReadEnd(p)
        BY <2>1, <3>1 DEF ReadCall, Stop, DrainType
      <4>2. PICK t \in Threads : pc[t] \in Draining /\ d = Me(t) /\ drain[d].r = frame[t].r
        BY <2>3
      <4>3. fd[frame[t].r] # Nothing /\ frame[t].r \in Fds \ {1}
        BY <2>3, <4>1, <4>2, FilesDiffer, Types DEF FrameType
      <4>4. pc[t] \in HasR
        <5>1. PICK u \in Threads : Holds(u, frame[t].r)
          BY <4>3 DEF TypeInv, Held
        <5>2. u = t
          BY <4>2, <5>1 DEF OneAtATime, At, Holds, HasSaved, HasR, HasW
        <5> QED
          BY <4>2, <5>1, <5>2 DEF Holds, HasSaved, HasR, HasW
      <4>5. fd[frame[t].r] = ReadEnd(d)
        BY <4>2, <4>4 DEF Table, OwnDescriptors, HasR, At
      <4> QED
        BY <4>1, <4>2, <4>5
    <3>2. CASE ReadChunk(d) \/ ReadEof(d)
      BY <2>1, <3>2 DEF ReadChunk, ReadEof, Stop, DrainType
    <3> QED
      BY <1>3, <3>1, <3>2 DEF Drain
  <2> QED
    BY <2>1, <2>2, <2>3, <2>4 DEF Me
<1>4. CASE UNCHANGED <<drain, pc, frame>>
  BY <1>4 DEF Me
<1> QED
  BY <1>1, <1>2, <1>3, <1>4, OutsideAlone DEF Next, Finished, vars

-----------------------------------------------------------------------------
(* Chunks that move from the head of one sequence to the end of another. *)
LEMMA MoveHead ==
  ASSUME NEW S, NEW a \in Seq(S), NEW b \in Seq(S), b # <<>>
  PROVE  Append(a, Head(b)) \o Tail(b) = a \o b
<1>1. /\ Head(b) \in S /\ Tail(b) \in Seq(S) /\ Len(Tail(b)) = Len(b) - 1
      /\ \A i \in 1..Len(Tail(b)) : Tail(b)[i] = b[i + 1]
  BY HeadTailProperties
<1>2. Head(b) = b[1] /\ Len(a) \in Nat /\ Len(b) \in Nat \ {0}
  BY LenProperties, EmptySeq
<1> DEFINE c == Append(a, Head(b))
<1>3. /\ c \in Seq(S) /\ Len(c) = Len(a) + 1
      /\ \A i \in 1..Len(a) : c[i] = a[i]
      /\ c[Len(a) + 1] = Head(b)
  BY <1>1, AppendProperties
<1> HIDE DEF c
<1>4. /\ c \o Tail(b) \in Seq(S) /\ Len(c \o Tail(b)) = Len(c) + Len(Tail(b))
      /\ \A i \in 1..Len(c) + Len(Tail(b)) :
           (c \o Tail(b))[i] = IF i <= Len(c) THEN c[i] ELSE Tail(b)[i - Len(c)]
  BY <1>1, <1>3, ConcatProperties
<1>5. /\ a \o b \in Seq(S) /\ Len(a \o b) = Len(a) + Len(b)
      /\ \A i \in 1..Len(a) + Len(b) : (a \o b)[i] = IF i <= Len(a) THEN a[i] ELSE b[i - Len(a)]
  BY ConcatProperties
<1>6. Len(c \o Tail(b)) = Len(a \o b)
  BY <1>1, <1>2, <1>3, <1>4, <1>5
<1>7. ASSUME NEW i \in 1..Len(c \o Tail(b))
      PROVE  (c \o Tail(b))[i] = (a \o b)[i]
  <2>1. CASE i <= Len(a)
    BY <1>1, <1>2, <1>3, <1>4, <1>5, <2>1
  <2>2. CASE i = Len(a) + 1
    BY <1>1, <1>2, <1>3, <1>4, <1>5, <2>2
  <2>3. CASE i > Len(a) + 1
    <3>1. (a \o b)[i] = b[i - Len(a)]
      BY <1>2, <1>5, <1>6, <1>7, <2>3
    <3>2. (c \o Tail(b))[i] = Tail(b)[i - Len(c)]
      BY <1>1, <1>2, <1>3, <1>4, <1>7, <2>3
    <3>3. i - Len(c) \in 1..Len(Tail(b)) /\ (i - Len(c)) + 1 = i - Len(a)
      BY <1>1, <1>2, <1>3, <1>4, <1>7, <2>3
    <3> QED
      BY <1>1, <3>1, <3>2, <3>3
  <2> QED
    BY <1>2, <1>3, <1>7, <2>1, <2>2, <2>3
<1>8. c \o Tail(b) = a \o b
  BY <1>4, <1>5, <1>6, <1>7, SeqEqual
<1> QED
  BY <1>8 DEF c

LEMMA ConcatAppend ==
  ASSUME NEW S, NEW a \in Seq(S), NEW b \in Seq(S), NEW x \in S
  PROVE  Append(a \o b, x) = a \o (b \o <<x>>) /\ Append(b, x) = b \o <<x>>
<1>1. <<x>> \in Seq(S)
  BY AppendProperties, EmptySeq
<1>2. a \o b \in Seq(S)
  BY ConcatProperties
<1>3. Append(a \o b, x) = (a \o b) \o <<x>> /\ Append(b, x) = b \o <<x>>
  BY <1>2, AppendIsConcat
<1> QED
  BY <1>1, <1>3, ConcatAssociative

LEMMA PrefixOfConcat ==
  ASSUME NEW S, NEW a \in Seq(S), NEW b \in Seq(S)
  PROVE  IsPrefix(a, a \o b)
<1>1. Len(a \o b) = Len(a) + Len(b) /\ Len(a) \in Nat /\ Len(b) \in Nat
  BY ConcatProperties, LenProperties
<1>2. SubSeq(a, 1, Len(a)) = SubSeq(a \o b, 1, Len(a))
  <2>1. CASE a = <<>>
    BY <2>1, SubSeqEmpty, EmptySeq
  <2>2. CASE a # <<>>
    BY <1>1, <2>2, SubSeqOfConcat1, EmptySeq
  <2> QED
    BY <2>1, <2>2
<1> QED
  BY <1>1, <1>2 DEF IsPrefix

-----------------------------------------------------------------------------
LEMMA SeqTypes ==
  ASSUME TypeInv, NEW c \in Captures
  PROVE  /\ left[c] \in Seq(Chunks) /\ printed[c] \in Seq(Chunks)
         /\ left[c] \o printed[c] \in Seq(Chunks) /\ buf[c] \in Seq(Chunks) /\ pipe[c] \in Seq(Chunks)
         /\ buf[c] \o pipe[c] \in Seq(Chunks) /\ stdio \in Seq(Chunks)
         /\ (buf[c] \o pipe[c]) \o <<>> = buf[c] \o pipe[c]
<1>1. /\ left[c] \in Seq(Chunks) /\ printed[c] \in Seq(Chunks)
      /\ buf[c] \in Seq(Chunks) /\ pipe[c] \in Seq(Chunks)
  BY DEF TypeInv, TypeOK, Sources
<1>2. buf[c] \o pipe[c] \in Seq(Chunks) /\ left[c] \o printed[c] \in Seq(Chunks)
  BY <1>1, ConcatProperties
<1> QED
  BY <1>1, <1>2, ConcatEmptySeq DEF TypeInv, TypeOK

(* fd 1 stands for the pipe of the capture that prints, which somebody can *)
(* still read: what is written goes there, and nowhere else.               *)
LEMMA WriteToOwnPipe ==
  ASSUME TypeInv, OneAtATime, Table, NEW t \in Threads, Write(t)
  PROVE  /\ pipe' = [pipe EXCEPT ![Me(t)] = Append(@, Head(stdio))]
         /\ stdio # <<>> /\ stdio' = Tail(stdio) /\ UNCHANGED <<console, printed, left, buf, pc, frame>>
<1>1. /\ fd[1] = WriteEnd(Me(t)) /\ Me(t) \in Captures
      /\ frame[t].r \in Fds /\ fd[frame[t].r] = ReadEnd(Me(t))
  BY Types DEF Write, At, Table, OwnDescriptors, OnPipe, HasR, FrameType
<1>2. Readable(Me(t))
  BY <1>1 DEF Readable
<1> QED
  BY <1>1, <1>2, FilesDiffer DEF Write, WriteOut

LEMMA OutsideMoves ==
  ASSUME NEW seq \in Seq(Chunks), OutsideOnly(seq)
  PROVE  /\ seq # <<>> => OutsideOnly(Tail(seq)) /\ Head(seq)[1] \notin Captures
         /\ \A x \in Chunks : x[1] \notin Captures => OutsideOnly(Append(seq, x))
<1>1. ASSUME seq # <<>>
      PROVE  OutsideOnly(Tail(seq)) /\ Head(seq)[1] \notin Captures
  <2>1. /\ Tail(seq) \in Seq(Chunks) /\ Len(Tail(seq)) = Len(seq) - 1
        /\ \A i \in 1..Len(Tail(seq)) : Tail(seq)[i] = seq[i + 1]
    BY <1>1, HeadTailProperties
  <2>2. Len(seq) \in Nat \ {0} /\ DOMAIN seq = 1..Len(seq) /\ Head(seq) = seq[1]
    BY <1>1, LenProperties, EmptySeq
  <2>3. DOMAIN Tail(seq) = 1..Len(Tail(seq))
    BY <2>1, LenProperties
  <2> QED
    BY <2>1, <2>2, <2>3 DEF OutsideOnly
<1>2. ASSUME NEW x \in Chunks, x[1] \notin Captures
      PROVE  OutsideOnly(Append(seq, x))
  <2>1. /\ Append(seq, x) \in Seq(Chunks) /\ Len(Append(seq, x)) = Len(seq) + 1
        /\ \A i \in 1..Len(seq) : Append(seq, x)[i] = seq[i]
        /\ Append(seq, x)[Len(seq) + 1] = x
    BY AppendProperties
  <2>2. /\ DOMAIN seq = 1..Len(seq) /\ Len(seq) \in Nat
        /\ DOMAIN Append(seq, x) = 1..Len(Append(seq, x))
    BY <2>1, LenProperties
  <2> QED
    BY <1>2, <2>1, <2>2 DEF OutsideOnly
<1> QED
  BY <1>1, <1>2

(* A capture that redirected fd 1 has done so for good. *)
LEMMA FreshOnlyBefore ==
  ASSUME TypeInv, OneAtATime, [Next]_vars, NEW c \in Captures, Fresh(c)'
  PROVE  Fresh(c)
<1>1. c[1] \in Threads /\ c[2] \in 1..MaxCaptures /\ c = <<c[1], c[2]>>
  BY DEF Captures
<1>2. ASSUME NEW t \in Threads, Begin(t)
      PROVE  Fresh(c)
  <2>1. /\ pc[t] = "idle" /\ pc' = [pc EXCEPT ![t] = "dup"]
        /\ frame' = [frame EXCEPT ![t].n = frame[t].n + 1] /\ frame[t] \in FrameType
    BY <1>2, Types DEF Begin, At, Goto
  <2>2. frame[t].n \in Nat /\ frame'[t].n = frame[t].n + 1
    BY <2>1, ConstantsAssumption DEF TypeInv, TypeOK, FrameType
  <2>3. \A u \in Threads \ {t} : frame'[u] = frame[u] /\ pc'[u] = pc[u]
    BY <2>1 DEF TypeInv, TypeOK
  <2> QED
    BY <1>1, <2>1, <2>2, <2>3, ConstantsAssumption DEF Fresh
<1>3. ASSUME NEW t \in Threads, Emit(t) \/ Run(t)
      PROVE  Fresh(c)
  <2>1. \A u \in Threads : frame'[u].n = frame[u].n
    BY <1>3, OthersIdle DEF Me
  <2>2. \A u \in Threads : pc'[u] \in {"dup", "pipe", "redirect"} => pc[u] \in {"dup", "pipe", "redirect"}
    BY <1>3, OthersIdle
    DEF Emit, Printf, Run, Dup, Pipe, Redirect, CloseW, Start, BodyReturns, Write, WriteOut, Flush,
        Restore, CloseSaved, CloseR, Join, Close, At, Goto, TypeInv, TypeOK
  <2> QED
    BY <1>1, <2>1, <2>2 DEF Fresh
<1>4. CASE UNCHANGED <<pc, frame>>
  BY <1>4 DEF Fresh
<1> QED
  BY <1>2, <1>3, <1>4, OutsideAlone DEF Next, Finished, vars, Drain, ReadCall, ReadChunk, ReadEof, Stop

LEMMA InProgress ==
  ASSUME TypeInv, NEW t \in Threads, ~At(t, "idle"), pc[t] \notin {"dup", "pipe", "redirect"}
  PROVE  Me(t) \in Captures /\ ~Fresh(Me(t))
<1>1. Me(t) \in Captures /\ frame[t].n \in 0..MaxCaptures
  BY Types DEF FrameType
<1> QED
  BY <1>1, ConstantsAssumption DEF Fresh, Me

(* The captured call prints, and stdio is written to the pipe of its       *)
(* capture, which it still is of.                                          *)
LEMMA CapturedStays ==
  ASSUME TypeInv, OneAtATime, Table, Prints, [Next]_vars, NEW t \in Threads, Emit(t) \/ Write(t)
  PROVE  Prints'
<1>1. /\ Redirected(t) /\ Me(t) \in Captures /\ ~Fresh(Me(t)) /\ UNCHANGED <<pc, frame, left, buf, console>>
      /\ \A u \in Threads : Redirected(u) => u = t
  <2>1. UNCHANGED <<pc, frame, left, buf, console>>
    <3>1. CASE Emit(t)
      BY <3>1 DEF Emit, Printf
    <3> QED
      BY <3>1, WriteToOwnPipe
  <2> QED
    BY <2>1, InProgress DEF Emit, Write, At, Redirected, OneAtATime
<1>2. \A c \in Captures : Pending(c) = IF c = Me(t) THEN stdio ELSE <<>>
  BY <1>1 DEF Pending
<1>3. \A c \in Captures : Pending(c)' = IF c = Me(t) THEN stdio' ELSE <<>>
  BY <1>1 DEF Pending, Redirected, Me
<1>4. left[Me(t)] \o printed[Me(t)] = (buf[Me(t)] \o pipe[Me(t)]) \o stdio
  BY <1>1, <1>2 DEF Prints
<1>5. \A d, e \in Seq(Chunks) : \A y \in Chunks :
        Append(d \o e, y) = d \o (e \o <<y>>) /\ Append(e, y) = e \o <<y>>
  BY ConcatAppend
<1>6. /\ \A c \in Captures : left'[c] \o printed'[c] = (buf'[c] \o pipe'[c]) \o Pending(c)'
      /\ \A c \in Captures \ {Me(t)} : printed'[c] = printed[c] /\ pipe'[c] = pipe[c]
  <2>1. CASE Emit(t)
    <3> DEFINE x == <<Me(t), Len(printed[Me(t)]) + 1>>
               a == buf[Me(t)] \o pipe[Me(t)]
    <3>1. /\ x \in Chunks /\ printed' = [printed EXCEPT ![Me(t)] = Append(printed[Me(t)], x)]
          /\ stdio' = Append(stdio, x) /\ UNCHANGED pipe
      BY <2>1 DEF Emit, Printf
    <3> HIDE DEF x
    <3>2. /\ a \in Seq(Chunks) /\ stdio \in Seq(Chunks) /\ left[Me(t)] \o printed[Me(t)] = a \o stdio
          /\ left[Me(t)] \in Seq(Chunks) /\ printed[Me(t)] \in Seq(Chunks)
      BY <1>1, <1>4, SeqTypes
    <3> HIDE DEF a
    <3>3. left[Me(t)] \o Append(printed[Me(t)], x) = Append(left[Me(t)] \o printed[Me(t)], x)
      <4>1. \A d, e \in Seq(Chunks) : Append(d \o e, x) = d \o Append(e, x)
        BY <1>5, <3>1
      <4> QED
        BY <3>2, <4>1
    <3>4. Append(a \o stdio, x) = a \o stdio'
      <4>1. \A d, e \in Seq(Chunks) : Append(d \o e, x) = d \o Append(e, x)
        BY <1>5, <3>1
      <4> QED
        BY <3>1, <3>2, <4>1
    <3>5. left[Me(t)] \o Append(printed[Me(t)], x) = (buf[Me(t)] \o pipe[Me(t)]) \o stdio'
      BY <3>2, <3>3, <3>4 DEF a
    <3> QED
      BY <1>1, <1>2, <1>3, <3>1, <3>5, Types DEF Prints, TypeInv, TypeOK, Sources
  <2>2. CASE Write(t)
    <3>1. /\ pipe' = [pipe EXCEPT ![Me(t)] = Append(pipe[Me(t)], Head(stdio))]
          /\ stdio # <<>> /\ stdio' = Tail(stdio) /\ UNCHANGED printed
      BY <2>2, WriteToOwnPipe
    <3>2. /\ Head(stdio) \in Chunks /\ buf[Me(t)] \in Seq(Chunks) /\ pipe[Me(t)] \in Seq(Chunks)
      BY <1>1, <3>1, SeqTypes, HeadTailProperties
    <3>3. buf[Me(t)] \o Append(pipe[Me(t)], Head(stdio))
            = Append(buf[Me(t)] \o pipe[Me(t)], Head(stdio))
      <4> HIDE DEF Chunks
      <4> QED
        BY <1>5, <3>2
    <3>4. Append(buf[Me(t)] \o pipe[Me(t)], Head(stdio)) \o stdio' = left[Me(t)] \o printed[Me(t)]
      BY <1>1, <1>4, <3>1, SeqTypes, MoveHead
    <3> QED
      BY <1>1, <1>2, <1>3, <3>1, <3>3, <3>4 DEF Prints, TypeInv, TypeOK
  <2> QED
    BY <2>1, <2>2
<1>7. Redirected(t)' /\ \A c \in Captures : Fresh(c)' => c # Me(t) /\ Fresh(c)
  BY <1>1, FreshOnlyBefore DEF Redirected, Me
<1> QED
  BY <1>1, <1>6, <1>7 DEF Prints, OutsideOnly

(* A capture that begins to redirect finds in stdio what was printed        *)
(* outside captures, and has printed nothing yet.                          *)
LEMMA RedirectStays ==
  ASSUME TypeInv, OneAtATime, Prints, [Next]_vars, NEW t \in Threads, Redirect(t)
  PROVE  Prints'
<1>1. /\ pc[t] = "redirect" /\ pc' = [pc EXCEPT ![t] = "close_w"] /\ Me(t) \in Captures
      /\ left' = [left EXCEPT ![Me(t)] = stdio] /\ UNCHANGED <<stdio, console, printed, buf, pipe, frame>>
  BY Types DEF Redirect, At, Goto
<1>2. \A u \in Threads : (u # t => pc[u] = "idle" /\ pc'[u] = "idle") /\ ~Redirected(u)
  BY <1>1, OthersIdle DEF Run, Redirected
<1>3. \A c \in Captures : Pending(c) = <<>> /\ Pending(c)' = IF c = Me(t) THEN stdio ELSE <<>>
  BY <1>1, <1>2 DEF Pending, Redirected, Me, TypeInv, TypeOK
<1>4. Fresh(Me(t))
  BY <1>1 DEF Fresh, Me
<1>5. printed[Me(t)] = <<>> /\ buf[Me(t)] = <<>> /\ pipe[Me(t)] = <<>>
  BY <1>1, <1>4 DEF Prints
<1>6. stdio \o <<>> = (<<>> \o <<>>) \o stdio
  <2>1. stdio \in Seq(Chunks) /\ <<>> \in Seq(Chunks)
    BY EmptySeq DEF TypeInv, TypeOK
  <2> QED
    BY <2>1, ConcatEmptySeq
<1>7. OutsideOnly(stdio)
  BY <1>2 DEF Prints
<1>8. \A c \in Captures : left'[c] = IF c = Me(t) THEN stdio ELSE left[c]
  BY <1>1 DEF TypeInv, TypeOK
<1>9. Redirected(t)' /\ \A c \in Captures : c = Me(t) => ~Fresh(c)'
  <2>1. pc'[t] = "close_w" /\ frame[t].n \in 0..MaxCaptures
    BY <1>1, Types DEF TypeInv, TypeOK, FrameType
  <2> QED
    BY <1>1, <2>1, ConstantsAssumption DEF Redirected, Fresh, Me
<1>10. \A c \in Captures : left'[c] \o printed'[c] = (buf'[c] \o pipe'[c]) \o Pending(c)'
  BY <1>1, <1>3, <1>5, <1>6, <1>8 DEF Prints
<1>11. \A c \in Captures : Fresh(c)' => Fresh(c) /\ c # Me(t)
  BY <1>1, <1>9, FreshOnlyBefore
<1>12. \A c \in Captures : OutsideOnly(left'[c])
  BY <1>7, <1>8 DEF Prints
<1>13. (\A c \in Captures : OutsideOnly(left[c]))'
  BY <1>12 DEF OutsideOnly
<1>14. ~(\A u \in Threads : ~Redirected(u)')
  BY <1>9
<1> QED
  BY <1>1, <1>8, <1>10, <1>11, <1>13, <1>14 DEF Prints

LEMMA OutsideStays ==
  ASSUME TypeInv, OneAtATime, Table, Prints, [Next]_vars, ~overlapped',
         NEW t \in Threads, PrintOutside(t) \/ WriteOutside(t)
  PROVE  Prints'
<1>1. /\ UNCHANGED <<buf, left, pc, frame>> /\ \A u \in Threads : pc[u] = "idle" /\ ~Redirected(u)
      /\ fd[1] = Stdout /\ stdio \in Seq(Chunks) /\ OutsideOnly(stdio)
  BY OutsideAlone DEF Table, AllIdle, At, Redirected, Prints, TypeInv, TypeOK
<1>2. \A c \in Captures : Pending(c) = <<>> /\ Pending(c)' = <<>>
  BY <1>1 DEF Pending, Redirected
<1>3. /\ \A c \in Captures : printed'[c] = printed[c] /\ pipe'[c] = pipe[c]
      /\ OutsideOnly(stdio') /\ \A chunk \in console' : chunk[1] \notin Captures
  <2>1. CASE PrintOutside(t)
    <3>1. PICK x \in Chunks :
            /\ x[1] = Outside(t) /\ stdio' = Append(stdio, x) /\ UNCHANGED <<console, pipe>>
            /\ printed' = [printed EXCEPT ![Outside(t)] = Append(@, x)]
      BY <2>1 DEF PrintOutside, Printf
    <3> QED
      BY <1>1, <3>1, Types, OutsideMoves DEF Prints, TypeInv, TypeOK
  <2>2. CASE WriteOutside(t)
    <3>1. /\ stdio # <<>> /\ stdio' = Tail(stdio) /\ console' = console \cup {Head(stdio)}
          /\ UNCHANGED <<pipe, printed>>
      BY <1>1, <2>2, FilesDiffer DEF WriteOutside, WriteOut
    <3> QED
      BY <1>1, <3>1, OutsideMoves DEF Prints
  <2> QED
    BY <2>1, <2>2
<1> QED
  BY <1>1, <1>2, <1>3, FreshOnlyBefore DEF Prints, Redirected

LEMMA PrintsStay ==
  ASSUME TypeInv, OneAtATime, Table, Drains, Prints, [Next]_vars, ~overlapped'
  PROVE  Prints'
<1>1. ASSUME NEW t \in Threads, Begin(t)
      PROVE  Prints'
  <2>1. \A u \in Threads : ~Redirected(u)
    BY <1>1 DEF Begin, Capturing, At, Redirected
  <2>2. \A u \in Threads : ~Redirected(u)'
    BY <1>1, <2>1 DEF Begin, Goto, Redirected, TypeInv, TypeOK
  <2> QED
    BY <1>1, <2>1, <2>2, FreshOnlyBefore DEF Begin, Prints, Pending, OutsideOnly
<1>2. ASSUME NEW t \in Threads, Run(t), ~Write(t), ~Redirect(t)
      PROVE  Prints'
  <2>1. /\ UNCHANGED <<printed, left, buf, pipe, stdio, console>>
        /\ \/ Redirected(t) <=> Redirected(t)'
           \/ stdio = <<>>
    BY <1>2
    DEF Run, Dup, Pipe, CloseW, Start, BodyReturns, Flush, Restore, CloseSaved, CloseR,
        Join, Close, At, Goto, external, Redirected, TypeInv, TypeOK
  <2>2. \A u \in Threads \ {t} : ~Redirected(u) /\ ~Redirected(u)'
    BY <1>2, OthersIdle DEF Redirected
  <2>3. Me(t)' = Me(t)
    BY <1>2, OthersIdle
  <2>4. \A c \in Captures : Pending(c)' = Pending(c)
    <3>1. \A u \in Threads \ {t} : ~Redirected(u) /\ ~Redirected(u)'
      BY <2>2
    <3>2. \A c \in Captures : Pending(c) = IF Redirected(t) /\ c = Me(t) THEN stdio ELSE <<>>
      BY <3>1 DEF Pending
    <3>3. \A c \in Captures : Pending(c)' = IF Redirected(t)' /\ c = Me(t)' THEN stdio' ELSE <<>>
      BY <3>1 DEF Pending
    <3> QED
      BY <2>1, <2>3, <3>2, <3>3
  <2>5. (\A u \in Threads : ~Redirected(u)') => OutsideOnly(stdio)
    <3>1. CASE stdio = <<>>
      BY <3>1 DEF OutsideOnly
    <3> QED
      BY <2>1, <2>2, <3>1 DEF Prints
  <2> QED
    BY <2>1, <2>4, <2>5, FreshOnlyBefore DEF Prints, OutsideOnly
<1>3. ASSUME NEW c \in Captures, ReadChunk(c)
      PROVE  Prints'
  <2>1. PICK p \in Captures :
          /\ Reading(c, p) /\ pipe[p] # <<>> /\ pipe' = [pipe EXCEPT ![p] = Tail(@)]
          /\ buf' = [buf EXCEPT ![c] = Append(@, Head(pipe[p]))]
          /\ UNCHANGED <<stdio, console, printed, left, pc, frame>>
    BY <1>3 DEF ReadChunk
  <2>2. p = c
    BY <2>1, FilesDiffer DEF Reading, Drains
  <2>3. Append(buf[c], Head(pipe[c])) \o Tail(pipe[c]) = buf[c] \o pipe[c]
    BY <2>1, <2>2, SeqTypes, MoveHead
  <2>4. \A d \in Captures : buf'[d] \o pipe'[d] = buf[d] \o pipe[d]
    BY <2>1, <2>2, <2>3 DEF TypeInv, TypeOK
  <2>5. ~Fresh(c)
    BY <2>1, <2>2 DEF Prints
  <2>6. \A d \in Captures : Fresh(d)' => Fresh(d) /\ buf'[d] = buf[d] /\ pipe'[d] = pipe[d]
    BY <2>1, <2>2, <2>5, FreshOnlyBefore DEF TypeInv, TypeOK
  <2>7. \A d \in Captures : Pending(d)' = Pending(d)
    BY <2>1 DEF Pending, Redirected, Me
  <2>8. \A d \in Captures : left'[d] \o printed'[d] = (buf'[d] \o pipe'[d]) \o Pending(d)'
    BY <2>1, <2>4, <2>7 DEF Prints
  <2>9. \A d \in Captures : Fresh(d)' =>
          left'[d] = <<>> /\ printed'[d] = <<>> /\ buf'[d] = <<>> /\ pipe'[d] = <<>>
    BY <2>1, <2>6 DEF Prints
  <2>10. /\ (\A u \in Threads : ~Redirected(u)') => OutsideOnly(stdio)'
         /\ (\A d \in Captures : OutsideOnly(left[d]))'
         /\ (\A chunk \in console : chunk[1] \notin Captures)'
    BY <2>1 DEF Prints, Redirected, OutsideOnly
  <2> QED
    BY <2>8, <2>9, <2>10 DEF Prints
<1>4. CASE UNCHANGED <<stdio, console, printed, left, pipe, buf, pc, frame>>
  BY <1>4, FreshOnlyBefore DEF Prints, Pending, Redirected, Me, OutsideOnly
<1> QED
  BY <1>1, <1>2, <1>3, <1>4, CapturedStays, RedirectStays, OutsideStays
  DEF Next, Finished, vars, Run, Drain, ReadCall, ReadEof, Stop

LEMMA AlwaysSolo == Spec => []SoloInv
<1>1. ASSUME Init
      PROVE  SoloInv
  <2>1. OneAtATime /\ Table /\ Drains
    BY <1>1, FdsNat DEF Init, OneAtATime, Table, Drains, AllIdle, At
  <2>2. stdio = <<>> /\ console = {} /\ \A c \in Captures : Pending(c) = <<>>
    BY <1>1 DEF Init, Pending
  <2>3. \A c \in Captures : buf[c] = <<>> /\ pipe[c] = <<>> /\ left[c] = <<>> /\ printed[c] = <<>>
    BY <1>1 DEF Init, Sources
  <2>4. <<>> \o <<>> = <<>> /\ OutsideOnly(<<>>)
    BY ConcatEmptySeq, EmptySeq DEF OutsideOnly
  <2> QED
    BY <2>1, <2>2, <2>3, <2>4 DEF SoloInv, Solo, Prints
<1>2. ASSUME TypeInv, SoloInv, [Next]_vars
      PROVE  SoloInv'
  <2>1. ~overlapped' => ~overlapped
    BY <1>2, OutsideAlone DEF Next, Finished, vars, Begin, Emit, Run, Dup, Pipe, Redirect, CloseW, Start,
                BodyReturns, Write, Flush, Restore, CloseSaved, CloseR, Join, Close, external,
                Drain, ReadCall, ReadChunk, ReadEof, Stop
  <2> QED
    BY <1>2, <2>1, OneStays, TableStays, DrainsStay, PrintsStay DEF SoloInv, Solo
<1> QED
  BY <1>1, <1>2, AlwaysTyped, PTL DEF Spec

(* As long as nobody captures or prints inside another thread's capture:   *)
(* fd 1 is the process's stdout again whenever no capture is in progress .. *)
THEOREM Restored == Spec => []StdoutRestored
<1>1. SoloInv => StdoutRestored
  BY DEF SoloInv, Solo, Table, StdoutRestored
<1> QED
  BY <1>1, AlwaysSolo, PTL

(* ... nothing a captured call prints reaches the process's stdout ...     *)
THEOREM NoneEscapes == Spec => []NothingEscapes
<1>1. SoloInv => NothingEscapes
  BY DEF SoloInv, Solo, Prints, NothingEscapes
<1> QED
  BY <1>1, AlwaysSolo, PTL

(* ... and a buffer holds what C functions outside captures had left in     *)
(* stdio, if anything, then what its own call has printed, from the first  *)
(* chunk on and in order, and nothing of another capture's, however full   *)
(* the pipe and however late the drain thread.                             *)
THEOREM CapturedPrefix == Spec => []CapturedInOrder
<1>1. ASSUME TypeInv, SoloInv, ~overlapped, NEW c \in Captures
      PROVE  IsPrefix(buf[c], left[c] \o printed[c])
  <2>1. Pending(c) \in Seq(Chunks) /\ buf[c] \in Seq(Chunks) /\ pipe[c] \in Seq(Chunks)
    BY <1>1, SeqTypes, EmptySeq DEF Pending
  <2>2. left[c] \o printed[c] = buf[c] \o (pipe[c] \o Pending(c))
    <3>1. left[c] \o printed[c] = (buf[c] \o pipe[c]) \o Pending(c)
      BY <1>1 DEF SoloInv, Solo, Prints
    <3> QED
      <4>1. \A a, b, d \in Seq(Chunks) : (a \o b) \o d = a \o (b \o d)
        BY ConcatAssociative
      <4> QED
        BY <2>1, <3>1, <4>1
  <2>3. pipe[c] \o Pending(c) \in Seq(Chunks)
    BY <2>1, ConcatProperties
  <2> QED
    BY <2>1, <2>2, <2>3, PrefixOfConcat
<1>2. TypeInv /\ SoloInv => CapturedInOrder
  BY <1>1 DEF CapturedInOrder, SoloInv, Solo, Prints, OutsideOnly
<1> QED
  BY <1>2, AlwaysTyped, AlwaysSolo, PTL
================================================================================
