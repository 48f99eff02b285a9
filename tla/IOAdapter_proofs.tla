--------------------------- MODULE IOAdapter_proofs ---------------------------
(***************************************************************************)
(* Theorems about IOAdapter, for every number of threads, schemes and      *)
(* calls, under the assumptions the run IOAdapter_shared makes of wirelog: *)
(* it refuses a scheme that is taken, and does not unregister an adapter   *)
(* it is calling.  TypeCorrect needs neither.                              *)
(***************************************************************************)
EXTENDS IOAdapter, TLAPS

FrameType == [n : 0..MaxCalls, scheme : Schemes, adapter : Ids \cup {NoId}]

(* A thread inside a call has counted it. *)
CallNumbered == \A t \in Threads : ~At(t, "idle") => frame[t].n \in 1..MaxCalls

TypeInv == TypeOK /\ CallNumbered

(* The type of everything but the history of reads. *)
LEMMA Types ==
  ASSUME TypeInv, NEW t \in Threads
  PROVE  /\ frame[t] \in FrameType /\ Scheme(t) \in Schemes /\ pc[t] \in Labels
         /\ ~At(t, "idle") => Me(t) \in Ids
         /\ adapters[Scheme(t)] \in Ids \cup {NoId}
BY DEF TypeInv, TypeOK, CallNumbered, FrameType, Scheme, Me, Ids

(* A thread that goes to another label of its call. *)
LEMMA GotoTyped ==
  ASSUME TypeInv, NEW t \in Threads, NEW label \in Labels, ~At(t, "idle"), Goto(t, label),
         UNCHANGED frame
  PROVE  pc' \in [Threads -> Labels] /\ frame' \in [Threads -> FrameType] /\ CallNumbered'
BY DEF TypeInv, TypeOK, CallNumbered, FrameType, Goto, At

LEMMA BeginTyped ==
  ASSUME TypeInv, NEW t \in Threads, Begin(t)
  PROVE  TypeInv'
<1>1. PICK kind \in Calls[t], s \in Schemes :
        /\ Goto(t, FirstLabel(kind))
        /\ frame' = [frame EXCEPT ![t] = [n |-> @.n + 1, scheme |-> s, adapter |-> NoId]]
  BY DEF Begin
<1>2. kind \in Kinds
  BY ConstantsAssumption
<1>3. FirstLabel(kind) \in Labels
  BY <1>2 DEF FirstLabel, Labels, Kinds
<1>4. frame[t].n + 1 \in 1..MaxCalls
  BY ConstantsAssumption, Types DEF Begin, FrameType
<1>5. pc' \in [Threads -> Labels] /\ frame' \in [Threads -> FrameType] /\ CallNumbered'
  BY <1>1, <1>3, <1>4 DEF TypeInv, TypeOK, CallNumbered, FrameType, Goto, At
<1> QED
  BY <1>5 DEF Begin, TypeInv, TypeOK, FrameType

LEMMA ReadTyped ==
  ASSUME TypeInv, NEW t \in Threads, Read(t)
  PROVE  TypeInv'
<1>1. pc' \in [Threads -> Labels] /\ frame' \in [Threads -> FrameType] /\ CallNumbered'
  BY GotoTyped DEF Read, Labels, At
<1>2. Me(t) \in Ids
  BY Types DEF Read, At
<1>3. PICK rows \in RowKinds :
        /\ reads' = reads \cup {[by |-> Me(t), rows |-> rows, status |-> Status(rows),
                                 given |-> rows = "good"]}
        /\ leaked' = IF rows \in {"ragged", "unconvertible"} THEN leaked \cup {Me(t)} ELSE leaked
  BY DEF Read
<1>4. Status(rows) \in {0, -1} /\ (rows = "good") \in BOOLEAN /\ rows \in AllRowKinds
  BY ConstantsAssumption DEF Status
<1>5. [by |-> Me(t), rows |-> rows, status |-> Status(rows), given |-> rows = "good"] \in Reads
  BY <1>2, <1>4 DEF Reads
<1>6. reads' \subseteq Reads /\ leaked' \subseteq Ids
  BY <1>2, <1>3, <1>5 DEF TypeInv, TypeOK
<1> QED
  BY <1>1, <1>6 DEF Read, TypeInv, TypeOK, FrameType

LEMMA NextTyped ==
  ASSUME TypeInv, [Next]_vars
  PROVE  TypeInv'
<1>1. ASSUME NEW t \in Threads, Run(t)
      PROVE  TypeInv'
  <2> USE GotoTyped, Types DEF TypeInv, TypeOK, FrameType, Labels, At
  <2>1. CASE RegisterEnter(t)
    BY <2>1 DEF RegisterEnter
  <2>2. CASE RegisterReturn(t)
    BY <2>2 DEF RegisterReturn
  <2>3. CASE Record(t)
    BY <2>3 DEF Record
  <2>4. CASE UnregisterEnter(t)
    BY <2>4 DEF UnregisterEnter
  <2>5. CASE UnregisterReturn(t)
    BY <2>5 DEF UnregisterReturn
  <2>6. CASE Forget(t)
    BY <2>6 DEF Forget
  <2>7. CASE ReadEnter(t)
    <3>1. pc' \in [Threads -> Labels]
      BY <2>7 DEF ReadEnter, Goto
    <3>2. frame' \in [Threads -> FrameType] /\ CallNumbered'
      BY <2>7 DEF ReadEnter, Goto, CallNumbered
    <3> QED
      BY <2>7, <3>1, <3>2 DEF ReadEnter
  <2>8. CASE Validate(t)
    BY <2>8 DEF Validate
  <2>9. CASE Read(t)
    BY <2>9, ReadTyped
  <2> QED
    BY <1>1, <2>1, <2>2, <2>3, <2>4, <2>5, <2>6, <2>7, <2>8, <2>9 DEF Run
<1>2. CASE UNCHANGED vars
  BY <1>2 DEF vars, TypeInv, TypeOK, CallNumbered, At
<1> QED
  BY <1>1, <1>2, BeginTyped DEF Next, Finished

LEMMA AlwaysTyped == Spec => []TypeInv
<1>1. Init => TypeInv
  BY ConstantsAssumption DEF Init, TypeInv, TypeOK, CallNumbered, At, Labels
<1> QED
  BY <1>1, NextTyped, PTL DEF Spec

(* Type correctness, whatever wirelog does with a scheme that is taken. *)
THEOREM TypeCorrect == Spec => []TypeOK
BY AlwaysTyped, PTL DEF TypeInv

-----------------------------------------------------------------------------
(* The lock is held from the call into wirelog to the deletion. *)
LockHeld == \A t \in Threads : pc[t] \in {"in_unregister", "forget"} => lock = t

(* A registration wirelog has accepted and _REGISTRY has not recorded yet  *)
(* is the one wirelog has for its scheme.                                  *)
Recording == \A t \in Threads : At(t, "record") => adapters[Scheme(t)] = Me(t)

(* A thread inside wirelog_io_unregister_adapter takes away what _REGISTRY *)
(* has; when it is back, what _REGISTRY has is nothing wirelog knows.      *)
Unregistering ==
  \A t \in Threads :
    /\ pc[t] \in {"in_unregister", "forget"} => registry[Scheme(t)] # NoId
    /\ At(t, "in_unregister") => registry[Scheme(t)] = adapters[Scheme(t)]
    /\ At(t, "forget") => registry[Scheme(t)] # adapters[Scheme(t)]

(* Where the two tables differ, some thread is about to make them agree. *)
Agreement ==
  \A s \in Schemes :
    /\ adapters[s] \notin {NoId, registry[s]} => \E t \in Threads : At(t, "record") /\ Scheme(t) = s
    /\ registry[s] \notin {NoId, adapters[s]} => \E t \in Threads : At(t, "forget") /\ Scheme(t) = s

(* A registration in _REGISTRY is that of a call that is over ...          *)
Recorded ==
  \A t \in Threads, s \in Schemes : registry[s] = Me(t) => At(t, "idle")

(* ... and not of one that is still to come.                               *)
Numbered ==
  \A t \in Threads, s \in Schemes, k \in 1..MaxCalls :
    registry[s] = <<t, k>> => k <= frame[t].n

RegistryInv == LockHeld /\ Recording /\ Unregistering /\ Agreement /\ Recorded /\ Numbered

(* What wirelog is calling is what it has for the scheme. *)
CallsCurrent ==
  \A t \in Threads : pc[t] \in {"in_validate", "in_read"} =>
    frame[t].adapter = adapters[Scheme(t)] /\ adapters[Scheme(t)] # NoId

(* What RegistryInv sees of a step that leaves both tables and the lock    *)
(* alone: where its thread is.                                             *)
LEMMA TablesStay ==
  ASSUME TypeInv, RegistryInv, NEW t \in Threads, NEW label,
         UNCHANGED <<adapters, registry, lock>>, Goto(t, label),
         pc[t] \notin {"record", "in_unregister", "forget"},
         label \notin {"record", "in_unregister", "forget"},
         \A u \in Threads : Me(u)' = Me(u) /\ Scheme(u)' = Scheme(u) /\ frame'[u].n = frame[u].n,
         \A s \in Schemes : registry[s] # Me(t) \/ label = "idle"
  PROVE  RegistryInv'
<1> USE DEF RegistryInv, Goto, At, TypeInv, TypeOK
<1>1. LockHeld' /\ Recording' /\ Unregistering'
  BY DEF LockHeld, Recording, Unregistering
<1>2. Agreement'
  BY DEF Agreement
<1>3. Recorded' /\ Numbered'
  BY DEF Recorded, Numbered
<1> QED
  BY <1>1, <1>2, <1>3

(* A registration of a call that is not over is not in _REGISTRY. *)
LEMMA NotYetRecorded ==
  ASSUME RegistryInv, NEW t \in Threads, ~At(t, "idle"), NEW s \in Schemes
  PROVE  registry[s] # Me(t)
BY DEF RegistryInv, Recorded

LEMMA BeginKeeps ==
  ASSUME TypeInv, TypeInv', RegistryInv, NEW t \in Threads, Begin(t)
  PROVE  RegistryInv'
<1>1. PICK kind \in Calls[t], s \in Schemes :
        /\ Goto(t, FirstLabel(kind))
        /\ frame' = [frame EXCEPT ![t] = [n |-> @.n + 1, scheme |-> s, adapter |-> NoId]]
  BY DEF Begin
<1>2. FirstLabel(kind) \in {"register", "unregister", "read"}
  BY ConstantsAssumption DEF FirstLabel, Kinds
<1>3. frame'[t].n = frame[t].n + 1 /\ frame[t].n \in Nat /\ frame[t].n + 1 \in 1..MaxCalls
  BY <1>1, ConstantsAssumption DEF Begin, TypeInv, TypeOK
<1>4. \A u \in Threads \ {t} : pc'[u] = pc[u] /\ frame'[u] = frame[u]
  BY <1>1 DEF Goto, TypeInv, TypeOK
<1>5. pc'[t] \in {"register", "unregister", "read"} /\ pc[t] = "idle"
  BY <1>1, <1>2 DEF Goto, TypeInv, TypeOK, Begin, At
<1> USE DEF Begin, RegistryInv, At, Me, Scheme
<1>6. LockHeld' /\ Recording' /\ Unregistering'
  BY <1>4, <1>5 DEF LockHeld, Recording, Unregistering
<1>7. Agreement'
  BY <1>4, <1>5 DEF Agreement
<1>8. \A s0 \in Schemes : registry[s0] # <<t, frame[t].n + 1>>
  BY <1>3 DEF Numbered
<1>9. Recorded'
  BY <1>3, <1>4, <1>8 DEF Recorded
<1>10. Numbered'
  <2> SUFFICES ASSUME NEW u \in Threads, NEW s0 \in Schemes, NEW k \in 1..MaxCalls,
                      registry[s0] = <<u, k>>
               PROVE  k <= frame'[u].n
    BY DEF Numbered
  <2>1. k <= frame[u].n
    BY DEF Numbered
  <2> QED
    BY <1>3, <1>4, <2>1
<1> QED
  BY <1>6, <1>7, <1>9, <1>10

(* wirelog accepts a scheme that is free: nobody else is recording it, and *)
(* whoever is deleting it deletes another registration.                    *)
LEMMA RegisterReturnKeeps ==
  ASSUME TypeInv, RegistryInv, ~Replaces, NEW t \in Threads, RegisterReturn(t)
  PROVE  RegistryInv'
<1> USE DEF RegisterReturn, Goto, At
<1>1. CASE adapters' = [adapters EXCEPT ![Scheme(t)] = Me(t)] /\ pc' = [pc EXCEPT ![t] = "record"]
           /\ adapters[Scheme(t)] = NoId
  <2>1. Me(t) \in Ids /\ Me(t) # NoId /\ Scheme(t) \in Schemes
    BY Types, ConstantsAssumption
  <2>2. \A u \in Threads : Me(u)' = Me(u) /\ Scheme(u)' = Scheme(u)
    BY DEF Me, Scheme
  <2>3. adapters'[Scheme(t)] = Me(t) /\ \A s \in Schemes \ {Scheme(t)} : adapters'[s] = adapters[s]
    BY <1>1, <2>1 DEF TypeInv, TypeOK
  <2>4. pc'[t] = "record" /\ \A u \in Threads \ {t} : pc'[u] = pc[u]
    BY <1>1 DEF TypeInv, TypeOK
  <2>5. \A u \in Threads : Me(u) # NoId \/ At(u, "idle")
    BY Types, ConstantsAssumption
  <2>6. LockHeld'
    BY <2>4 DEF RegistryInv, LockHeld
  <2>7. Recording'
    BY <1>1, <2>2, <2>3, <2>4, <2>5, Types DEF RegistryInv, Recording
  <2>8. Unregistering'
    BY <1>1, <2>1, <2>2, <2>3, <2>4, NotYetRecorded, Types DEF RegistryInv, Unregistering
  <2>9. Agreement'
    <3> SUFFICES ASSUME NEW s \in Schemes
                 PROVE  /\ adapters'[s] \notin {NoId, registry[s]}
                           => \E u \in Threads : pc'[u] = "record" /\ Scheme(u) = s
                        /\ registry[s] \notin {NoId, adapters'[s]}
                           => \E u \in Threads : pc'[u] = "forget" /\ Scheme(u) = s
      BY <2>2 DEF Agreement
    <3>1. CASE s = Scheme(t)
      BY <1>1, <2>3, <2>4, <3>1 DEF RegistryInv, Agreement
    <3>2. CASE s # Scheme(t)
      BY <2>3, <2>4, <3>2 DEF RegistryInv, Agreement
    <3> QED
      BY <3>1, <3>2
  <2>10. Recorded' /\ Numbered'
    BY <2>2, <2>4, NotYetRecorded DEF RegistryInv, Recorded, Numbered
  <2> QED
    BY <2>6, <2>7, <2>8, <2>9, <2>10 DEF RegistryInv
<1>2. CASE Goto(t, "idle") /\ UNCHANGED adapters
  BY <1>2, TablesStay DEF Me, Scheme
<1> QED
  BY <1>1, <1>2

(* _REGISTRY records what wirelog has. *)
LEMMA RecordKeeps ==
  ASSUME TypeInv, RegistryInv, NEW t \in Threads, Record(t)
  PROVE  RegistryInv'
<1> USE DEF Record, Goto, At
<1>1. Me(t) \in Ids /\ Me(t) # NoId /\ Scheme(t) \in Schemes /\ adapters[Scheme(t)] = Me(t)
  BY Types, ConstantsAssumption DEF RegistryInv, Recording
<1>2. \A u \in Threads : Me(u)' = Me(u) /\ Scheme(u)' = Scheme(u) /\ frame'[u].n = frame[u].n
  BY DEF Me, Scheme
<1>3. registry'[Scheme(t)] = Me(t) /\ \A s \in Schemes \ {Scheme(t)} : registry'[s] = registry[s]
  BY <1>1 DEF TypeInv, TypeOK
<1>4. pc'[t] = "idle" /\ \A u \in Threads \ {t} : pc'[u] = pc[u]
  BY DEF TypeInv, TypeOK
<1>5. \A u \in Threads : pc[u] \notin {"in_unregister", "forget"}
  BY ConstantsAssumption DEF RegistryInv, LockHeld
<1>6. LockHeld' /\ Unregistering'
  BY <1>4, <1>5 DEF LockHeld, Unregistering
<1>7. Recording'
  BY <1>2, <1>4 DEF RegistryInv, Recording
<1>8. Agreement'
  <2> SUFFICES ASSUME NEW s \in Schemes, s # Scheme(t)
               PROVE  /\ adapters[s] \notin {NoId, registry[s]}
                         => \E u \in Threads : pc'[u] = "record" /\ Scheme(u) = s
                      /\ registry[s] \in {NoId, adapters[s]}
    BY <1>1, <1>2, <1>3 DEF Agreement
  <2> QED
    BY <1>4, <1>5 DEF RegistryInv, Agreement
<1>9. \A u \in Threads : Me(u) = Me(t) => u = t
  BY DEF Me
<1>10. Recorded'
  BY <1>2, <1>3, <1>4, <1>9 DEF RegistryInv, Recorded
<1>11. Numbered'
  <2>1. Me(t) = <<t, frame[t].n>> /\ frame[t].n \in Nat
    BY DEF Me, TypeInv, TypeOK
  <2> QED
    BY <1>2, <1>3, <2>1 DEF RegistryInv, Numbered
<1> QED
  BY <1>6, <1>7, <1>8, <1>10, <1>11 DEF RegistryInv

(* unregister_adapter goes on with a scheme both tables have. *)
LEMMA UnregisterEnterKeeps ==
  ASSUME TypeInv, RegistryInv, NEW t \in Threads, UnregisterEnter(t)
  PROVE  RegistryInv'
<1> USE DEF UnregisterEnter, At
<1>1. CASE registry[Scheme(t)] = NoId
  BY <1>1, TablesStay DEF Me, Scheme
<1>2. CASE registry[Scheme(t)] # NoId
  <2>1. Scheme(t) \in Schemes
    BY Types
  <2>2. \A u \in Threads : Me(u)' = Me(u) /\ Scheme(u)' = Scheme(u) /\ frame'[u].n = frame[u].n
    BY DEF Me, Scheme
  <2>3. pc'[t] = "in_unregister" /\ lock' = t /\ \A u \in Threads \ {t} : pc'[u] = pc[u]
    BY <1>2 DEF Goto, TypeInv, TypeOK
  <2>4. \A u \in Threads : pc[u] \notin {"in_unregister", "forget"}
    BY ConstantsAssumption DEF RegistryInv, LockHeld
  <2>5. registry[Scheme(t)] = adapters[Scheme(t)]
    BY <1>2, <2>1, <2>4 DEF RegistryInv, Agreement
  <2>6. LockHeld' /\ Unregistering'
    BY <1>2, <2>2, <2>3, <2>4, <2>5 DEF LockHeld, Unregistering
  <2>7. Recording' /\ Agreement' /\ Recorded' /\ Numbered'
    BY <2>2, <2>3, NotYetRecorded DEF RegistryInv, Recording, Agreement, Recorded, Numbered
  <2> QED
    BY <2>6, <2>7 DEF RegistryInv
<1> QED
  BY <1>1, <1>2

(* wirelog has dropped the scheme, or has refused to. *)
LEMMA UnregisterReturnKeeps ==
  ASSUME TypeInv, RegistryInv, NEW t \in Threads, UnregisterReturn(t)
  PROVE  RegistryInv'
<1>1. /\ Scheme(t) \in Schemes
      /\ registry[Scheme(t)] # NoId /\ registry[Scheme(t)] = adapters[Scheme(t)]
  BY Types DEF UnregisterReturn, RegistryInv, Unregistering, At
<1>2. \A u \in Threads : Me(u)' = Me(u) /\ Scheme(u)' = Scheme(u) /\ frame'[u].n = frame[u].n
  BY DEF UnregisterReturn, Me, Scheme
<1>3. \A u \in Threads \ {t} : pc'[u] = pc[u] /\ pc[u] \notin {"in_unregister", "forget"}
  BY DEF UnregisterReturn, Goto, At, TypeInv, TypeOK, RegistryInv, LockHeld
<1>4. \A s \in Schemes : registry[s] # Me(t)
  BY NotYetRecorded DEF UnregisterReturn, At
<1>5. pc'[t] \in {"idle", "forget"} /\ registry' = registry
  BY DEF UnregisterReturn, Goto, TypeInv, TypeOK
<1>6. Recorded' /\ Numbered'
  BY <1>2, <1>3, <1>4, <1>5 DEF RegistryInv, Recorded, Numbered, At
<1>7. \A u \in Threads : At(u, "record") => Scheme(u) # Scheme(t)
  BY <1>1, NotYetRecorded DEF RegistryInv, Recording, At
<1>8. CASE pc'[t] = "forget" /\ adapters' = [adapters EXCEPT ![Scheme(t)] = NoId] /\ lock' = lock
  <2>1. adapters'[Scheme(t)] = NoId /\ \A s \in Schemes \ {Scheme(t)} : adapters'[s] = adapters[s]
    BY <1>1, <1>8 DEF TypeInv, TypeOK
  <2>2. LockHeld' /\ Unregistering'
    BY <1>1, <1>2, <1>3, <1>5, <1>8, <2>1
    DEF RegistryInv, LockHeld, Unregistering, At, UnregisterReturn
  <2>3. Recording'
    BY <1>2, <1>3, <1>7, <1>8, <2>1, Types DEF RegistryInv, Recording, At
  <2>4. Agreement'
    BY <1>2, <1>3, <1>5, <1>7, <1>8, <2>1 DEF RegistryInv, Agreement, At, UnregisterReturn
  <2> QED
    BY <1>6, <2>2, <2>3, <2>4 DEF RegistryInv
<1>9. CASE pc'[t] = "idle" /\ adapters' = adapters
  <2>1. LockHeld' /\ Unregistering'
    BY <1>3, <1>9 DEF LockHeld, Unregistering, At
  <2>2. Recording'
    BY <1>2, <1>3, <1>9 DEF RegistryInv, Recording, At
  <2>3. Agreement'
    BY <1>2, <1>3, <1>5, <1>9 DEF RegistryInv, Agreement, At, UnregisterReturn
  <2> QED
    BY <1>6, <2>1, <2>2, <2>3 DEF RegistryInv
<1> QED
  BY <1>8, <1>9 DEF UnregisterReturn, Goto, TypeInv, TypeOK

(* What is deleted from _REGISTRY is not what wirelog has. *)
LEMMA ForgetKeeps ==
  ASSUME TypeInv, RegistryInv, NEW t \in Threads, Forget(t)
  PROVE  RegistryInv'
<1>1. Scheme(t) \in Schemes /\ registry[Scheme(t)] # adapters[Scheme(t)]
  BY Types DEF Forget, RegistryInv, Unregistering, At
<1>2. \A u \in Threads : Me(u)' = Me(u) /\ Scheme(u)' = Scheme(u) /\ frame'[u].n = frame[u].n
  BY DEF Forget, Me, Scheme
<1>3. registry'[Scheme(t)] = NoId /\ \A s \in Schemes \ {Scheme(t)} : registry'[s] = registry[s]
  BY <1>1 DEF Forget, TypeInv, TypeOK
<1>4. pc'[t] = "idle" /\ \A u \in Threads \ {t} : pc'[u] = pc[u]
  BY DEF Forget, Goto, TypeInv, TypeOK
<1>5. \A u \in Threads \ {t} : pc[u] \notin {"in_unregister", "forget"}
  BY DEF Forget, At, RegistryInv, LockHeld
<1>6. LockHeld' /\ Unregistering'
  BY <1>4, <1>5 DEF LockHeld, Unregistering, At
<1>7. Recording'
  BY <1>2, <1>4 DEF Forget, RegistryInv, Recording, At
<1>8. Agreement'
  BY <1>1, <1>2, <1>3, <1>4, <1>5 DEF Forget, RegistryInv, Agreement, At
<1>9. \A u \in Threads : Me(u) # NoId \/ At(u, "idle")
  BY Types, ConstantsAssumption
<1>10. Recorded'
  BY <1>2, <1>3, <1>4, <1>9 DEF Forget, RegistryInv, Recorded, At
<1>11. Numbered'
  <2>1. \A u \in Threads, k \in 1..MaxCalls : <<u, k>> # NoId
    BY ConstantsAssumption DEF Ids
  <2> QED
    BY <1>2, <1>3, <2>1 DEF RegistryInv, Numbered
<1> QED
  BY <1>6, <1>7, <1>8, <1>10, <1>11 DEF RegistryInv

LEMMA NextKeeps ==
  ASSUME TypeInv, TypeInv', RegistryInv, ~Replaces, [Next]_vars
  PROVE  RegistryInv'
<1>1. ASSUME NEW t \in Threads, Run(t)
      PROVE  RegistryInv'
  <2>1. CASE RegisterEnter(t)
    BY <2>1, TablesStay, NotYetRecorded DEF RegisterEnter, Me, Scheme, At
  <2>2. CASE ReadEnter(t)
    <3>1. \A u \in Threads : frame'[u].n = frame[u].n /\ frame'[u].scheme = frame[u].scheme
      BY <2>2 DEF ReadEnter, TypeInv, TypeOK
    <3>2. \A s \in Schemes : registry[s] # Me(t)
      BY <2>2, NotYetRecorded DEF ReadEnter, At
    <3> QED
      BY <2>2, <3>1, <3>2, TablesStay DEF ReadEnter, Me, Scheme, At
  <2>3. CASE Validate(t)
    BY <2>3, TablesStay, NotYetRecorded DEF Validate, Me, Scheme, At
  <2>4. CASE Read(t)
    BY <2>4, TablesStay DEF Read, Me, Scheme, At
  <2> QED
    BY <1>1, <2>1, <2>2, <2>3, <2>4, RegisterReturnKeeps, RecordKeeps, UnregisterEnterKeeps,
       UnregisterReturnKeeps, ForgetKeeps DEF Run
<1>2. CASE UNCHANGED vars
  BY <1>2 DEF vars, RegistryInv, LockHeld, Recording, Unregistering, Agreement, Recorded, Numbered,
              At, Me, Scheme
<1> QED
  BY <1>1, <1>2, BeginKeeps DEF Next, Finished

(* The two tables, as long as wirelog refuses a scheme that is taken:      *)
(* where they differ, some thread is about to make them agree, although    *)
(* register_adapter calls wirelog before it takes the lock.                *)
THEOREM RegistryDiscipline == ASSUME ~Replaces PROVE Spec => []RegistryInv
<1>1. Init => RegistryInv
  BY ConstantsAssumption DEF Init, RegistryInv, LockHeld, Recording, Unregistering, Agreement,
     Recorded, Numbered, At, Me, Ids
<1>2. TypeInv /\ TypeInv' /\ RegistryInv /\ [Next]_vars => RegistryInv'
  BY NextKeeps
<1> QED
  BY <1>1, <1>2, AlwaysTyped, PTL DEF Spec

(* The module docstring of io_adapter.py: wirelog never has a pointer to   *)
(* an adapter whose trampolines may be collected.                          *)
THEOREM KeptAlive == ASSUME ~Replaces PROVE Spec => []AdaptersKeptAlive
<1>1. RegistryInv => AdaptersKeptAlive
  <2> SUFFICES ASSUME RegistryInv, NEW s \in Schemes, adapters[s] # NoId
               PROVE  Alive(adapters[s])
    BY DEF AdaptersKeptAlive
  <2>1. CASE registry[s] = adapters[s]
    BY <2>1 DEF Alive
  <2>2. CASE registry[s] # adapters[s]
    <3>1. PICK t \in Threads : At(t, "record") /\ Scheme(t) = s
      BY <2>2 DEF RegistryInv, Agreement
    <3> QED
      BY <3>1 DEF RegistryInv, Recording, Alive, At
  <2> QED
    BY <2>1, <2>2
<1> QED
  BY <1>1, RegistryDiscipline, PTL

(* When nobody is inside a call, _REGISTRY and wirelog agree. *)
THEOREM Agree == ASSUME ~Replaces PROVE Spec => []RegistriesAgree
<1>1. TypeInv /\ RegistryInv => RegistriesAgree
  <2> SUFFICES ASSUME TypeInv, RegistryInv, \A t \in Threads : At(t, "idle")
               PROVE  registry = adapters
    BY DEF RegistriesAgree
  <2>1. \A s \in Schemes : /\ adapters[s] \in {NoId, registry[s]}
                          /\ registry[s] \in {NoId, adapters[s]}
    BY DEF RegistryInv, Agreement, At
  <2>2. \A s \in Schemes : registry[s] = adapters[s]
    BY <2>1
  <2> QED
    BY <2>2 DEF TypeInv, TypeOK
<1> QED
  BY <1>1, AlwaysTyped, RegistryDiscipline, PTL

(* An adapter wirelog is calling stays the one it has for the scheme, for  *)
(* it may be neither replaced nor unregistered.                            *)
LEMMA CallsStayCurrent ==
  ASSUME TypeInv, CallsCurrent, ~Replaces, Pins, [Next]_vars
  PROVE  CallsCurrent'
<1> USE DEF At, Goto, TypeInv, TypeOK
<1>1. ASSUME NEW t \in Threads, Begin(t)
      PROVE  CallsCurrent'
  <2>1. pc'[t] \notin {"in_validate", "in_read"}
    BY <1>1, ConstantsAssumption DEF Begin, FirstLabel, Kinds
  <2>2. \A u \in Threads \ {t} : pc'[u] = pc[u] /\ frame'[u] = frame[u]
    BY <1>1 DEF Begin
  <2> QED
    BY <1>1, <2>1, <2>2 DEF Begin, CallsCurrent, Scheme
<1>2. ASSUME NEW t \in Threads, RegisterReturn(t)
      PROVE  CallsCurrent'
  <2>1. \A u \in Threads : pc'[u] \in {"in_validate", "in_read"} => pc'[u] = pc[u]
    BY <1>2 DEF RegisterReturn
  <2>2. \A s \in Schemes : adapters[s] # NoId => adapters'[s] = adapters[s]
    BY <1>2 DEF RegisterReturn
  <2> QED
    BY <1>2, <2>1, <2>2, Types DEF RegisterReturn, CallsCurrent, Scheme
<1>3. ASSUME NEW t \in Threads, UnregisterReturn(t)
      PROVE  CallsCurrent'
  <2>1. \A u \in Threads : pc'[u] \in {"in_validate", "in_read"} => pc'[u] = pc[u]
    BY <1>3 DEF UnregisterReturn
  <2>2. \A u \in Threads :
          pc[u] \in {"in_validate", "in_read"} => adapters'[Scheme(u)] = adapters[Scheme(u)]
    BY <1>3, Types DEF UnregisterReturn, Calling, CallsCurrent
  <2> QED
    BY <1>3, <2>1, <2>2 DEF UnregisterReturn, CallsCurrent, Scheme
<1>4. ASSUME NEW t \in Threads, ReadEnter(t)
      PROVE  CallsCurrent'
  <2>1. \A u \in Threads \ {t} : pc'[u] = pc[u] /\ frame'[u] = frame[u]
    BY <1>4 DEF ReadEnter
  <2>2. CASE adapters[Scheme(t)] = NoId
    BY <1>4, <2>1, <2>2 DEF ReadEnter, CallsCurrent, Scheme
  <2>3. CASE adapters[Scheme(t)] # NoId
    <3>1. frame'[t].adapter = adapters[Scheme(t)] /\ Scheme(t)' = Scheme(t)
      BY <1>4, <2>3 DEF ReadEnter, Scheme
    <3> QED
      BY <1>4, <2>1, <2>3, <3>1 DEF ReadEnter, CallsCurrent, Scheme
  <2> QED
    BY <2>2, <2>3
<1>5. ASSUME NEW t \in Threads,
             \/ RegisterEnter(t) \/ Record(t) \/ UnregisterEnter(t) \/ Forget(t)
             \/ Validate(t) \/ Read(t)
      PROVE  CallsCurrent'
  <2>1. UNCHANGED <<adapters, frame>>
    BY <1>5 DEF RegisterEnter, Record, UnregisterEnter, Forget, Validate, Read
  <2>2. \A u \in Threads :
          pc'[u] \in {"in_validate", "in_read"} => pc[u] \in {"in_validate", "in_read"}
    BY <1>5 DEF RegisterEnter, Record, UnregisterEnter, Forget, Validate, Read
  <2> QED
    BY <2>1, <2>2 DEF CallsCurrent, Scheme
<1>6. CASE UNCHANGED vars
  BY <1>6 DEF vars, CallsCurrent, Scheme
<1> QED
  BY <1>1, <1>2, <1>3, <1>4, <1>5, <1>6 DEF Next, Finished, Run

(* wirelog is never inside a trampoline Python may have collected, as long *)
(* as it refuses to unregister an adapter it is calling.                   *)
THEOREM CallsAlive == ASSUME ~Replaces, Pins PROVE Spec => []NoCallIntoCollected
<1>1. Init => CallsCurrent
  BY DEF Init, CallsCurrent
<1>2. TypeInv /\ CallsCurrent /\ [Next]_vars => CallsCurrent'
  BY CallsStayCurrent
<1>3. TypeInv /\ CallsCurrent /\ AdaptersKeptAlive => NoCallIntoCollected
  BY Types DEF CallsCurrent, AdaptersKeptAlive, NoCallIntoCollected
<1> QED
  BY <1>1, <1>2, <1>3, AlwaysTyped, KeptAlive, PTL DEF Spec

-----------------------------------------------------------------------------
(* No read that failed is taken for an empty relation and no part of one   *)
(* for the whole, if every value converts.  Where int(v) can raise the     *)
(* property is false: ctypes returns 0 for the callback.                   *)
THEOREM ReadsReported ==
  ASSUME "unconvertible" \notin RowKinds PROVE Spec => []FailedReadsReported
<1>1. Init => FailedReadsReported
  BY DEF Init, FailedReadsReported
<1>2. FailedReadsReported /\ [Next]_vars => FailedReadsReported'
  <2> SUFFICES ASSUME FailedReadsReported, [Next]_vars
               PROVE  FailedReadsReported'
    OBVIOUS
  <2>1. ASSUME NEW t \in Threads, Read(t)
        PROVE  FailedReadsReported'
    <3>1. PICK rows \in RowKinds :
            reads' = reads \cup {[by |-> Me(t), rows |-> rows, status |-> Status(rows),
                                  given |-> rows = "good"]}
      BY <2>1 DEF Read
    <3>2. rows \in AllRowKinds \ {"unconvertible"}
      BY <3>1, ConstantsAssumption
    <3>3. Status(rows) = 0 => rows \in {"empty", "good"}
      BY <3>2 DEF AllRowKinds, Status
    <3>4. \A r \in reads' \ reads : r.status = Status(rows) /\ r.rows = rows /\ r.given = (rows = "good")
      BY <3>1
    <3>5. \A r \in reads' \ reads : (r.status = 0 => r.rows \in {"empty", "good"})
                                 /\ (r.given => r.rows = "good")
      BY <3>3, <3>4
    <3> QED
      BY <3>5 DEF FailedReadsReported
  <2>2. ASSUME reads' = reads
        PROVE  FailedReadsReported'
    BY <2>2 DEF FailedReadsReported
  <2>3. ASSUME NEW t \in Threads, Begin(t) \/ (Run(t) /\ ~Read(t))
        PROVE  reads' = reads
    BY <2>3 DEF Begin, Run, RegisterEnter, RegisterReturn, Record, UnregisterEnter,
                UnregisterReturn, Forget, ReadEnter, Validate
  <2>4. UNCHANGED vars => reads' = reads
    BY DEF vars
  <2> QED
    BY <2>1, <2>2, <2>3, <2>4 DEF Next, Finished
<1> QED
  BY <1>1, <1>2, PTL DEF Spec
================================================================================
