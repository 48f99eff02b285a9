--------------------------- MODULE AsyncProxy_proofs ---------------------------
(***************************************************************************)
(* What the proxies' modules need to know of AsyncProxy, proved of its     *)
(* actions one by one, for any kinds of jobs and labels: every job is in   *)
(* one place (the queue, the worker, the outcomes); the job of __aenter__  *)
(* is over before there is any other one; once the pool is closed and      *)
(* nobody waits in aclose, it is quiet for good.                           *)
(***************************************************************************)
EXTENDS AsyncProxy, SequenceTheorems, TLAPS

LEMMA IdsMembers ==
  /\ \A t \in Tasks, k \in Nat \ {0} : k <= MaxCalls[t] => <<t, k>> \in Ids
  /\ \A id \in Ids : id = <<id[1], id[2]>> /\ id[1] \in Tasks /\ id[2] \in 1..MaxCalls[id[1]]
BY ProxyAssumption DEF Ids

(* Sequences from which the element at i is taken out. *)
LEMMA RemoveAtProperties ==
  ASSUME NEW S, NEW q \in Seq(S), NEW i \in 1..Len(q)
  PROVE  /\ RemoveAt(q, i) \in Seq(S) /\ Len(RemoveAt(q, i)) = Len(q) - 1
         /\ \A j \in 1..Len(q) - 1 : RemoveAt(q, i)[j] = IF j < i THEN q[j] ELSE q[j + 1]
<1> DEFINE before == SubSeq(q, 1, i - 1)
           after == SubSeq(q, i + 1, Len(q))
<1>1. Len(q) \in Nat /\ \A j \in 1..Len(q) : q[j] \in S
  BY LenProperties, ElementOfSeq
<1>2. /\ before \in Seq(S) /\ Len(before) = i - 1
      /\ \A j \in 1..i - 1 : before[j] = q[j]
  <2>1. /\ before \in Seq(S) /\ Len(before) = IF 1 <= i - 1 THEN (i - 1) - 1 + 1 ELSE 0
        /\ \A j \in 1..(i - 1) - 1 + 1 : before[j] = q[1 + j - 1]
    <3>1. \A j \in 1..i - 1 : q[j] \in S
      BY <1>1
    <3> HIDE DEF before
    <3> QED
      BY <1>1, <3>1, SubSeqProperties DEF before
  <2> HIDE DEF before
  <2> QED
    BY <1>1, <2>1
<1>3. /\ after \in Seq(S) /\ Len(after) = Len(q) - i
      /\ \A j \in 1..Len(q) - i : after[j] = q[i + j]
  <2>1. /\ after \in Seq(S) /\ Len(after) = IF i + 1 <= Len(q) THEN Len(q) - (i + 1) + 1 ELSE 0
        /\ \A j \in 1..Len(q) - (i + 1) + 1 : after[j] = q[(i + 1) + j - 1]
    <3>1. \A j \in i + 1..Len(q) : q[j] \in S
      BY <1>1
    <3> HIDE DEF after
    <3> QED
      BY <1>1, <3>1, SubSeqProperties DEF after
  <2> HIDE DEF after
  <2> QED
    BY <1>1, <2>1
<1> HIDE DEF before, after
<1>4. /\ before \o after \in Seq(S) /\ Len(before \o after) = Len(before) + Len(after)
      /\ \A j \in 1..Len(before) + Len(after) :
           (before \o after)[j] = IF j <= Len(before) THEN before[j] ELSE after[j - Len(before)]
  BY <1>2, <1>3, ConcatProperties
<1>5. RemoveAt(q, i) = before \o after
  BY DEF RemoveAt, before, after
<1>6. ASSUME NEW j \in 1..Len(q) - 1
      PROVE  (before \o after)[j] = IF j < i THEN q[j] ELSE q[j + 1]
  <2>1. CASE j < i
    BY <1>1, <1>2, <1>3, <1>4, <2>1
  <2>2. CASE ~(j < i)
    <3>1. (before \o after)[j] = after[j - (i - 1)]
      BY <1>1, <1>2, <1>3, <1>4, <2>2
    <3>2. j - (i - 1) \in 1..Len(q) - i /\ i + (j - (i - 1)) = j + 1
      BY <1>1, <2>2
    <3> QED
      BY <1>3, <2>2, <3>1, <3>2
  <2> QED
    BY <2>1, <2>2
<1>7. Len(before \o after) = Len(q) - 1
  BY <1>1, <1>2, <1>3, <1>4
<1> QED
  BY <1>4, <1>5, <1>6, <1>7

-----------------------------------------------------------------------------
(* A job is in the queue, with the worker, or an outcome nobody has taken. *)
InQueue(id, kind) == \E i \in 1..Len(queue) : queue[i].id = id /\ queue[i].kind = kind
AtWork(id, kind) == worker.at # "idle" /\ worker.job = id /\ worker.kind = kind
AsOutcome(id, kind) == \E o \in done : o.id = id /\ o.kind = kind
Somewhere(id, kind) == InQueue(id, kind) \/ AtWork(id, kind) \/ AsOutcome(id, kind)

(* It is in one of the three places, once. *)
OnceEach ==
  /\ \A i, j \in 1..Len(queue) : queue[i].id = queue[j].id => i = j
  /\ worker.at # "idle" =>
       /\ worker.job # NoJob
       /\ \A i \in 1..Len(queue) : queue[i].id # worker.job
       /\ \A o \in done : o.id # worker.job
  /\ \A o \in done : \A i \in 1..Len(queue) : queue[i].id # o.id
  /\ \A o, p \in done : o.id = p.id => o = p

(* Its task has counted it. *)
Submitted(K) == \A id \in Ids, kind \in K : Somewhere(id, kind) => id[2] <= n[id[1]]

JobType(K) == [id : Ids, kind : K]
OutcomeType(K) == [id : Ids, kind : K, ok : BOOLEAN]

(* What of ProxyTypeOK is about jobs: as K is the set of their kinds, a    *)
(* statement with one parameter.                                           *)
JobsOK(K) ==
  /\ queue \in Seq(JobType(K)) /\ done \subseteq OutcomeType(K)
  /\ worker.job \in Ids \cup {NoJob} /\ worker.kind \in K
  /\ \A t \in Tasks : n[t] \in 0..MaxCalls[t]
  /\ OnceEach /\ Submitted(K)

LEMMA Places ==
  ASSUME NEW K, JobsOK(K)
  PROVE  /\ Len(queue) \in Nat
         /\ \A i \in 1..Len(queue) : /\ queue[i] \in JobType(K) /\ queue[i].id \in Ids
                                     /\ Somewhere(queue[i].id, queue[i].kind)
         /\ worker.at # "idle" => worker.job \in Ids /\ Somewhere(worker.job, worker.kind)
         /\ \A o \in done : /\ o \in OutcomeType(K) /\ o.id \in Ids
                            /\ Somewhere(o.id, o.kind)
         /\ \A id, kind : Somewhere(id, kind) => id \in Ids /\ kind \in K
<1>1. Len(queue) \in Nat /\ \A i \in 1..Len(queue) : queue[i] \in JobType(K)
  BY LenProperties, ElementOfSeq DEF JobsOK
<1>2. worker.at # "idle" => worker.job \in Ids
  BY DEF JobsOK, OnceEach
<1>3. \A o \in done : o \in OutcomeType(K)
  BY DEF JobsOK
<1> QED
  BY <1>1, <1>2, <1>3 DEF Somewhere, InQueue, AtWork, AsOutcome, JobType, OutcomeType, JobsOK

LEMMA Numbers ==
  ASSUME NEW K, JobsOK(K), NEW t \in Tasks
  PROVE  n[t] \in Nat /\ MaxCalls[t] \in Nat /\ n[t] <= MaxCalls[t]
<1>1. n[t] \in 0..MaxCalls[t]
  BY DEF JobsOK
<1>2. MaxCalls[t] \in Nat
  BY ProxyAssumption
<1> QED
  BY <1>1, <1>2

(* The number of the next job of a task is that of no job. *)
LEMMA NextIsNew ==
  ASSUME NEW K, JobsOK(K), NEW t \in Tasks
  PROVE  \A id, kind : Somewhere(id, kind) => id # <<t, n[t] + 1>>
<1>1. n[t] \in Nat
  BY Numbers
<1>2. ASSUME NEW id, NEW kind, Somewhere(id, kind), id = <<t, n[t] + 1>>
      PROVE  FALSE
  <2>1. id \in Ids /\ kind \in K
    BY <1>2, Places
  <2>2. id[1] = t /\ id[2] = n[t] + 1
    BY <1>2
  <2>3. id[2] <= n[id[1]]
    BY <1>2, <2>1 DEF JobsOK, Submitted
  <2> QED
    BY <1>1, <2>2, <2>3
<1> QED
  BY <1>2

(* The ways in which jobs move. *)
Added(t, kind) ==
  /\ n' = [n EXCEPT ![t] = @ + 1] /\ n[t] < MaxCalls[t] /\ UNCHANGED poolVars
  /\ queue' = Append(queue, [id |-> <<t, n[t] + 1>>, kind |-> kind])
Counted(t) == n' = [n EXCEPT ![t] = @ + 1] /\ n[t] < MaxCalls[t] /\ UNCHANGED <<poolVars, queue>>
Withdrawn(i) == queue' = RemoveAt(queue, i) /\ UNCHANGED <<poolVars, n>>
Taken == \E o \in done : done' = done \ {o} /\ UNCHANGED <<queue, worker, n>>

LEMMA NumbersStay ==
  ASSUME NEW K, JobsOK(K), DOMAIN n = Tasks, NEW t \in Tasks,
         n' = [n EXCEPT ![t] = @ + 1], n[t] < MaxCalls[t]
  PROVE  /\ DOMAIN n' = Tasks /\ \A u \in Tasks : n'[u] \in 0..MaxCalls[u]
         /\ n'[t] = n[t] + 1 /\ \A u \in Tasks \ {t} : n'[u] = n[u]
         /\ \A u \in Tasks : n[u] <= n'[u]
<1>1. n'[t] = n[t] + 1 /\ (\A u \in Tasks \ {t} : n'[u] = n[u]) /\ DOMAIN n' = Tasks
  OBVIOUS
<1>2. \A u \in Tasks : n[u] \in 0..MaxCalls[u] /\ MaxCalls[u] \in Nat
  BY ProxyAssumption DEF JobsOK
<1> QED
  BY <1>1, <1>2

LEMMA AddedOK ==
  ASSUME NEW K, JobsOK(K), DOMAIN n = Tasks, NEW t \in Tasks, NEW kind \in K, Added(t, kind)
  PROVE  /\ JobsOK(K)'
         /\ \A id, k : InQueue(id, k)' <=> InQueue(id, k) \/ (id = <<t, n[t] + 1>> /\ k = kind)
<1> DEFINE job == [id |-> <<t, n[t] + 1>>, kind |-> kind]
<1>1. n[t] \in Nat /\ n[t] + 1 \in 1..MaxCalls[t] /\ <<t, n[t] + 1>> \in Ids
  <2>1. n[t] \in Nat /\ MaxCalls[t] \in Nat /\ n[t] < MaxCalls[t]
    BY Numbers DEF Added
  <2>2. n[t] + 1 \in 1..MaxCalls[t]
    BY <2>1
  <2> QED
    BY <2>1, <2>2, IdsMembers
<1>2. job \in JobType(K)
  BY <1>1 DEF JobType
<1> HIDE DEF job
<1>3. /\ queue' \in Seq(JobType(K)) /\ Len(queue') = Len(queue) + 1
      /\ \A i \in 1..Len(queue) : queue'[i] = queue[i]
      /\ queue'[Len(queue) + 1] = job
  BY <1>2, AppendProperties DEF Added, JobsOK, job
<1>4. UNCHANGED <<worker, done>> /\ job.id = <<t, n[t] + 1>> /\ job.kind = kind
  BY DEF Added, poolVars, job
<1>5. Len(queue) \in Nat
  BY Places
<1>6. \A id, k : InQueue(id, k)' <=> InQueue(id, k) \/ (id = <<t, n[t] + 1>> /\ k = kind)
  <2>1. \A i \in 1..Len(queue') : i \in 1..Len(queue) \/ i = Len(queue) + 1
    BY <1>3, <1>5
  <2>2. Len(queue) + 1 \in 1..Len(queue') /\ \A i \in 1..Len(queue) : i \in 1..Len(queue')
    BY <1>3, <1>5
  <2> QED
    BY <1>3, <1>4, <2>1, <2>2 DEF InQueue
<1>10. \A id, k : Somewhere(id, k)' => Somewhere(id, k) \/ id = <<t, n[t] + 1>>
  <2>1. \A id, k : (AtWork(id, k)' <=> AtWork(id, k)) /\ (AsOutcome(id, k)' <=> AsOutcome(id, k))
    BY <1>4 DEF AtWork, AsOutcome
  <2> QED
    BY <1>6, <2>1 DEF Somewhere
<1>7. OnceEach'
  <2>1. \A i \in 1..Len(queue) : queue[i].id # job.id
    BY <1>4, Places, NextIsNew
  <2>2. worker.at # "idle" => worker.job # job.id
    BY <1>4, Places, NextIsNew
  <2>3. \A o \in done : o.id # job.id
    BY <1>4, Places, NextIsNew
  <2>4. \A i \in 1..Len(queue') : i \in 1..Len(queue) \/ i = Len(queue) + 1
    BY <1>3, <1>5
  <2>5. \A i, j \in 1..Len(queue') : queue'[i].id = queue'[j].id => i = j
    <3>1. \A i, j \in 1..Len(queue) : queue[i].id = queue[j].id => i = j
      BY DEF JobsOK, OnceEach
    <3> QED
      BY <1>3, <1>5, <2>1, <2>4, <3>1
  <2>6. ASSUME NEW i \in 1..Len(queue'), NEW id, id # job.id,
               \A j \in 1..Len(queue) : queue[j].id # id
        PROVE  queue'[i].id # id
    BY <1>3, <2>4, <2>6
  <2>7. worker.at # "idle" =>
          /\ worker.job # NoJob
          /\ \A i \in 1..Len(queue) : queue[i].id # worker.job
          /\ \A o \in done : o.id # worker.job
    BY DEF JobsOK, OnceEach
  <2>8. /\ \A o \in done : \A i \in 1..Len(queue) : queue[i].id # o.id
        /\ \A o, p \in done : o.id = p.id => o = p
    BY DEF JobsOK, OnceEach
  <2>9. worker' = worker /\ done' = done
    BY <1>4
  <2>10. worker'.at # "idle" =>
           /\ worker'.job # NoJob
           /\ \A i \in 1..Len(queue') : queue'[i].id # worker'.job
           /\ \A o \in done' : o.id # worker'.job
    BY <2>2, <2>6, <2>7, <2>9
  <2>11. \A o \in done' : \A i \in 1..Len(queue') : queue'[i].id # o.id
    BY <2>3, <2>6, <2>8, <2>9
  <2> QED
    BY <2>5, <2>8, <2>9, <2>10, <2>11 DEF OnceEach
<1>8. Submitted(K)'
  <2>1. ASSUME NEW id \in Ids, NEW k \in K, Somewhere(id, k)'
        PROVE  id[2] <= n'[id[1]]
    <3>1. CASE Somewhere(id, k)
      <4>1. id[2] <= n[id[1]] /\ n[id[1]] <= n'[id[1]]
        BY <3>1, IdsMembers, NumbersStay DEF JobsOK, Submitted, Added
      <4>2. id[2] \in Int /\ n[id[1]] \in Int /\ n'[id[1]] \in Int
        BY IdsMembers, NumbersStay, ProxyAssumption DEF JobsOK, Added
      <4> QED
        BY <4>1, <4>2
    <3>2. CASE id = <<t, n[t] + 1>>
      <4>1. id[1] = t /\ id[2] = n[t] + 1
        BY <3>2
      <4>2. n'[t] = n[t] + 1
        BY NumbersStay DEF Added
      <4> QED
        BY <1>1, <4>1, <4>2
    <3> QED
      BY <1>10, <2>1, <3>1, <3>2
  <2> QED
    BY <2>1 DEF Submitted
<1>9. \A u \in Tasks : n'[u] \in 0..MaxCalls[u]
  BY NumbersStay DEF Added
<1> QED
  BY <1>3, <1>4, <1>6, <1>7, <1>8, <1>9 DEF JobsOK

(* A call that the closed pool refuses has its number all the same. *)
LEMMA CountedOK ==
  ASSUME NEW K, JobsOK(K), DOMAIN n = Tasks, NEW t \in Tasks, Counted(t)
  PROVE  JobsOK(K)'
<1>1. UNCHANGED <<queue, worker, done>>
  BY DEF Counted, poolVars
<1>2. \A u \in Tasks : n'[u] \in 0..MaxCalls[u]
  BY NumbersStay DEF Counted
<1>3. OnceEach'
  BY <1>1 DEF JobsOK, OnceEach
<1>4. Submitted(K)'
  <2>1. ASSUME NEW id \in Ids, NEW k \in K, Somewhere(id, k)'
        PROVE  id[2] <= n'[id[1]]
    <3>1. Somewhere(id, k)
      BY <1>1, <2>1 DEF Somewhere, InQueue, AtWork, AsOutcome
    <3>2. id[2] <= n[id[1]] /\ n[id[1]] <= n'[id[1]]
      BY <3>1, IdsMembers, NumbersStay DEF JobsOK, Submitted, Counted
    <3>3. id[2] \in Int /\ n[id[1]] \in Int /\ n'[id[1]] \in Int
      BY IdsMembers, NumbersStay, ProxyAssumption DEF JobsOK, Counted
    <3> QED
      BY <3>2, <3>3
  <2> QED
    BY <2>1 DEF Submitted
<1> QED
  BY <1>1, <1>2, <1>3, <1>4 DEF JobsOK

(* Where no job is new, their numbers are counted as before. *)
LEMMA StillSubmitted ==
  ASSUME NEW K, Submitted(K), UNCHANGED n,
         \A id, k : Somewhere(id, k)' => Somewhere(id, k)
  PROVE  Submitted(K)'
BY DEF Submitted

LEMMA WithdrawnOK ==
  ASSUME NEW K, JobsOK(K), NEW i \in 1..Len(queue), Withdrawn(i)
  PROVE  /\ JobsOK(K)'
         /\ \A id, k : InQueue(id, k)' => InQueue(id, k)
<1>1. /\ queue' \in Seq(JobType(K)) /\ Len(queue') = Len(queue) - 1
      /\ \A j \in 1..Len(queue) - 1 : queue'[j] = IF j < i THEN queue[j] ELSE queue[j + 1]
  BY RemoveAtProperties DEF Withdrawn, JobsOK
<1>2. worker' = worker /\ done' = done /\ n' = n
  BY DEF Withdrawn, poolVars
<1>3. Len(queue) \in Nat
  BY Places
<1>4. \A j \in 1..Len(queue') : \E k \in 1..Len(queue) : queue'[j] = queue[k]
  <2>1. ASSUME NEW j \in 1..Len(queue')
        PROVE  \E k \in 1..Len(queue) : queue'[j] = queue[k]
    <3>1. j \in 1..Len(queue) /\ j + 1 \in 1..Len(queue) /\ j \in 1..Len(queue) - 1
      BY <1>1, <1>3
    <3> QED
      BY <1>1, <3>1
  <2> QED
    BY <2>1
<1>5. \A id, k : InQueue(id, k)' => InQueue(id, k)
  BY <1>4 DEF InQueue
<1>6. \A j, k \in 1..Len(queue') : queue'[j].id = queue'[k].id => j = k
  <2>1. ASSUME NEW j \in 1..Len(queue'), NEW k \in 1..Len(queue'), queue'[j].id = queue'[k].id
        PROVE  j = k
    <3> DEFINE J == IF j < i THEN j ELSE j + 1
               L == IF k < i THEN k ELSE k + 1
    <3>1. J \in 1..Len(queue) /\ L \in 1..Len(queue) /\ (J = L => j = k)
      BY <1>1, <1>3
    <3>2. queue'[j] = queue[J] /\ queue'[k] = queue[L]
      BY <1>1, <1>3
    <3> HIDE DEF J, L
    <3> QED
      BY <2>1, <3>1, <3>2 DEF JobsOK, OnceEach
  <2> QED
    BY <2>1
<1>7. OnceEach'
  <2>1. worker'.at # "idle" =>
          /\ worker'.job # NoJob
          /\ \A j \in 1..Len(queue') : queue'[j].id # worker'.job
          /\ \A o \in done' : o.id # worker'.job
    BY <1>2, <1>4 DEF JobsOK, OnceEach
  <2>2. \A o \in done' : \A j \in 1..Len(queue') : queue'[j].id # o.id
    BY <1>2, <1>4 DEF JobsOK, OnceEach
  <2>3. \A o, p \in done' : o.id = p.id => o = p
    BY <1>2 DEF JobsOK, OnceEach
  <2> QED
    BY <1>6, <2>1, <2>2, <2>3 DEF OnceEach
<1>8. Submitted(K)'
  <2>1. \A id, k : (AtWork(id, k)' <=> AtWork(id, k)) /\ (AsOutcome(id, k)' <=> AsOutcome(id, k))
    BY <1>2 DEF AtWork, AsOutcome
  <2> QED
    BY <1>2, <1>5, <2>1, StillSubmitted DEF Somewhere, JobsOK
<1> QED
  BY <1>1, <1>2, <1>5, <1>7, <1>8 DEF JobsOK

LEMMA TakenOK ==
  ASSUME NEW K, JobsOK(K), NEW o \in done, done' = done \ {o}, UNCHANGED <<queue, worker, n>>
  PROVE  /\ JobsOK(K)'
         /\ \A id, k : AsOutcome(id, k)' => AsOutcome(id, k)
         /\ \A id, k : Somewhere(id, k)' => Somewhere(id, k) /\ id # o.id
<1>1. OnceEach'
  BY DEF JobsOK, OnceEach
<1>2. \A id, k : AsOutcome(id, k)' => AsOutcome(id, k) /\ id # o.id
  BY DEF JobsOK, OnceEach, AsOutcome
<1>3. \A id, k : InQueue(id, k)' => InQueue(id, k) /\ id # o.id
  BY DEF JobsOK, OnceEach, InQueue
<1>4. \A id, k : AtWork(id, k)' => AtWork(id, k) /\ id # o.id
  BY DEF JobsOK, OnceEach, AtWork
<1>5. \A id, k : Somewhere(id, k)' => Somewhere(id, k) /\ id # o.id
  BY <1>2, <1>3, <1>4 DEF Somewhere
<1>6. Submitted(K)'
  BY <1>5, StillSubmitted DEF JobsOK
<1> QED
  BY <1>1, <1>2, <1>5, <1>6 DEF JobsOK

WorkerType(K, L) == [at : L, job : Ids \cup {NoJob}, kind : K]

LEMMA TakeOK ==
  ASSUME NEW K, NEW L, "start" \in L, JobsOK(K), Take
  PROVE  /\ JobsOK(K)' /\ worker' \in WorkerType(K, L)
         /\ worker'.at = "start" /\ worker'.kind \in K
         /\ InQueue(worker'.job, worker'.kind) /\ worker'.job \in Ids
         /\ \A id, k : InQueue(id, k)' => InQueue(id, k)
         /\ \A id, k : AtWork(id, k)' => InQueue(id, k)
<1> DEFINE job == Head(queue)
<1>1. /\ queue' \in Seq(JobType(K)) /\ Len(queue') = Len(queue) - 1
      /\ \A j \in 1..Len(queue') : queue'[j] = queue[j + 1]
      /\ job = queue[1] /\ 1 \in 1..Len(queue)
  <2>1. queue \in Seq(JobType(K)) /\ queue # <<>> /\ queue' = Tail(queue)
    BY DEF Take, JobsOK
  <2>2. /\ Tail(queue) \in Seq(JobType(K)) /\ Len(Tail(queue)) = Len(queue) - 1
        /\ \A j \in 1..Len(Tail(queue)) : Tail(queue)[j] = queue[j + 1]
    BY <2>1, HeadTailProperties
  <2>3. Len(queue) \in Nat /\ Len(queue) # 0
    BY <2>1, LenProperties, EmptySeq
  <2> QED
    BY <2>1, <2>2, <2>3
<1>2. done' = done /\ n' = n /\ worker.at = "idle"
  BY DEF Take
<1>3. worker' = [at |-> "start", job |-> job.id, kind |-> job.kind]
  BY DEF Take
<1> HIDE DEF job
<1>4. job.id \in Ids /\ job.kind \in K /\ job.id # NoJob
  <2>1. queue[1].id \in Ids /\ queue[1] \in JobType(K)
    BY <1>1, Places
  <2> QED
    BY <1>1, <2>1, ProxyAssumption DEF JobType
<1>5. worker'.at = "start" /\ worker'.job = job.id /\ worker'.kind = job.kind
  BY <1>3
<1>6. worker' \in WorkerType(K, L)
  BY <1>3, <1>4 DEF WorkerType
<1>7. Len(queue) \in Nat
  BY Places
<1>8. \A j \in 1..Len(queue') : j + 1 \in 1..Len(queue) /\ j + 1 # 1
  BY <1>1, <1>7
<1>9. InQueue(worker'.job, worker'.kind)
  BY <1>1, <1>5 DEF InQueue
<1>10. \A id, k : InQueue(id, k)' => InQueue(id, k)
  BY <1>1, <1>8 DEF InQueue
<1>11. \A id, k : AtWork(id, k)' => InQueue(id, k)
  BY <1>9 DEF AtWork
<1>12. \A id, k : Somewhere(id, k)' => Somewhere(id, k)
  <2>1. \A id, k : AsOutcome(id, k)' <=> AsOutcome(id, k)
    BY <1>2 DEF AsOutcome
  <2> QED
    BY <1>10, <1>11, <2>1 DEF Somewhere
<1>13. OnceEach'
  <2>1. \A i, j \in 1..Len(queue) : queue[i].id = queue[j].id => i = j
    BY DEF JobsOK, OnceEach
  <2>2. \A i, j \in 1..Len(queue') : queue'[i].id = queue'[j].id => i = j
    <3>1. \A i, j \in 1..Len(queue') : queue'[i].id = queue'[j].id => i + 1 = j + 1
      BY <1>1, <1>8, <2>1
    <3> QED
      BY <1>1, <1>7, <3>1
  <2>3. \A j \in 1..Len(queue') : queue'[j].id # job.id
    BY <1>1, <1>8, <2>1
  <2>4. \A o \in done : \A j \in 1..Len(queue) : queue[j].id # o.id
    BY DEF JobsOK, OnceEach
  <2>5. \A o \in done : o.id # job.id
    BY <1>1, <2>4
  <2>6. \A o \in done' : \A j \in 1..Len(queue') : queue'[j].id # o.id
    BY <1>1, <1>2, <1>8, <2>4
  <2>7. \A o, p \in done' : o.id = p.id => o = p
    BY <1>2 DEF JobsOK, OnceEach
  <2>8. worker'.at # "idle" =>
          /\ worker'.job # NoJob
          /\ \A j \in 1..Len(queue') : queue'[j].id # worker'.job
          /\ \A o \in done' : o.id # worker'.job
    BY <1>2, <1>4, <1>5, <2>3, <2>5
  <2> QED
    BY <2>2, <2>6, <2>7, <2>8 DEF OnceEach
<1>14. Submitted(K)'
  BY <1>2, <1>12, StillSubmitted DEF JobsOK
<1> QED
  BY <1>1, <1>2, <1>4, <1>5, <1>6, <1>9, <1>10, <1>11, <1>13, <1>14 DEF JobsOK

LEMMA ToOK ==
  ASSUME NEW K, NEW L, JobsOK(K), worker \in WorkerType(K, L), worker.at # "idle",
         NEW label \in L, To(label), UNCHANGED <<queue, n>>
  PROVE  /\ JobsOK(K)' /\ worker' \in WorkerType(K, L)
         /\ worker'.at = label /\ worker'.job = worker.job /\ worker'.kind = worker.kind
         /\ done' = done
<1>1. /\ worker' \in WorkerType(K, L) /\ worker'.at = label
      /\ worker'.job = worker.job /\ worker'.kind = worker.kind /\ done' = done
  BY DEF To, WorkerType
<1>2. OnceEach'
  BY <1>1 DEF JobsOK, OnceEach
<1>3. \A id, k : AtWork(id, k)' => AtWork(id, k)
  BY <1>1 DEF AtWork
<1>4. \A id, k : (InQueue(id, k)' <=> InQueue(id, k)) /\ (AsOutcome(id, k)' <=> AsOutcome(id, k))
  BY <1>1 DEF InQueue, AsOutcome
<1>5. Submitted(K)'
  BY <1>3, <1>4, StillSubmitted DEF JobsOK, Somewhere
<1> QED
  BY <1>1, <1>2, <1>5 DEF JobsOK

LEMMA ReturnOK ==
  ASSUME NEW K, NEW L, "idle" \in L, JobsOK(K), worker \in WorkerType(K, L), worker.at # "idle",
         NEW ok \in BOOLEAN, Return(ok), UNCHANGED <<queue, n>>
  PROVE  /\ JobsOK(K)' /\ worker' \in WorkerType(K, L) /\ worker'.at = "idle"
         /\ done' = done \cup {[id |-> worker.job, kind |-> worker.kind, ok |-> ok]}
         /\ \A id, k : AsOutcome(id, k)' => AsOutcome(id, k) \/ AtWork(id, k)
<1> DEFINE out == [id |-> worker.job, kind |-> worker.kind, ok |-> ok]
<1>1. worker.job \in Ids /\ worker.kind \in K
  BY Places DEF WorkerType
<1>2. /\ worker' \in WorkerType(K, L) /\ worker'.at = "idle" /\ worker'.job = NoJob
      /\ worker'.kind = worker.kind /\ done' = done \cup {out}
  BY DEF Return, WorkerType
<1>3. out \in OutcomeType(K) /\ out.id = worker.job /\ out.kind = worker.kind
  BY <1>1 DEF OutcomeType
<1> HIDE DEF out
<1>4. done' \subseteq OutcomeType(K)
  BY <1>2, <1>3 DEF JobsOK
<1>5. OnceEach'
  <2>1. /\ \A i \in 1..Len(queue) : queue[i].id # out.id
        /\ \A o \in done : o.id # out.id
    BY <1>3 DEF JobsOK, OnceEach
  <2>2. \A o \in done' : o \in done \/ o = out
    BY <1>2
  <2>3. \A o \in done' : \A i \in 1..Len(queue) : queue[i].id # o.id
    BY <2>1, <2>2 DEF JobsOK, OnceEach
  <2>4. \A o, p \in done' : o.id = p.id => o = p
    BY <2>1, <2>2 DEF JobsOK, OnceEach
  <2> QED
    BY <1>2, <2>3, <2>4 DEF JobsOK, OnceEach
<1>6. \A id, k : AsOutcome(id, k)' => AsOutcome(id, k) \/ AtWork(id, k)
  BY <1>2, <1>3 DEF AsOutcome, AtWork
<1>7. \A id, k : (InQueue(id, k)' <=> InQueue(id, k)) /\ ~AtWork(id, k)'
  BY <1>2 DEF InQueue, AtWork
<1>8. Submitted(K)'
  BY <1>6, <1>7, StillSubmitted DEF JobsOK, Somewhere
<1> QED
  BY <1>1, <1>2, <1>4, <1>5, <1>6, <1>8 DEF JobsOK, out

-----------------------------------------------------------------------------
(* The proxy's part of a module's inductive invariant. *)
ProxyLabels == {"outside", "entering", "ready", "awaiting", "in_aclose",
                "exiting", "in_exit_aclose", "exited", "raised"}

(* The kinds K of jobs and the labels TL of tasks a proxy's module adds *)
KindsOK(K, TL) ==
  /\ "create" \in K /\ "close" \in K
  /\ \A t \in Tasks : \A kind \in Calls[t] \ {"aclose"} : kind \in K /\ kind \notin {"create", "close"}
  /\ \A label \in TL : label \notin ProxyLabels

(* __aenter__ is over, and its job gone, before there is any other job; the *)
(* job of __aexit__ is the Owner's last.                                   *)
Opening ==
  /\ n[Owner] = 0 <=> At(Owner, "outside")
  /\ At(Owner, "entering") => n[Owner] = 1
  /\ pc[Owner] \in {"outside", "entering"} => ~proxy.inner
  /\ pc[Owner] \notin {"outside", "entering", "raised", "gone"} => proxy.inner
  /\ \A t \in Tasks \ {Owner} :
       pc[t] \notin {"outside", "entering", "exiting", "in_exit_aclose", "exited", "raised"}
  /\ \A id, kind : Somewhere(id, kind) =>
       /\ kind = "create" <=> id = <<Owner, 1>>
       /\ kind = "create" <=> ~proxy.inner
       /\ kind = "close" => id = <<Owner, n[Owner]>> /\ pc[Owner] \in {"exiting", "raised", "gone"}
  /\ At(Owner, "exiting") =>
       \A id, kind : Somewhere(id, kind) /\ id = <<Owner, n[Owner]>> => kind = "close"

(* A closed pool is quiet, but while somebody waits for it to become so. *)
Closing ==
  /\ \A t \in Tasks : pc[t] \in {"in_aclose", "in_exit_aclose"} => loop = t /\ proxy.closed
  /\ proxy.closed => PoolQuiet \/ \E t \in Tasks : pc[t] \in {"in_aclose", "in_exit_aclose"}
  /\ At(Owner, "exited") => proxy.closed

ProxyInv(K, TL, WL) ==
  ProxyTypeOK(K, TL, WL) /\ OnceEach /\ Submitted(K) /\ Opening /\ Closing

LEMMA InvTypes ==
  ASSUME NEW K, NEW TL, NEW WL, ProxyInv(K, TL, WL)
  PROVE  /\ JobsOK(K) /\ DOMAIN n = Tasks /\ worker \in WorkerType(K, WL \cup {"idle"})
         /\ proxy \in [inner : BOOLEAN, closed : BOOLEAN] /\ loop \in Tasks \cup {NoTask}
         /\ pc \in [Tasks -> TL \cup ProxyLabels]
<1>1. worker \in WorkerType(K, WL \cup {"idle"}) /\ queue \in Seq(JobType(K)) /\ done \subseteq OutcomeType(K)
  BY DEF ProxyInv, ProxyTypeOK, WorkerType, JobType, OutcomeType
<1>2. worker.job \in Ids \cup {NoJob} /\ worker.kind \in K
  BY <1>1 DEF WorkerType
<1>3. pc \in [Tasks -> TL \cup ProxyLabels]
  BY DEF ProxyInv, ProxyTypeOK, ProxyLabels
<1> QED
  BY <1>1, <1>2, <1>3 DEF ProxyInv, ProxyTypeOK, JobsOK

LEMMA TypesInv ==
  ASSUME NEW K, NEW TL, NEW WL, JobsOK(K)', DOMAIN n' = Tasks,
         worker' \in WorkerType(K, WL \cup {"idle"}),
         proxy' \in [inner : BOOLEAN, closed : BOOLEAN], loop' \in Tasks \cup {NoTask},
         pc' \in [Tasks -> TL \cup ProxyLabels]
  PROVE  (ProxyTypeOK(K, TL, WL) /\ OnceEach /\ Submitted(K))'
<1>1. /\ worker' \in [at : WL \cup {"idle"}, job : Ids \cup {NoJob}, kind : K]
      /\ queue' \in Seq([id : Ids, kind : K]) /\ done' \subseteq [id : Ids, kind : K, ok : BOOLEAN]
  BY DEF WorkerType, JobType, OutcomeType, JobsOK
<1> QED
  BY <1>1 DEF ProxyTypeOK, JobsOK, ProxyLabels

LEMMA SubmitOK ==
  ASSUME NEW K, NEW TL, NEW WL, ProxyInv(K, TL, WL), NEW t \in Tasks, NEW kind \in K,
         NEW awaiting \in ProxyLabels, NEW raised \in ProxyLabels, Submit(t, kind, awaiting, raised)
  PROVE  /\ (ProxyTypeOK(K, TL, WL) /\ OnceEach /\ Submitted(K))'
         /\ UNCHANGED <<worker, done, proxy, loop>> /\ (proxy.closed => queue' = queue)
         /\ n'[t] = n[t] + 1 /\ \A u \in Tasks \ {t} : n'[u] = n[u]
         /\ pc' = [pc EXCEPT ![t] = IF proxy.closed THEN raised ELSE awaiting]
         /\ \A id, k : InQueue(id, k)' =>
                          InQueue(id, k) \/ (~proxy.closed /\ id = <<t, n[t] + 1>> /\ k = kind)
<1>1. JobsOK(K) /\ DOMAIN n = Tasks
  BY InvTypes
<1>2. /\ n' = [n EXCEPT ![t] = @ + 1] /\ n[t] < MaxCalls[t] /\ UNCHANGED <<poolVars, proxy, loop>>
      /\ pc' = [pc EXCEPT ![t] = IF proxy.closed THEN raised ELSE awaiting]
  BY DEF Submit, Goto
<1>3. UNCHANGED <<worker, done, proxy, loop>>
  BY <1>2 DEF poolVars
<1>4. /\ DOMAIN n' = Tasks /\ n'[t] = n[t] + 1 /\ \A u \in Tasks \ {t} : n'[u] = n[u]
  BY <1>1, <1>2, NumbersStay
<1>5. /\ JobsOK(K)' /\ (proxy.closed => queue' = queue)
      /\ \A id, k : InQueue(id, k)' =>
                       InQueue(id, k) \/ (~proxy.closed /\ id = <<t, n[t] + 1>> /\ k = kind)
  <2>1. CASE proxy.closed
    <3>1. Counted(t)
      BY <1>2, <2>1 DEF Submit, Counted
    <3>2. queue' = queue
      BY <2>1 DEF Submit
    <3> QED
      BY <1>1, <3>1, <3>2, CountedOK DEF InQueue
  <2>2. CASE ~proxy.closed
    <3>1. Added(t, kind)
      BY <1>2, <2>2 DEF Submit, Added
    <3> QED
      BY <1>1, <2>2, <3>1, AddedOK
  <2> QED
    BY <2>1, <2>2
<1>6. pc' \in [Tasks -> TL \cup ProxyLabels]
  BY <1>2, InvTypes
<1>7. /\ worker' \in WorkerType(K, WL \cup {"idle"}) /\ loop' \in Tasks \cup {NoTask}
      /\ proxy' \in [inner : BOOLEAN, closed : BOOLEAN]
  BY <1>3, InvTypes
<1>8. (ProxyTypeOK(K, TL, WL) /\ OnceEach /\ Submitted(K))'
  BY <1>4, <1>5, <1>6, <1>7, TypesInv
<1> QED
  BY <1>2, <1>3, <1>4, <1>5, <1>8

LEMMA EnterInv ==
  ASSUME NEW K, NEW TL, NEW WL, KindsOK(K, TL), ProxyInv(K, TL, WL), Enter(Owner)
  PROVE  /\ ProxyInv(K, TL, WL)' /\ UNCHANGED <<worker, done, proxy, loop>>
         /\ ~proxy.inner /\ At(Owner, "outside") /\ n'[Owner] = n[Owner] + 1
         /\ pc'[Owner] = IF proxy.closed THEN "raised" ELSE "entering"
         /\ \A u \in Tasks \ {Owner} : pc'[u] = pc[u] /\ n'[u] = n[u]
         /\ \A u \in Tasks : n[u] \in Nat /\ n[u] <= n'[u]
         /\ \A id, kind : InQueue(id, kind)' =>
                             \/ InQueue(id, kind)
                             \/ ~proxy.closed /\ kind = "create" /\ id = <<Owner, n[Owner] + 1>>
<1>0. Owner \in Tasks /\ "entering" \in ProxyLabels /\ "raised" \in ProxyLabels
  BY ProxyAssumption DEF ProxyLabels
<1>1. At(Owner, "outside") /\ Submit(Owner, "create", "entering", "raised") /\ "create" \in K
  BY DEF Enter, KindsOK
<1>2. /\ (ProxyTypeOK(K, TL, WL) /\ OnceEach /\ Submitted(K))'
      /\ UNCHANGED <<worker, done, proxy, loop>> /\ (proxy.closed => queue' = queue)
      /\ n'[Owner] = n[Owner] + 1 /\ \A u \in Tasks \ {Owner} : n'[u] = n[u]
      /\ pc' = [pc EXCEPT ![Owner] = IF proxy.closed THEN "raised" ELSE "entering"]
      /\ \A id, k : InQueue(id, k)' =>
                       InQueue(id, k) \/ (~proxy.closed /\ id = <<Owner, n[Owner] + 1>> /\ k = "create")
  BY <1>0, <1>1, SubmitOK
<1>3. pc \in [Tasks -> TL \cup ProxyLabels] /\ \A u \in Tasks : n[u] \in Nat
  BY InvTypes, Numbers
<1>4. /\ pc'[Owner] = IF proxy.closed THEN "raised" ELSE "entering"
      /\ \A u \in Tasks \ {Owner} : pc'[u] = pc[u]
  BY <1>0, <1>2, <1>3
<1>5. n[Owner] = 0 /\ ~proxy.inner /\ pc[Owner] = "outside"
  BY <1>1 DEF ProxyInv, Opening, At
<1>6. \A id, k : Somewhere(id, k)' => Somewhere(id, k) \/ (id = <<Owner, 1>> /\ k = "create")
  <2>1. \A id, k : (AtWork(id, k)' <=> AtWork(id, k)) /\ (AsOutcome(id, k)' <=> AsOutcome(id, k))
    BY <1>2 DEF AtWork, AsOutcome
  <2> QED
    BY <1>2, <1>5, <2>1 DEF Somewhere
<1>7. \A id, k : Somewhere(id, k) => k # "close"
  BY <1>5 DEF ProxyInv, Opening
<1>8. Opening'
  <2>1. \A id, k : Somewhere(id, k)' => /\ k = "create" <=> id = <<Owner, 1>>
                                        /\ k = "create" <=> ~proxy.inner
                                        /\ k # "close"
    BY <1>5, <1>6, <1>7 DEF ProxyInv, Opening
  <2>2. pc'[Owner] # "exiting" /\ pc'[Owner] # "outside" /\ n'[Owner] = 1
    BY <1>2, <1>4, <1>5
  <2>3. \A u \in Tasks \ {Owner} :
          pc'[u] \notin {"outside", "entering", "exiting", "in_exit_aclose", "exited", "raised"}
    BY <1>4 DEF ProxyInv, Opening
  <2>4. proxy' = proxy
    BY <1>2
  <2> QED
    BY <1>4, <1>5, <2>1, <2>2, <2>3, <2>4 DEF Opening, At
<1>9. Closing'
  <2>1. \A u \in Tasks : pc'[u] \in {"in_aclose", "in_exit_aclose"} <=> pc[u] \in {"in_aclose", "in_exit_aclose"}
    BY <1>4, <1>5
  <2>2. proxy.closed => (PoolQuiet' <=> PoolQuiet)
    BY <1>2 DEF PoolQuiet
  <2>3. proxy' = proxy /\ loop' = loop /\ pc'[Owner] # "exited"
    BY <1>2, <1>4
  <2> QED
    BY <2>1, <2>2, <2>3 DEF ProxyInv, Closing, At
<1>10. \A u \in Tasks : n[u] \in Nat /\ n[u] <= n'[u]
  BY <1>2, <1>3
<1> QED
  BY <1>1, <1>2, <1>4, <1>5, <1>8, <1>9, <1>10 DEF ProxyInv

LEMMA CallInv ==
  ASSUME NEW K, NEW TL, NEW WL, KindsOK(K, TL), ProxyInv(K, TL, WL), NEW t \in Tasks, Call(t)
  PROVE  /\ ProxyInv(K, TL, WL)' /\ UNCHANGED <<worker, done, proxy, loop>>
         /\ proxy.inner /\ At(t, "ready") /\ n'[t] = n[t] + 1
         /\ pc'[t] = IF proxy.closed THEN "ready" ELSE "awaiting"
         /\ \A u \in Tasks \ {t} : pc'[u] = pc[u] /\ n'[u] = n[u]
         /\ \A u \in Tasks : n[u] \in Nat /\ n[u] <= n'[u]
         /\ \A id, kind : InQueue(id, kind)' =>
                             \/ InQueue(id, kind)
                             \/ /\ ~proxy.closed /\ kind \notin {"create", "close"}
                                /\ id = <<t, n[t] + 1>>
<1>0. "awaiting" \in ProxyLabels /\ "ready" \in ProxyLabels /\ Owner \in Tasks
  BY ProxyAssumption DEF ProxyLabels
<1>1. PICK kind \in Calls[t] \ {"aclose"} : Submit(t, kind, "awaiting", "ready")
  BY DEF Call
<1>2. kind \in K /\ kind \notin {"create", "close"} /\ pc[t] = "ready" /\ proxy.inner
  BY DEF Call, KindsOK, At
<1>3. /\ (ProxyTypeOK(K, TL, WL) /\ OnceEach /\ Submitted(K))'
      /\ UNCHANGED <<worker, done, proxy, loop>> /\ (proxy.closed => queue' = queue)
      /\ n'[t] = n[t] + 1 /\ \A u \in Tasks \ {t} : n'[u] = n[u]
      /\ pc' = [pc EXCEPT ![t] = IF proxy.closed THEN "ready" ELSE "awaiting"]
      /\ \A id, k : InQueue(id, k)' =>
                       InQueue(id, k) \/ (~proxy.closed /\ id = <<t, n[t] + 1>> /\ k = kind)
  BY <1>0, <1>1, <1>2, SubmitOK
<1>4. pc \in [Tasks -> TL \cup ProxyLabels] /\ \A u \in Tasks : n[u] \in Nat
  BY InvTypes, Numbers
<1>5. /\ pc'[t] = IF proxy.closed THEN "ready" ELSE "awaiting"
      /\ \A u \in Tasks \ {t} : pc'[u] = pc[u]
  BY <1>3, <1>4
<1>6. \A id, k : Somewhere(id, k)' => Somewhere(id, k) \/ (id = <<t, n[t] + 1>> /\ k = kind)
  <2>1. \A id, k : (AtWork(id, k)' <=> AtWork(id, k)) /\ (AsOutcome(id, k)' <=> AsOutcome(id, k))
    BY <1>3 DEF AtWork, AsOutcome
  <2> QED
    BY <1>3, <2>1 DEF Somewhere
<1>7. t = Owner => n[Owner] \in Nat /\ n[Owner] # 0
  BY <1>2, <1>4 DEF ProxyInv, Opening, At
<1>8. Opening'
  <2>1. \A id, k : Somewhere(id, k)' => k = "create" <=> id = <<Owner, 1>>
    <3>1. <<t, n[t] + 1>> # <<Owner, 1>>
      BY <1>4, <1>7
    <3> QED
      BY <1>2, <1>6, <3>1 DEF ProxyInv, Opening
  <2>2. \A id, k : Somewhere(id, k)' => k = "create" <=> ~proxy.inner
    BY <1>2, <1>6 DEF ProxyInv, Opening
  <2>3. /\ n'[Owner] = 0 <=> pc'[Owner] = "outside"
        /\ pc'[Owner] # "entering" /\ (t = Owner => pc'[Owner] # "exiting")
    <3>1. CASE t = Owner
      BY <1>3, <1>5, <1>7, <3>1
    <3>2. CASE t # Owner
      BY <1>0, <1>2, <1>3, <1>5, <3>2 DEF ProxyInv, Opening, At
    <3> QED
      BY <3>1, <3>2
  <2>4. \A id, k : Somewhere(id, k)' /\ k = "close" =>
                     id = <<Owner, n'[Owner]>> /\ pc'[Owner] \in {"exiting", "raised", "gone"}
    <3>1. CASE t = Owner
      BY <1>2, <1>6, <3>1 DEF ProxyInv, Opening
    <3>2. CASE t # Owner
      <4>1. n'[Owner] = n[Owner] /\ pc'[Owner] = pc[Owner]
        BY <1>0, <1>3, <1>5, <3>2
      <4> QED
        BY <1>2, <1>6, <4>1 DEF ProxyInv, Opening
    <3> QED
      BY <3>1, <3>2
  <2>5. pc'[Owner] = "exiting" => \A id, k : Somewhere(id, k)' /\ id = <<Owner, n'[Owner]>> => k = "close"
    <3>1. CASE t = Owner
      BY <2>3, <3>1
    <3>2. CASE t # Owner
      <4>1. n'[Owner] = n[Owner] /\ pc'[Owner] = pc[Owner]
        BY <1>0, <1>3, <1>5, <3>2
      <4>2. <<t, n[t] + 1>> # <<Owner, n[Owner]>>
        BY <3>2
      <4> QED
        BY <1>6, <4>1, <4>2 DEF ProxyInv, Opening, At
    <3> QED
      BY <3>1, <3>2
  <2>6. \A u \in Tasks \ {Owner} :
          pc'[u] \notin {"outside", "entering", "exiting", "in_exit_aclose", "exited", "raised"}
    <3>1. \A u \in Tasks \ {Owner} : pc'[u] = pc[u] \/ pc'[u] \in {"ready", "awaiting"}
      BY <1>5
    <3> QED
      BY <3>1 DEF ProxyInv, Opening
  <2>7. proxy' = proxy /\ (pc'[Owner] = "outside" => ~proxy.inner)
    <3>1. pc'[Owner] # "outside"
      <4>1. CASE t = Owner
        BY <1>5, <4>1
      <4>2. CASE t # Owner
        BY <1>0, <1>2, <1>5, <4>2 DEF ProxyInv, Opening
      <4> QED
        BY <4>1, <4>2
    <3> QED
      BY <1>3, <3>1
  <2> QED
    BY <1>2, <2>1, <2>2, <2>3, <2>4, <2>5, <2>6, <2>7 DEF Opening, At
<1>9. Closing'
  <2>1. \A u \in Tasks : pc'[u] \in {"in_aclose", "in_exit_aclose"} <=> pc[u] \in {"in_aclose", "in_exit_aclose"}
    BY <1>2, <1>5
  <2>2. proxy.closed => (PoolQuiet' <=> PoolQuiet)
    BY <1>3 DEF PoolQuiet
  <2>3. proxy' = proxy /\ loop' = loop /\ (pc'[Owner] = "exited" => pc[Owner] = "exited")
    BY <1>0, <1>3, <1>5
  <2> QED
    BY <2>1, <2>2, <2>3 DEF ProxyInv, Closing, At
<1>10. \A u \in Tasks : n[u] \in Nat /\ n[u] <= n'[u]
  BY <1>3, <1>4
<1>11. \A id, k : InQueue(id, k)' =>
                    \/ InQueue(id, k)
                    \/ ~proxy.closed /\ k \notin {"create", "close"} /\ id = <<t, n[t] + 1>>
  BY <1>2, <1>3
<1> QED
  BY <1>2, <1>3, <1>5, <1>8, <1>9, <1>10, <1>11 DEF ProxyInv, At

LEMMA ExitInv ==
  ASSUME NEW K, NEW TL, NEW WL, KindsOK(K, TL), ProxyInv(K, TL, WL), Exit(Owner)
  PROVE  /\ ProxyInv(K, TL, WL)' /\ UNCHANGED <<worker, done, proxy, loop>>
         /\ proxy.inner /\ At(Owner, "ready") /\ n'[Owner] = n[Owner] + 1
         /\ pc'[Owner] = IF proxy.closed THEN "raised" ELSE "exiting"
         /\ \A u \in Tasks \ {Owner} : pc'[u] = pc[u] /\ n'[u] = n[u]
         /\ \A u \in Tasks : n[u] \in Nat /\ n[u] <= n'[u]
         /\ \A id, kind : InQueue(id, kind)' =>
                             \/ InQueue(id, kind)
                             \/ ~proxy.closed /\ kind = "close" /\ id = <<Owner, n[Owner] + 1>>
<1>0. Owner \in Tasks /\ "exiting" \in ProxyLabels /\ "raised" \in ProxyLabels
  BY ProxyAssumption DEF ProxyLabels
<1>1. pc[Owner] = "ready" /\ Submit(Owner, "close", "exiting", "raised") /\ "close" \in K
  BY DEF Exit, KindsOK, At
<1>2. /\ (ProxyTypeOK(K, TL, WL) /\ OnceEach /\ Submitted(K))'
      /\ UNCHANGED <<worker, done, proxy, loop>> /\ (proxy.closed => queue' = queue)
      /\ n'[Owner] = n[Owner] + 1 /\ \A u \in Tasks \ {Owner} : n'[u] = n[u]
      /\ pc' = [pc EXCEPT ![Owner] = IF proxy.closed THEN "raised" ELSE "exiting"]
      /\ \A id, k : InQueue(id, k)' =>
                       InQueue(id, k) \/ (~proxy.closed /\ id = <<Owner, n[Owner] + 1>> /\ k = "close")
  BY <1>0, <1>1, SubmitOK
<1>3. pc \in [Tasks -> TL \cup ProxyLabels] /\ \A u \in Tasks : n[u] \in Nat
  BY InvTypes, Numbers
<1>4. /\ pc'[Owner] = IF proxy.closed THEN "raised" ELSE "exiting"
      /\ \A u \in Tasks \ {Owner} : pc'[u] = pc[u]
  BY <1>0, <1>2, <1>3
<1>5. n[Owner] \in Nat /\ n[Owner] # 0 /\ proxy.inner
  BY <1>0, <1>1, <1>3 DEF ProxyInv, Opening, At
<1>6. \A id, k : Somewhere(id, k)' =>
                   \/ Somewhere(id, k)
                   \/ ~proxy.closed /\ id = <<Owner, n[Owner] + 1>> /\ k = "close"
  <2>1. \A id, k : (AtWork(id, k)' <=> AtWork(id, k)) /\ (AsOutcome(id, k)' <=> AsOutcome(id, k))
    BY <1>2 DEF AtWork, AsOutcome
  <2> QED
    BY <1>2, <2>1 DEF Somewhere
<1>7. \A id, k : Somewhere(id, k) =>
                   k \notin {"create", "close"} /\ id # <<Owner, 1>> /\ id # <<Owner, n[Owner] + 1>>
  <2>1. \A id, k : Somewhere(id, k) => id # <<Owner, n[Owner] + 1>>
    BY <1>0, InvTypes, NextIsNew
  <2> QED
    BY <1>1, <1>5, <2>1 DEF ProxyInv, Opening
<1>8. Opening'
  <2>1. <<Owner, n[Owner] + 1>> # <<Owner, 1>>
    BY <1>5
  <2>2. \A id, k : Somewhere(id, k)' =>
          /\ k # "create" /\ id # <<Owner, 1>>
          /\ k = "close" => id = <<Owner, n'[Owner]>> /\ pc'[Owner] = "exiting"
          /\ id = <<Owner, n'[Owner]>> => k = "close"
    BY <1>2, <1>4, <1>6, <1>7, <2>1
  <2>3. n'[Owner] # 0 /\ pc'[Owner] \notin {"outside", "entering"}
    BY <1>2, <1>4, <1>5
  <2>4. \A u \in Tasks \ {Owner} :
          pc'[u] \notin {"outside", "entering", "exiting", "in_exit_aclose", "exited", "raised"}
    BY <1>4 DEF ProxyInv, Opening
  <2>5. proxy' = proxy
    BY <1>2
  <2> QED
    BY <1>5, <2>2, <2>3, <2>4, <2>5 DEF Opening, At
<1>9. Closing'
  <2>1. \A u \in Tasks : pc'[u] \in {"in_aclose", "in_exit_aclose"} <=> pc[u] \in {"in_aclose", "in_exit_aclose"}
    BY <1>1, <1>4
  <2>2. proxy.closed => (PoolQuiet' <=> PoolQuiet)
    BY <1>2 DEF PoolQuiet
  <2>3. proxy' = proxy /\ loop' = loop /\ pc'[Owner] # "exited"
    BY <1>2, <1>4
  <2> QED
    BY <2>1, <2>2, <2>3 DEF ProxyInv, Closing, At
<1>10. \A u \in Tasks : n[u] \in Nat /\ n[u] <= n'[u]
  BY <1>2, <1>3
<1> QED
  BY <1>1, <1>2, <1>4, <1>5, <1>8, <1>9, <1>10 DEF ProxyInv, At

(* Opening outlives the steps that submit nothing. *)
LEMMA OpeningKept ==
  ASSUME Opening, UNCHANGED n, proxy'.inner = proxy.inner,
         \A id, k : Somewhere(id, k)' => Somewhere(id, k),
         \A u \in Tasks \ {Owner} :
           \/ pc'[u] = pc[u]
           \/ pc'[u] \notin {"outside", "entering", "exiting", "in_exit_aclose", "exited", "raised"},
         \/ pc'[Owner] = pc[Owner]
         \/ /\ pc[Owner] # "outside" /\ pc'[Owner] \notin {"outside", "entering", "exiting"}
            /\ pc'[Owner] \in {"raised", "gone"} \/ proxy.inner
            /\ \/ pc[Owner] \notin {"exiting", "raised", "gone"}
               \/ pc'[Owner] \in {"raised", "gone"}
               \/ \A id, k : Somewhere(id, k)' => k # "close"
  PROVE  Opening'
<1>1. \A u \in Tasks \ {Owner} :
        pc'[u] \notin {"outside", "entering", "exiting", "in_exit_aclose", "exited", "raised"}
  BY DEF Opening
<1>2. \A id, k : Somewhere(id, k)' =>
                   /\ k = "create" <=> id = <<Owner, 1>>
                   /\ k = "create" <=> ~proxy'.inner
  BY DEF Opening
<1>3. \A id, k : Somewhere(id, k)' /\ k = "close" =>
                   id = <<Owner, n'[Owner]>> /\ pc'[Owner] \in {"exiting", "raised", "gone"}
  BY DEF Opening
<1>4. /\ n'[Owner] = 0 <=> pc'[Owner] = "outside"
      /\ pc'[Owner] = "entering" => n'[Owner] = 1
      /\ pc'[Owner] \in {"outside", "entering"} => ~proxy'.inner
      /\ pc'[Owner] \notin {"outside", "entering", "raised", "gone"} => proxy'.inner
  BY DEF Opening, At
<1>5. pc'[Owner] = "exiting" => \A id, k : Somewhere(id, k)' /\ id = <<Owner, n'[Owner]>> => k = "close"
  BY DEF Opening, At
<1> QED
  BY <1>1, <1>2, <1>3, <1>4, <1>5 DEF Opening, At

LEMMA SameJobs ==
  ASSUME NEW K, JobsOK(K), UNCHANGED <<queue, worker, done, n>>
  PROVE  JobsOK(K)' /\ \A id, k : Somewhere(id, k)' => Somewhere(id, k)
<1>1. OnceEach'
  BY DEF JobsOK, OnceEach
<1>2. \A id, k : Somewhere(id, k)' => Somewhere(id, k)
  BY DEF Somewhere, InQueue, AtWork, AsOutcome
<1> QED
  BY <1>1, <1>2, StillSubmitted DEF JobsOK

LEMMA AcloseInv ==
  ASSUME NEW K, NEW TL, NEW WL, ProxyInv(K, TL, WL), NEW t \in Tasks, Aclose(t)
  PROVE  /\ ProxyInv(K, TL, WL)' /\ UNCHANGED <<worker, done, queue, n>>
         /\ proxy' = [proxy EXCEPT !.closed = TRUE]
         /\ At(t, "ready") /\ pc' = [pc EXCEPT ![t] = "in_aclose"] /\ loop' = t
<1>1. /\ UNCHANGED <<worker, done, queue, n>> /\ proxy' = [proxy EXCEPT !.closed = TRUE]
      /\ pc[t] = "ready" /\ pc' = [pc EXCEPT ![t] = "in_aclose"] /\ loop' = t /\ ~proxy.closed
  BY DEF Aclose, poolVars, At, Goto
<1>2. /\ pc \in [Tasks -> TL \cup ProxyLabels] /\ JobsOK(K) /\ DOMAIN n = Tasks
      /\ proxy \in [inner : BOOLEAN, closed : BOOLEAN] /\ worker \in WorkerType(K, WL \cup {"idle"})
  BY InvTypes
<1>3. /\ proxy' \in [inner : BOOLEAN, closed : BOOLEAN] /\ proxy'.inner = proxy.inner /\ proxy'.closed
      /\ pc' \in [Tasks -> TL \cup ProxyLabels]
      /\ pc'[t] = "in_aclose" /\ \A u \in Tasks \ {t} : pc'[u] = pc[u]
  BY <1>1, <1>2 DEF ProxyLabels
<1>4. JobsOK(K)' /\ \A id, k : Somewhere(id, k)' => Somewhere(id, k)
  BY <1>1, <1>2, SameJobs
<1>5. (ProxyTypeOK(K, TL, WL) /\ OnceEach /\ Submitted(K))'
  <2>1. DOMAIN n' = Tasks /\ worker' \in WorkerType(K, WL \cup {"idle"}) /\ loop' \in Tasks \cup {NoTask}
    BY <1>1, <1>2
  <2> QED
    BY <1>3, <1>4, <2>1, TypesInv
<1>6. Opening'
  <2>1. t = Owner => proxy.inner
    BY <1>1 DEF ProxyInv, Opening
  <2>2. \/ pc'[Owner] = pc[Owner]
        \/ pc[Owner] = "ready" /\ pc'[Owner] = "in_aclose" /\ proxy.inner
    BY <1>1, <1>3, <2>1, ProxyAssumption
  <2>3. \A u \in Tasks \ {Owner} : pc'[u] = pc[u] \/ pc'[u] = "in_aclose"
    BY <1>3
  <2> QED
    BY <1>1, <1>3, <1>4, <2>2, <2>3, OpeningKept DEF ProxyInv
<1>7. Closing'
  <2>1. \A u \in Tasks : pc[u] \notin {"in_aclose", "in_exit_aclose"}
    BY <1>1 DEF ProxyInv, Closing
  <2> QED
    BY <1>1, <1>3, <2>1 DEF Closing, At
<1> QED
  BY <1>1, <1>5, <1>6, <1>7 DEF ProxyInv, At

LEMMA AcloseReturnInv ==
  ASSUME NEW K, NEW TL, NEW WL, ProxyInv(K, TL, WL), NEW t \in Tasks, AcloseReturn(t)
  PROVE  /\ ProxyInv(K, TL, WL)' /\ UNCHANGED <<worker, done, queue, n, proxy>>
         /\ pc[t] \in {"in_aclose", "in_exit_aclose"} /\ proxy.closed /\ PoolQuiet /\ loop' = NoTask
         /\ pc' = [pc EXCEPT ![t] = AfterAclose(t)]
<1>1. /\ UNCHANGED <<worker, done, queue, n, proxy>> /\ loop' = NoTask /\ PoolQuiet
      /\ pc[t] \in {"in_aclose", "in_exit_aclose"} /\ pc' = [pc EXCEPT ![t] = AfterAclose(t)]
  BY DEF AcloseReturn, poolVars, Goto
<1>2. /\ pc \in [Tasks -> TL \cup ProxyLabels] /\ JobsOK(K) /\ DOMAIN n = Tasks
      /\ proxy \in [inner : BOOLEAN, closed : BOOLEAN] /\ worker \in WorkerType(K, WL \cup {"idle"})
  BY InvTypes
<1>3. AfterAclose(t) = IF pc[t] = "in_aclose" THEN "ready" ELSE "exited"
  BY DEF AfterAclose, At
<1>4. /\ pc' \in [Tasks -> TL \cup ProxyLabels]
      /\ pc'[t] = AfterAclose(t) /\ \A u \in Tasks \ {t} : pc'[u] = pc[u]
  BY <1>1, <1>2, <1>3 DEF ProxyLabels
<1>5. JobsOK(K)' /\ \A id, k : Somewhere(id, k)' => Somewhere(id, k)
  BY <1>1, <1>2, SameJobs
<1>6. (ProxyTypeOK(K, TL, WL) /\ OnceEach /\ Submitted(K))'
  <2>1. /\ DOMAIN n' = Tasks /\ worker' \in WorkerType(K, WL \cup {"idle"}) /\ loop' \in Tasks \cup {NoTask}
        /\ proxy' \in [inner : BOOLEAN, closed : BOOLEAN]
    BY <1>1, <1>2
  <2> QED
    BY <1>4, <1>5, <2>1, TypesInv
<1>7. /\ loop = t /\ proxy.closed
      /\ \A u \in Tasks \ {t} : pc[u] \notin {"in_aclose", "in_exit_aclose"}
  BY <1>1 DEF ProxyInv, Closing
<1>8. Opening'
  <2>1. \/ pc'[Owner] = pc[Owner]
        \/ /\ pc[Owner] \in {"in_aclose", "in_exit_aclose"} /\ pc'[Owner] \in {"ready", "exited"}
           /\ proxy.inner
    BY <1>1, <1>3, <1>4, ProxyAssumption DEF ProxyInv, Opening
  <2>2. \A u \in Tasks \ {Owner} : pc'[u] = pc[u] \/ pc'[u] = "ready"
    BY <1>1, <1>3, <1>4 DEF ProxyInv, Opening
  <2> QED
    BY <1>1, <1>5, <2>1, <2>2, OpeningKept DEF ProxyInv
<1>9. Closing'
  <2>1. PoolQuiet'
    BY <1>1 DEF PoolQuiet
  <2>2. \A u \in Tasks : pc'[u] \notin {"in_aclose", "in_exit_aclose"}
    BY <1>3, <1>4, <1>7
  <2> QED
    BY <1>1, <1>7, <2>1, <2>2 DEF Closing, At
<1> QED
  BY <1>1, <1>6, <1>7, <1>8, <1>9 DEF ProxyInv

LEMMA CancelInv ==
  ASSUME NEW K, NEW TL, NEW WL, ProxyInv(K, TL, WL), NEW t \in Tasks, Cancel(t)
  PROVE  /\ ProxyInv(K, TL, WL)' /\ UNCHANGED <<worker, done, n, proxy, loop>>
         /\ loop = NoTask /\ pc[t] \in {"entering", "awaiting", "exiting"}
         /\ (t # Owner => At(t, "awaiting"))
         /\ pc' = [pc EXCEPT ![t] = IF At(t, "awaiting") THEN "ready" ELSE "raised"]
         /\ \A id, k : InQueue(id, k)' => InQueue(id, k)
<1>1. /\ UNCHANGED <<worker, done, n, proxy, loop>> /\ loop = NoTask
      /\ pc[t] \in {"entering", "awaiting", "exiting"}
      /\ pc' = [pc EXCEPT ![t] = IF pc[t] = "awaiting" THEN "ready" ELSE "raised"]
  BY DEF Cancel, poolVars, Goto, At, Awaited, Me
<1>2. /\ pc \in [Tasks -> TL \cup ProxyLabels] /\ JobsOK(K) /\ DOMAIN n = Tasks /\ Len(queue) \in Nat
      /\ proxy \in [inner : BOOLEAN, closed : BOOLEAN] /\ worker \in WorkerType(K, WL \cup {"idle"})
      /\ loop \in Tasks \cup {NoTask}
  BY InvTypes, Places
<1>3. /\ pc' \in [Tasks -> TL \cup ProxyLabels]
      /\ pc'[t] = (IF pc[t] = "awaiting" THEN "ready" ELSE "raised")
      /\ \A u \in Tasks \ {t} : pc'[u] = pc[u]
  BY <1>1, <1>2 DEF ProxyLabels
<1>4. /\ JobsOK(K)' /\ (queue = <<>> => queue' = queue)
      /\ \A id, k : InQueue(id, k)' => InQueue(id, k)
  <2>1. DOMAIN queue = 1..Len(queue)
    BY <1>2, LenProperties DEF JobsOK
  <2>2. CASE \E i \in DOMAIN queue : queue[i].id = Me(t) /\ queue' = RemoveAt(queue, i)
    <3>1. PICK i \in 1..Len(queue) : queue' = RemoveAt(queue, i)
      BY <2>1, <2>2
    <3>2. Withdrawn(i)
      BY <1>1, <3>1 DEF Withdrawn, poolVars
    <3>3. queue # <<>>
      BY <1>2, <3>1, EmptySeq
    <3> QED
      BY <1>2, <3>2, <3>3, WithdrawnOK
  <2>3. CASE UNCHANGED queue
    BY <1>1, <1>2, <2>3, SameJobs DEF InQueue
  <2> QED
    BY <2>2, <2>3 DEF Cancel
<1>5. \A id, k : Somewhere(id, k)' => Somewhere(id, k)
  <2>1. \A id, k : (AtWork(id, k)' <=> AtWork(id, k)) /\ (AsOutcome(id, k)' <=> AsOutcome(id, k))
    BY <1>1 DEF AtWork, AsOutcome
  <2> QED
    BY <1>4, <2>1 DEF Somewhere
<1>6. (ProxyTypeOK(K, TL, WL) /\ OnceEach /\ Submitted(K))'
  <2>1. /\ DOMAIN n' = Tasks /\ worker' \in WorkerType(K, WL \cup {"idle"}) /\ loop' \in Tasks \cup {NoTask}
        /\ proxy' \in [inner : BOOLEAN, closed : BOOLEAN]
    BY <1>1, <1>2
  <2> QED
    BY <1>3, <1>4, <2>1, TypesInv
<1>7. t # Owner => pc[t] = "awaiting"
  BY <1>1 DEF ProxyInv, Opening
<1>8. Opening'
  <2>1. \/ pc'[Owner] = pc[Owner]
        \/ /\ pc[Owner] # "outside" /\ pc'[Owner] \notin {"outside", "entering", "exiting"}
           /\ pc'[Owner] \in {"raised", "gone"} \/ proxy.inner
           /\ pc[Owner] \notin {"exiting", "raised", "gone"} \/ pc'[Owner] \in {"raised", "gone"}
    BY <1>1, <1>3, ProxyAssumption DEF ProxyInv, Opening
  <2>2. \A u \in Tasks \ {Owner} : pc'[u] = pc[u] \/ pc'[u] = "ready"
    BY <1>3, <1>7
  <2> QED
    BY <1>1, <1>5, <2>1, <2>2, OpeningKept DEF ProxyInv
<1>9. Closing'
  <2>1. \A u \in Tasks : pc[u] \notin {"in_aclose", "in_exit_aclose"}
    BY <1>1, ProxyAssumption DEF ProxyInv, Closing
  <2>2. \A u \in Tasks : pc'[u] \notin {"in_aclose", "in_exit_aclose"}
    BY <1>3, <2>1
  <2>3. proxy.closed => PoolQuiet'
    BY <1>1, <1>4, <2>1 DEF ProxyInv, Closing, PoolQuiet
  <2>4. pc'[Owner] = "exited" => pc[Owner] = "exited"
    BY <1>3, ProxyAssumption
  <2> QED
    BY <1>1, <2>2, <2>3, <2>4 DEF ProxyInv, Closing, At
<1> QED
  BY <1>1, <1>4, <1>6, <1>7, <1>8, <1>9 DEF ProxyInv, At

(* Nobody awaits the outcome any more. *)
LEMMA DroppedInv ==
  ASSUME NEW K, NEW TL, NEW WL, ProxyInv(K, TL, WL), NEW o \in done, done' = done \ {o},
         UNCHANGED <<worker, taskVars>>
  PROVE  /\ ProxyInv(K, TL, WL)'
         /\ \A id, k : AsOutcome(id, k)' => AsOutcome(id, k)
         /\ \A id, k : Somewhere(id, k)' => Somewhere(id, k) /\ id # o.id
<1>1. UNCHANGED <<worker, proxy, queue, loop, pc, n>>
  BY DEF taskVars
<1>2. /\ pc \in [Tasks -> TL \cup ProxyLabels] /\ JobsOK(K) /\ DOMAIN n = Tasks
      /\ proxy \in [inner : BOOLEAN, closed : BOOLEAN] /\ worker \in WorkerType(K, WL \cup {"idle"})
      /\ loop \in Tasks \cup {NoTask}
  BY InvTypes
<1>3. /\ JobsOK(K)' /\ \A id, k : AsOutcome(id, k)' => AsOutcome(id, k)
      /\ \A id, k : Somewhere(id, k)' => Somewhere(id, k) /\ id # o.id
  BY <1>1, <1>2, TakenOK
<1>4. (ProxyTypeOK(K, TL, WL) /\ OnceEach /\ Submitted(K))'
  <2>1. /\ DOMAIN n' = Tasks /\ worker' \in WorkerType(K, WL \cup {"idle"}) /\ loop' \in Tasks \cup {NoTask}
        /\ proxy' \in [inner : BOOLEAN, closed : BOOLEAN] /\ pc' \in [Tasks -> TL \cup ProxyLabels]
    BY <1>1, <1>2
  <2> QED
    BY <1>3, <2>1, TypesInv
<1>5. Opening'
  BY <1>1, <1>3, OpeningKept DEF ProxyInv
<1>6. Closing'
  BY <1>1 DEF ProxyInv, Closing, PoolQuiet, At
<1> QED
  BY <1>3, <1>4, <1>5, <1>6 DEF ProxyInv

(* What a task resumes with: __aenter__ with its "create", __aexit__ with  *)
(* its "close", a call with neither.                                       *)
Entered(t, o) ==
  /\ t = Owner /\ At(t, "entering") /\ o.kind = "create"
  /\ pc' = [pc EXCEPT ![t] = IF o.ok THEN "ready" ELSE "raised"]
  /\ proxy' = [proxy EXCEPT !.inner = o.ok] /\ loop' = loop
Answered(t, o) ==
  /\ At(t, "awaiting") /\ o.kind \notin {"create", "close"}
  /\ pc' = [pc EXCEPT ![t] = "ready"] /\ UNCHANGED <<loop, proxy>>
Exited(t, o) ==
  /\ t = Owner /\ At(t, "exiting") /\ o.kind = "close"
  /\ proxy' = [proxy EXCEPT !.closed = TRUE]
  /\ IF proxy.closed THEN pc' = [pc EXCEPT ![t] = "exited"] /\ loop' = loop
     ELSE pc' = [pc EXCEPT ![t] = "in_exit_aclose"] /\ loop' = t

LEMMA ResumeCases ==
  ASSUME NEW K, NEW TL, NEW WL, ProxyInv(K, TL, WL), NEW t \in Tasks, Resume(t)
  PROVE  \E o \in done :
           /\ o.id = <<t, n[t]>> /\ done' = done \ {o} /\ UNCHANGED <<queue, worker, n>>
           /\ loop = NoTask
           /\ Entered(t, o) \/ Answered(t, o) \/ Exited(t, o)
<1>1. PICK o \in done :
        /\ o.id = Me(t) /\ done' = done \ {o}
        /\ CASE At(t, "entering") -> /\ Goto(t, IF o.ok THEN "ready" ELSE "raised")
                                     /\ proxy' = [proxy EXCEPT !.inner = o.ok]
                                     /\ UNCHANGED loop
             [] At(t, "awaiting") -> Goto(t, "ready") /\ UNCHANGED <<loop, proxy>>
             [] At(t, "exiting") -> /\ proxy' = [proxy EXCEPT !.closed = TRUE]
                                    /\ IF proxy.closed THEN Goto(t, "exited") /\ UNCHANGED loop
                                       ELSE Goto(t, "in_exit_aclose") /\ loop' = t
  BY DEF Resume
<1>2. /\ loop = NoTask /\ UNCHANGED <<queue, worker, n>>
      /\ pc[t] \in {"entering", "awaiting", "exiting"} /\ o.id = <<t, n[t]>>
  BY <1>1 DEF Resume, Awaited, Me
<1>3. Somewhere(o.id, o.kind)
  BY InvTypes, Places
<1>4. CASE At(t, "entering")
  <2>1. t = Owner /\ n[Owner] = 1
    BY <1>4 DEF ProxyInv, Opening, At
  <2>2. o.kind = "create"
    BY <1>2, <1>3, <2>1 DEF ProxyInv, Opening
  <2> QED
    BY <1>1, <1>2, <1>4, <2>1, <2>2 DEF Entered, Goto, At
<1>5. CASE At(t, "awaiting")
  <2>1. o.kind # "close"
    BY <1>2, <1>3, <1>5 DEF ProxyInv, Opening, At
  <2>2. o.kind # "create"
    <3>1. SUFFICES ASSUME o.kind = "create"
                   PROVE  FALSE
      OBVIOUS
    <3>2. t = Owner /\ ~proxy.inner
      BY <1>2, <1>3, <3>1 DEF ProxyInv, Opening
    <3> QED
      BY <1>5, <3>2 DEF ProxyInv, Opening, At
  <2> QED
    BY <1>1, <1>2, <1>5, <2>1, <2>2 DEF Answered, Goto, At
<1>6. CASE At(t, "exiting")
  <2>1. t = Owner
    BY <1>6 DEF ProxyInv, Opening, At
  <2>2. o.kind = "close"
    BY <1>2, <1>3, <1>6, <2>1 DEF ProxyInv, Opening
  <2> QED
    BY <1>1, <1>2, <1>6, <2>1, <2>2 DEF Exited, Goto, At
<1> QED
  BY <1>2, <1>4, <1>5, <1>6 DEF At

LEMMA ResumeInv ==
  ASSUME NEW K, NEW TL, NEW WL, ProxyInv(K, TL, WL), NEW t \in Tasks, NEW o \in done,
         o.id = <<t, n[t]>>, done' = done \ {o}, UNCHANGED <<queue, worker, n>>,
         loop = NoTask, Entered(t, o) \/ Answered(t, o) \/ Exited(t, o)
  PROVE  /\ ProxyInv(K, TL, WL)' /\ pc' \in [Tasks -> TL \cup ProxyLabels]
         /\ \A id, k : AsOutcome(id, k)' => AsOutcome(id, k)
         /\ \A id, k : Somewhere(id, k)' => Somewhere(id, k) /\ id # o.id
<1>2. /\ pc \in [Tasks -> TL \cup ProxyLabels] /\ JobsOK(K) /\ DOMAIN n = Tasks
      /\ proxy \in [inner : BOOLEAN, closed : BOOLEAN] /\ worker \in WorkerType(K, WL \cup {"idle"})
      /\ loop \in Tasks \cup {NoTask} /\ o.ok \in BOOLEAN
  BY InvTypes, Places DEF OutcomeType
<1>3. /\ JobsOK(K)' /\ \A id, k : AsOutcome(id, k)' => AsOutcome(id, k)
      /\ \A id, k : Somewhere(id, k)' => Somewhere(id, k) /\ id # o.id
  BY <1>2, TakenOK
<1>4. /\ pc' \in [Tasks -> TL \cup ProxyLabels] /\ proxy' \in [inner : BOOLEAN, closed : BOOLEAN]
      /\ loop' \in Tasks \cup {NoTask}
  BY <1>2 DEF Entered, Answered, Exited, ProxyLabels
<1>5. (ProxyTypeOK(K, TL, WL) /\ OnceEach /\ Submitted(K))'
  BY <1>2, <1>3, <1>4, TypesInv
<1>6. \A u \in Tasks \ {t} : pc'[u] = pc[u]
  BY <1>2 DEF Entered, Answered, Exited
<1>7. \A u \in Tasks : pc[u] \notin {"in_aclose", "in_exit_aclose"}
  BY ProxyAssumption DEF ProxyInv, Closing
<1>8. proxy.closed => queue = <<>> /\ worker.at = "idle"
  BY <1>7 DEF ProxyInv, Closing, PoolQuiet
<1>9. CASE Entered(t, o)
  <2>1. /\ t = Owner /\ o.kind = "create" /\ pc[Owner] = "entering"
        /\ pc'[Owner] = (IF o.ok THEN "ready" ELSE "raised")
        /\ proxy'.inner = o.ok /\ proxy'.closed = proxy.closed /\ loop' = loop
    BY <1>2, <1>9 DEF Entered, At
  <2>2. \A id, k : ~Somewhere(id, k)'
    <3>1. Somewhere(o.id, o.kind)
      BY <1>2, Places
    <3>2. ~proxy.inner /\ o.id = <<Owner, 1>>
      BY <2>1, <3>1 DEF ProxyInv, Opening
    <3>3. \A id, k : Somewhere(id, k) => id = <<Owner, 1>>
      BY <3>2 DEF ProxyInv, Opening
    <3> QED
      BY <1>3, <3>2, <3>3
  <2>3. n'[Owner] = 1
    BY <2>1 DEF ProxyInv, Opening, At
  <2>4. Opening'
    BY <1>6, <2>1, <2>2, <2>3 DEF ProxyInv, Opening, At
  <2>5. Closing'
    <3>1. \A u \in Tasks : pc'[u] \notin {"in_aclose", "in_exit_aclose"} /\ pc'[Owner] # "exited"
      BY <1>6, <1>7, <2>1
    <3> QED
      BY <1>8, <2>1, <3>1 DEF Closing, At, PoolQuiet
  <2> QED
    BY <1>3, <1>4, <1>5, <2>4, <2>5 DEF ProxyInv
<1>10. CASE Answered(t, o)
  <2>1. pc[t] = "awaiting" /\ pc'[t] = "ready" /\ UNCHANGED <<loop, proxy>>
    BY <1>2, <1>10 DEF Answered, At
  <2>2. pc'[Owner] = pc[Owner] \/ (pc[Owner] = "awaiting" /\ pc'[Owner] = "ready" /\ proxy.inner)
    BY <1>6, <2>1, ProxyAssumption DEF ProxyInv, Opening
  <2>3. Opening'
    <3>1. \A u \in Tasks \ {Owner} : pc'[u] = pc[u] \/ pc'[u] = "ready"
      BY <1>6, <2>1
    <3> QED
      BY <1>3, <2>1, <2>2, <3>1, OpeningKept DEF ProxyInv
  <2>4. Closing'
    <3>1. \A u \in Tasks : pc'[u] \notin {"in_aclose", "in_exit_aclose"}
      BY <1>6, <1>7, <2>1
    <3>2. pc'[Owner] = "exited" => pc[Owner] = "exited"
      BY <2>2
    <3> QED
      BY <1>8, <2>1, <3>1, <3>2 DEF ProxyInv, Closing, At, PoolQuiet
  <2> QED
    BY <1>3, <1>4, <1>5, <2>3, <2>4 DEF ProxyInv
<1>11. CASE Exited(t, o)
  <2>1. /\ t = Owner /\ pc[Owner] = "exiting" /\ o.kind = "close"
        /\ proxy'.closed /\ proxy'.inner = proxy.inner
        /\ IF proxy.closed THEN pc'[Owner] = "exited" /\ loop' = loop
           ELSE pc'[Owner] = "in_exit_aclose" /\ loop' = Owner
    BY <1>2, <1>11 DEF Exited, At
  <2>2. \A id, k : Somewhere(id, k)' => k # "close"
    <3>1. Somewhere(o.id, o.kind)
      BY <1>2, Places
    <3> QED
      BY <1>3, <2>1, <3>1 DEF ProxyInv, Opening
  <2>3. Opening'
    <3>1. proxy.inner
      BY <2>1 DEF ProxyInv, Opening
    <3> QED
      BY <1>3, <1>6, <2>1, <2>2, <3>1, OpeningKept DEF ProxyInv
  <2>4. Closing'
    <3>1. \A u \in Tasks : pc'[u] \in {"in_aclose", "in_exit_aclose"} =>
                             u = Owner /\ ~proxy.closed /\ loop' = Owner
      BY <1>6, <1>7, <2>1
    <3>2. proxy.closed \/ pc'[Owner] = "in_exit_aclose"
      BY <2>1
    <3> QED
      BY <1>8, <2>1, <3>1, <3>2, ProxyAssumption DEF Closing, At, PoolQuiet
  <2> QED
    BY <1>3, <1>4, <1>5, <2>3, <2>4 DEF ProxyInv
<1> QED
  BY <1>9, <1>10, <1>11

(* The worker's steps. *)
LEMMA WorkerKeeps ==
  ASSUME NEW K, NEW TL, NEW WL, ProxyInv(K, TL, WL), ~PoolQuiet,
         JobsOK(K)', worker' \in WorkerType(K, WL \cup {"idle"}), UNCHANGED <<proxy, loop, pc, n>>,
         \A id, k : Somewhere(id, k)' => Somewhere(id, k)
  PROVE  ProxyInv(K, TL, WL)'
<1>1. (ProxyTypeOK(K, TL, WL) /\ OnceEach /\ Submitted(K))'
  <2>1. /\ DOMAIN n' = Tasks /\ loop' \in Tasks \cup {NoTask}
        /\ proxy' \in [inner : BOOLEAN, closed : BOOLEAN] /\ pc' \in [Tasks -> TL \cup ProxyLabels]
    BY InvTypes
  <2> QED
    BY <2>1, TypesInv
<1>2. Opening'
  BY OpeningKept DEF ProxyInv
<1>3. Closing'
  BY DEF ProxyInv, Closing, At
<1> QED
  BY <1>1, <1>2, <1>3 DEF ProxyInv

LEMMA TakeInv ==
  ASSUME NEW K, NEW TL, NEW WL, "start" \in WL, ProxyInv(K, TL, WL), Take
  PROVE  /\ ProxyInv(K, TL, WL)' /\ UNCHANGED <<proxy, done, loop, pc, n>>
         /\ worker.at = "idle" /\ worker'.at = "start" /\ worker'.kind \in K /\ worker'.job \in Ids
         /\ InQueue(worker'.job, worker'.kind)
         /\ \A id, k : InQueue(id, k)' => InQueue(id, k)
         /\ \A id, k : AtWork(id, k)' => InQueue(id, k)
<1>1. UNCHANGED <<proxy, done, loop, pc, n>> /\ worker.at = "idle" /\ ~PoolQuiet
  BY DEF Take, PoolQuiet
<1>2. JobsOK(K) /\ "start" \in WL \cup {"idle"}
  BY InvTypes
<1>3. /\ JobsOK(K)' /\ worker' \in WorkerType(K, WL \cup {"idle"})
      /\ worker'.at = "start" /\ worker'.kind \in K
      /\ InQueue(worker'.job, worker'.kind) /\ worker'.job \in Ids
      /\ \A id, k : InQueue(id, k)' => InQueue(id, k)
      /\ \A id, k : AtWork(id, k)' => InQueue(id, k)
  BY <1>2, TakeOK
<1>4. \A id, k : Somewhere(id, k)' => Somewhere(id, k)
  <2>1. \A id, k : AsOutcome(id, k)' <=> AsOutcome(id, k)
    BY <1>1 DEF AsOutcome
  <2> QED
    BY <1>3, <2>1 DEF Somewhere
<1>5. ProxyInv(K, TL, WL)'
  BY <1>1, <1>3, <1>4, WorkerKeeps
<1> QED
  BY <1>1, <1>3, <1>5

LEMMA ToInv ==
  ASSUME NEW K, NEW TL, NEW WL, ProxyInv(K, TL, WL), worker.at # "idle",
         NEW label \in WL, To(label), UNCHANGED taskVars
  PROVE  /\ ProxyInv(K, TL, WL)' /\ UNCHANGED <<done, proxy, queue, loop, pc, n>>
         /\ worker'.at = label /\ worker'.job = worker.job /\ worker'.kind = worker.kind
<1>1. UNCHANGED <<proxy, queue, loop, pc, n>> /\ ~PoolQuiet /\ label \in WL \cup {"idle"}
  BY DEF taskVars, PoolQuiet
<1>2. JobsOK(K) /\ worker \in WorkerType(K, WL \cup {"idle"})
  BY InvTypes
<1>3. /\ JobsOK(K)' /\ worker' \in WorkerType(K, WL \cup {"idle"})
      /\ worker'.at = label /\ worker'.job = worker.job /\ worker'.kind = worker.kind
      /\ done' = done
  BY <1>1, <1>2, ToOK
<1>4. \A id, k : Somewhere(id, k)' => Somewhere(id, k)
  <2>1. \A id, k : AtWork(id, k)' => AtWork(id, k)
    BY <1>3 DEF AtWork
  <2>2. \A id, k : (InQueue(id, k)' <=> InQueue(id, k)) /\ (AsOutcome(id, k)' <=> AsOutcome(id, k))
    BY <1>1, <1>3 DEF InQueue, AsOutcome
  <2> QED
    BY <2>1, <2>2 DEF Somewhere
<1>5. ProxyInv(K, TL, WL)'
  BY <1>1, <1>3, <1>4, WorkerKeeps
<1> QED
  BY <1>1, <1>3, <1>5

LEMMA ReturnInv ==
  ASSUME NEW K, NEW TL, NEW WL, ProxyInv(K, TL, WL), worker.at # "idle",
         NEW ok \in BOOLEAN, Return(ok), UNCHANGED taskVars
  PROVE  /\ ProxyInv(K, TL, WL)' /\ UNCHANGED <<proxy, queue, loop, pc, n>> /\ worker'.at = "idle"
         /\ done' = done \cup {[id |-> worker.job, kind |-> worker.kind, ok |-> ok]}
         /\ \A id, k : AsOutcome(id, k)' => AsOutcome(id, k) \/ AtWork(id, k)
<1>1. UNCHANGED <<proxy, queue, loop, pc, n>> /\ ~PoolQuiet /\ "idle" \in WL \cup {"idle"}
  BY DEF taskVars, PoolQuiet
<1>2. JobsOK(K) /\ worker \in WorkerType(K, WL \cup {"idle"})
  BY InvTypes
<1>3. /\ JobsOK(K)' /\ worker' \in WorkerType(K, WL \cup {"idle"}) /\ worker'.at = "idle"
      /\ done' = done \cup {[id |-> worker.job, kind |-> worker.kind, ok |-> ok]}
      /\ \A id, k : AsOutcome(id, k)' => AsOutcome(id, k) \/ AtWork(id, k)
  BY <1>1, <1>2, ReturnOK
<1>4. \A id, k : Somewhere(id, k)' => Somewhere(id, k)
  <2>1. \A id, k : (InQueue(id, k)' <=> InQueue(id, k)) /\ ~AtWork(id, k)'
    BY <1>1, <1>3 DEF InQueue, AtWork
  <2> QED
    BY <1>3, <2>1 DEF Somewhere
<1>5. ProxyInv(K, TL, WL)'
  BY <1>1, <1>3, <1>4, WorkerKeeps
<1> QED
  BY <1>1, <1>3, <1>5

(* A pool that is quiet stays so, unless a task submits a job. *)
LEMMA QuietKept ==
  ASSUME NEW K, JobsOK(K)', PoolQuiet, worker' = worker,
         \A id, kind : InQueue(id, kind)' => InQueue(id, kind)
  PROVE  PoolQuiet'
<1>1. Len(queue) = 0
  BY EmptySeq DEF PoolQuiet
<1>2. \A id, kind : ~InQueue(id, kind)'
  <2>1. \A id, kind : ~InQueue(id, kind)
    BY <1>1 DEF InQueue
  <2> QED
    BY <2>1
<1>3. queue' \in Seq(JobType(K)) /\ Len(queue') \in Nat
  BY LenProperties DEF JobsOK
<1>4. ASSUME 1 \in 1..Len(queue')
      PROVE  FALSE
  <2>1. ~InQueue(queue[1].id, queue[1].kind)'
    BY <1>2
  <2> QED
    BY <1>4, <2>1 DEF InQueue
<1>5. Len(queue') = 0
  BY <1>3, <1>4
<1>6. queue' = <<>>
  <2>1. \A q \in Seq(JobType(K)) : Len(q) = 0 => q = <<>>
    BY EmptySeq
  <2> QED
    BY <1>3, <1>5, <2>1
<1> QED
  BY <1>6 DEF PoolQuiet

(* The labels a proxy's module adds: a task that goes on with something of *)
(* its own, and takes up what it was at; or one that is gone for good.     *)
LEMMA RelabelInv ==
  ASSUME NEW K, NEW TL, NEW WL, KindsOK(K, TL), ProxyInv(K, TL, WL), NEW t \in Tasks, NEW label,
         UNCHANGED <<worker, done, proxy, queue, n>>, pc' = [pc EXCEPT ![t] = label],
         loop' \in Tasks \cup {NoTask},
         \/ /\ pc[t] \in TL \cup {"ready"} /\ pc[t] # "gone"
            /\ label \in TL \cup {"ready"} /\ label # "gone"
         \/ pc[t] \in {"ready", "exited", "raised"} /\ label = "gone" /\ label \in TL,
         loop' = loop \/ \A u \in Tasks : pc[u] \notin {"in_aclose", "in_exit_aclose"}
  PROVE  ProxyInv(K, TL, WL)'
<1>1. /\ pc \in [Tasks -> TL \cup ProxyLabels] /\ JobsOK(K) /\ DOMAIN n = Tasks
      /\ proxy \in [inner : BOOLEAN, closed : BOOLEAN] /\ worker \in WorkerType(K, WL \cup {"idle"})
  BY InvTypes
<1>2. "ready" \in ProxyLabels /\ label \in TL \cup ProxyLabels
  BY DEF ProxyLabels
<1>3. /\ pc' \in [Tasks -> TL \cup ProxyLabels] /\ pc'[t] = label
      /\ \A u \in Tasks \ {t} : pc'[u] = pc[u]
  BY <1>1, <1>2
<1>4. \A l \in TL : l \notin {"outside", "entering", "ready", "awaiting", "in_aclose",
                            "exiting", "in_exit_aclose", "exited", "raised"}
  BY DEF KindsOK, ProxyLabels
<1>5. JobsOK(K)' /\ \A id, k : Somewhere(id, k)' => Somewhere(id, k)
  BY <1>1, SameJobs
<1>6. (ProxyTypeOK(K, TL, WL) /\ OnceEach /\ Submitted(K))'
  <2>1. /\ DOMAIN n' = Tasks /\ worker' \in WorkerType(K, WL \cup {"idle"})
        /\ proxy' \in [inner : BOOLEAN, closed : BOOLEAN]
    BY <1>1
  <2> QED
    BY <1>3, <1>5, <2>1, TypesInv
<1>7. Opening'
  <2>1. label = "ready" \/ label \in TL
    OBVIOUS
  <2>2. label \notin {"outside", "entering", "exiting", "in_exit_aclose", "exited", "raised"}
    BY <1>4, <2>1
  <2>3. \A u \in Tasks \ {Owner} :
          \/ pc'[u] = pc[u]
          \/ pc'[u] \notin {"outside", "entering", "exiting", "in_exit_aclose", "exited", "raised"}
    BY <1>3, <2>2
  <2>4. \/ pc'[Owner] = pc[Owner]
        \/ /\ pc[Owner] # "outside" /\ pc'[Owner] \notin {"outside", "entering", "exiting"}
           /\ pc'[Owner] \in {"raised", "gone"} \/ proxy.inner
           /\ pc[Owner] \notin {"exiting", "raised", "gone"} \/ pc'[Owner] \in {"raised", "gone"}
    <3>1. CASE t # Owner
      BY <1>3, <3>1, ProxyAssumption
    <3>2. CASE t = Owner /\ label = "gone"
      BY <1>3, <3>2
    <3>3. CASE t = Owner /\ label # "gone"
      <4>1. pc[Owner] = "ready" \/ pc[Owner] \in TL
        BY <3>3
      <4>2. pc[Owner] \notin {"outside", "entering", "exiting", "raised", "gone"}
        BY <1>4, <3>3, <4>1
      <4> QED
        BY <1>3, <2>2, <3>3, <4>2 DEF ProxyInv, Opening
    <3> QED
      BY <3>1, <3>2, <3>3
  <2> QED
    BY <1>5, <2>3, <2>4, OpeningKept DEF ProxyInv
<1>8. Closing'
  <2>1. label \notin {"in_aclose", "in_exit_aclose", "exited"}
    BY <1>4
  <2>2. pc[t] \notin {"in_aclose", "in_exit_aclose"}
    BY <1>4
  <2>3. \A u \in Tasks : pc'[u] \in {"in_aclose", "in_exit_aclose"} <=> pc[u] \in {"in_aclose", "in_exit_aclose"}
    BY <1>3, <2>1, <2>2
  <2>4. pc'[Owner] = "exited" => pc[Owner] = "exited"
    BY <1>3, <2>1, ProxyAssumption
  <2>5. PoolQuiet' <=> PoolQuiet
    BY DEF PoolQuiet
  <2> QED
    BY <2>3, <2>4, <2>5 DEF ProxyInv, Closing, At
<1> QED
  BY <1>6, <1>7, <1>8 DEF ProxyInv

LEMMA StutterInv ==
  ASSUME NEW K, NEW TL, NEW WL, ProxyInv(K, TL, WL), UNCHANGED proxyVars
  PROVE  ProxyInv(K, TL, WL)'
<1>1. UNCHANGED <<worker, done, proxy, queue, loop, pc, n>>
  BY DEF proxyVars, poolVars, taskVars
<1>2. JobsOK(K)' /\ \A id, k : Somewhere(id, k)' => Somewhere(id, k)
  BY <1>1, InvTypes, SameJobs
<1>3. (ProxyTypeOK(K, TL, WL) /\ OnceEach /\ Submitted(K))'
  <2>1. /\ DOMAIN n' = Tasks /\ worker' \in WorkerType(K, WL \cup {"idle"}) /\ loop' \in Tasks \cup {NoTask}
        /\ proxy' \in [inner : BOOLEAN, closed : BOOLEAN] /\ pc' \in [Tasks -> TL \cup ProxyLabels]
    BY <1>1, InvTypes
  <2> QED
    BY <1>2, <2>1, TypesInv
<1>4. Opening'
  BY <1>1, <1>2, OpeningKept DEF ProxyInv
<1>5. Closing'
  BY <1>1 DEF ProxyInv, Closing, PoolQuiet, At
<1> QED
  BY <1>3, <1>4, <1>5 DEF ProxyInv

LEMMA InitInv ==
  ASSUME NEW K, NEW TL, NEW WL, "close" \in K, ProxyInit
  PROVE  ProxyInv(K, TL, WL) /\ \A id, k : ~Somewhere(id, k)
<1>1. Len(queue) = 0 /\ queue \in Seq([id : Ids, kind : K])
  BY EmptySeq DEF ProxyInit
<1>2. \A id, k : ~Somewhere(id, k)
  BY <1>1 DEF ProxyInit, Somewhere, InQueue, AtWork, AsOutcome
<1>3. OnceEach /\ Submitted(K)
  BY <1>1, <1>2 DEF ProxyInit, OnceEach, Submitted
<1>4. ProxyTypeOK(K, TL, WL)
  BY <1>1, ProxyAssumption DEF ProxyInit, ProxyTypeOK
<1>5. Opening
  BY <1>2, ProxyAssumption DEF ProxyInit, Opening, At
<1>6. Closing
  BY ProxyAssumption DEF ProxyInit, Closing, At
<1> QED
  BY <1>2, <1>3, <1>4, <1>5, <1>6 DEF ProxyInv
================================================================================
