------------------------------ MODULE StdCapture ------------------------------
(***************************************************************************)
(* _core/stdcapture.py: capture_c_stdout, which BatchProgram.optimizer_debug *)
(* wraps around a C function that prints.  It puts a pipe in the place of  *)
(* file descriptor 1, drains it in a thread of its own, and puts the saved *)
(* descriptor back.  Descriptors are numbers of one table that the process *)
(* shares: dup and pipe take the lowest ones that are free, and a number   *)
(* means whatever the table holds when it is used.                         *)
(*                                                                         *)
(* External: pipes, stdio's buffer, and the C functions that print, in     *)
(* chunks of 4096 bytes, the drain thread's read: the captured one, and    *)
(* those called outside captures (ir.py:79-83), whose output may stay in   *)
(* stdio.  fflush is assumed to be found, and dup, pipe and Thread.start   *)
(* to succeed.                                                             *)
(***************************************************************************)
EXTENDS Integers, Sequences, FiniteSets, SequencesExt

CONSTANTS
  Threads,       \* Python threads that capture
  MaxCaptures,   \* bound: captures per thread
  MaxPrints,     \* bound: chunks a captured call of each thread prints
  MaxOutside,    \* bound: chunks each thread prints outside captures
  Capacity       \* chunks a pipe holds

Captures == Threads \X (1..MaxCaptures)

(* Who prints: the captured call of a capture, or a thread outside them.    *)
Outside(t) == <<t, 0>>
Sources == Captures \cup {Outside(t) : t \in Threads}
Bound(s) == IF s \in Captures THEN MaxPrints[s[1]] ELSE MaxOutside[s[1]]
Chunks == UNION {{s} \X (1..Bound(s)) : s \in Sources}

Fds == 1..(1 + 3 * Cardinality(Threads))     \* 1, and saved, r and w per thread

(* What a number stands for: nothing, the process's stdout, an end of a pipe *)
Nothing == <<"closed">>
Stdout == <<"stdout">>
ReadEnd(c) == <<"r", c>>
WriteEnd(c) == <<"w", c>>
Files == {Nothing, Stdout} \cup {ReadEnd(c) : c \in Captures} \cup {WriteEnd(c) : c \in Captures}

ASSUME ConstantsAssumption ==
  /\ IsFiniteSet(Threads) /\ MaxCaptures \in Nat
  /\ MaxPrints \in [Threads -> Nat] /\ MaxOutside \in [Threads -> Nat]
  /\ Capacity \in Nat \ {0}

VARIABLES
  fd,        \* the process's descriptor table
  pipe,      \* external: what each capture's pipe holds
  stdio,     \* external: what printf has put in stdout's buffer
  console,   \* history: the chunks that reached the process's stdout
  overlapped, \* history: a capture has begun, or a thread printed, inside the capture of another
  printed,   \* history: what each source has printed
  left,      \* history: what each capture has found in stdio when it redirected fd 1
  buf,       \* the BytesIO of each capture
  drain,     \* each capture's drain thread, its r_fd, and the file it is reading from
  pc, frame  \* each capturing thread, and its locals

vars == <<fd, pipe, stdio, console, overlapped, printed, left, buf, drain, pc, frame>>

Labels == {"idle", "dup", "pipe", "redirect", "close_w", "start", "body", "flush", "restore",
           "close_saved", "close_r", "join"}

TypeOK ==
  /\ fd \in [Fds -> Files]
  /\ pipe \in [Captures -> Seq(Chunks)] /\ \A c \in Captures : Len(pipe[c]) <= Capacity
  /\ stdio \in Seq(Chunks) /\ console \subseteq Chunks /\ overlapped \in BOOLEAN
  /\ printed \in [Sources -> Seq(Chunks)] /\ left \in [Captures -> Seq(Chunks)]
  /\ buf \in [Captures -> Seq(Chunks)]
  /\ drain \in [Captures -> [at : {"none", "ready", "reading", "done"}, r : Fds, from : Files]]
  /\ pc \in [Threads -> Labels]
  /\ frame \in [Threads -> [n : 0..MaxCaptures, saved : Fds, r : Fds, w : Fds]]

Init ==
  /\ fd = [n \in Fds |-> IF n = 1 THEN Stdout ELSE Nothing]
  /\ pipe = [c \in Captures |-> <<>>]
  /\ stdio = <<>> /\ console = {} /\ overlapped = FALSE
  /\ printed = [s \in Sources |-> <<>>] /\ left = [c \in Captures |-> <<>>]
  /\ buf = [c \in Captures |-> <<>>]
  /\ drain = [c \in Captures |-> [at |-> "none", r |-> 1, from |-> Nothing]]
  /\ pc = [t \in Threads |-> "idle"]
  /\ frame = [t \in Threads |-> [n |-> 0, saved |-> 1, r |-> 1, w |-> 1]]

-----------------------------------------------------------------------------
At(t, label) == pc[t] = label
Goto(t, label) == pc' = [pc EXCEPT ![t] = label]
Me(t) == <<t, frame[t].n>>

Lowest(S) == CHOOSE n \in S : \A m \in S : n <= m
Free == {n \in Fds : fd[n] = Nothing}

(* An end of a pipe is open while a number stands for it; the read end also *)
(* while a read on it is under way.                                         *)
Reading(d, c) == drain[d].at = "reading" /\ drain[d].from = ReadEnd(c)
Writable(c) == \E n \in Fds : fd[n] = WriteEnd(c)
Readable(c) == (\E n \in Fds : fd[n] = ReadEnd(c)) \/ \E d \in Captures : Reading(d, c)

external == <<pipe, stdio, console, overlapped, printed, left, buf, drain>>

(* A capture is in progress. *)
Capturing == \E u \in Threads : ~At(u, "idle")

(* sys.stdout.flush(), of Python's buffer: C's is left as it is *)
Begin(t) ==
  /\ At(t, "idle") /\ frame[t].n < MaxCaptures /\ Goto(t, "dup")
  /\ frame' = [frame EXCEPT ![t].n = @ + 1]
  /\ overlapped' = (overlapped \/ Capturing)
  /\ UNCHANGED <<fd, pipe, stdio, console, printed, left, buf, drain>>

(* saved_fd = os.dup(1) *)
Dup(t) ==
  /\ At(t, "dup") /\ Goto(t, "pipe")
  /\ frame' = [frame EXCEPT ![t].saved = Lowest(Free)]
  /\ fd' = [fd EXCEPT ![Lowest(Free)] = fd[1]]
  /\ UNCHANGED external

(* r_fd, w_fd = os.pipe() *)
Pipe(t) ==
  LET r == Lowest(Free)  w == Lowest(Free \ {r}) IN
  /\ At(t, "pipe") /\ Goto(t, "redirect")
  /\ frame' = [frame EXCEPT ![t].r = r, ![t].w = w]
  /\ fd' = [fd EXCEPT ![r] = ReadEnd(Me(t)), ![w] = WriteEnd(Me(t))]
  /\ UNCHANGED external

(* os.dup2(w_fd, 1) *)
Redirect(t) ==
  /\ At(t, "redirect") /\ Goto(t, "close_w")
  /\ fd' = [fd EXCEPT ![1] = fd[frame[t].w]]
  /\ left' = [left EXCEPT ![Me(t)] = stdio]
  /\ UNCHANGED <<pipe, stdio, console, overlapped, printed, buf, drain, frame>>

Close(t, from, n, to) ==
  /\ At(t, from) /\ Goto(t, to)
  /\ fd' = [fd EXCEPT ![n] = Nothing]
  /\ UNCHANGED <<external, frame>>

CloseW(t) == Close(t, "close_w", frame[t].w, "start")

(* MUTANT of Start: no draining thread *)
StartNone(t) ==
  /\ At(t, "start") /\ Goto(t, "body")
  /\ drain' = [drain EXCEPT ![Me(t)].at = "done"]
  /\ UNCHANGED <<fd, pipe, stdio, console, overlapped, printed, left, buf, frame>>

(* thread.start() *)
Start(t) ==
  /\ At(t, "start") /\ Goto(t, "body")
  /\ drain' = [drain EXCEPT ![Me(t)].at = "ready", ![Me(t)].r = frame[t].r]
  /\ UNCHANGED <<fd, pipe, stdio, console, overlapped, printed, left, buf, frame>>

-----------------------------------------------------------------------------
(* A C function prints, into stdio's buffer ... *)
Printf(s) ==
  LET chunk == <<s, Len(printed[s]) + 1>> IN
  /\ chunk \in Chunks
  /\ printed' = [printed EXCEPT ![s] = Append(@, chunk)]
  /\ stdio' = Append(stdio, chunk)
  /\ UNCHANGED <<fd, pipe, console, left, buf, drain, pc, frame>>

(* ... the captured one, or another, that of IRNode.print(). *)
Emit(t) == At(t, "body") /\ Printf(Me(t)) /\ UNCHANGED overlapped
PrintOutside(t) ==
  At(t, "idle") /\ Printf(Outside(t)) /\ overlapped' = (overlapped \/ Capturing)

BodyReturns(t) ==
  /\ At(t, "body") /\ Goto(t, "flush")
  /\ UNCHANGED <<fd, external, frame>>

(* write(1, ...), by a C function that prints or by fflush: it waits while *)
(* the pipe is full and somebody could read it, and fails with EPIPE, the  *)
(* chunk lost, when nobody can.                                            *)
WriteOut ==
  /\ stdio # <<>> /\ stdio' = Tail(stdio)
  /\ \/ /\ fd[1] = Stdout
        /\ console' = console \cup {Head(stdio)} /\ UNCHANGED pipe
     \/ \E c \in Captures :
          /\ fd[1] = WriteEnd(c) /\ Readable(c) /\ Len(pipe[c]) < Capacity
          /\ pipe' = [pipe EXCEPT ![c] = Append(@, Head(stdio))] /\ UNCHANGED console
     \/ \E c \in Captures :
          /\ fd[1] = WriteEnd(c) /\ ~Readable(c)
          /\ UNCHANGED <<pipe, console>>
  /\ UNCHANGED <<fd, printed, left, buf, drain, pc, frame>>

Write(t) == pc[t] \in {"body", "flush"} /\ WriteOut /\ UNCHANGED overlapped
WriteOutside(t) == At(t, "idle") /\ WriteOut /\ overlapped' = (overlapped \/ Capturing)

(* MUTANT of Flush: _fflush_stdout is not called *)
FlushNot(t) ==
  /\ At(t, "flush") /\ Goto(t, "restore")
  /\ UNCHANGED <<fd, external, frame>>

(* _fflush_stdout() returns *)
Flush(t) ==
  /\ At(t, "flush") /\ stdio = <<>> /\ Goto(t, "restore")
  /\ UNCHANGED <<fd, external, frame>>

(* MUTANT of Restore: fd 1 is left as it is *)
RestoreNot(t) ==
  /\ At(t, "restore") /\ Goto(t, "close_saved")
  /\ UNCHANGED <<fd, external, frame>>

(* os.dup2(saved_fd, 1) *)
Restore(t) ==
  /\ At(t, "restore") /\ Goto(t, "close_saved")
  /\ fd' = [fd EXCEPT ![1] = fd[frame[t].saved]]
  /\ UNCHANGED <<external, frame>>

(* MUTANT of CloseSaved: the duplicate stays open *)
CloseSavedNot(t) ==
  /\ At(t, "close_saved") /\ Goto(t, "close_r")
  /\ UNCHANGED <<fd, external, frame>>

CloseSaved(t) == Close(t, "close_saved", frame[t].saved, "close_r")
CloseR(t) == Close(t, "close_r", frame[t].r, "join")

(* thread.join(timeout=1.0): the second passes only when the drain thread  *)
(* waits for somebody else, never when it has something left to do.        *)
Blocked(c) ==
  /\ drain[c].at = "reading"
  /\ \/ drain[c].from = Stdout
     \/ \E p \in Captures : Reading(c, p) /\ pipe[p] = <<>> /\ Writable(p)

Join(t) ==
  /\ At(t, "join") /\ Goto(t, "idle")
  /\ drain[Me(t)].at = "done" \/ Blocked(Me(t))
  /\ UNCHANGED <<fd, external, frame>>

-----------------------------------------------------------------------------
(* The drain thread of capture c: os.read(r_fd, 4096), looked up in the    *)
(* table when it is called, an OSError if the number stands for nothing    *)
(* or for a write end (a read of the stdout of the process never returns); *)
(* then a chunk, or b"" when the pipe is empty and nobody can write to it. *)
Stop(c) == drain' = [drain EXCEPT ![c].at = "done"]

ReadCall(c) ==
  LET file == fd[drain[c].r] IN
  /\ drain[c].at = "ready"
  /\ IF file = Stdout \/ \E p \in Captures : file = ReadEnd(p)
       THEN drain' = [drain EXCEPT ![c].at = "reading", ![c].from = file]
       ELSE Stop(c)
  /\ UNCHANGED <<fd, pipe, stdio, console, overlapped, printed, left, buf, pc, frame>>

(* MUTANT of ReadChunk: each chunk is written over the one before it *)
ReadChunkOver(c) ==
  \E p \in Captures :
    /\ Reading(c, p) /\ pipe[p] # <<>>
    /\ pipe' = [pipe EXCEPT ![p] = Tail(@)]
    /\ buf' = [buf EXCEPT ![c] = <<Head(pipe[p])>>]
    /\ drain' = [drain EXCEPT ![c].at = "ready"]
    /\ UNCHANGED <<fd, stdio, console, overlapped, printed, left, pc, frame>>

ReadChunk(c) ==
  \E p \in Captures :
    /\ Reading(c, p) /\ pipe[p] # <<>>
    /\ pipe' = [pipe EXCEPT ![p] = Tail(@)]
    /\ buf' = [buf EXCEPT ![c] = Append(@, Head(pipe[p]))]
    /\ drain' = [drain EXCEPT ![c].at = "ready"]
    /\ UNCHANGED <<fd, stdio, console, overlapped, printed, left, pc, frame>>

ReadEof(c) ==
  /\ \E p \in Captures : Reading(c, p) /\ pipe[p] = <<>> /\ ~Writable(p)
  /\ Stop(c)
  /\ UNCHANGED <<fd, pipe, stdio, console, overlapped, printed, left, buf, pc, frame>>

-----------------------------------------------------------------------------
Run(t) ==
  \/ Dup(t) \/ Pipe(t) \/ Redirect(t) \/ CloseW(t) \/ Start(t)
  \/ BodyReturns(t) \/ Write(t) \/ Flush(t)
  \/ Restore(t) \/ CloseSaved(t) \/ CloseR(t) \/ Join(t)

Drain(c) == ReadCall(c) \/ ReadChunk(c) \/ ReadEof(c)

(* Every thread has used up its bound of captures. *)
Finished == (\A t \in Threads : At(t, "idle") /\ frame[t].n = MaxCaptures) /\ UNCHANGED vars

Next ==
  \/ \E t \in Threads : Begin(t) \/ Emit(t) \/ Run(t) \/ PrintOutside(t) \/ WriteOutside(t)
  \/ \E c \in Captures : Drain(c)
  \/ Finished

Spec == Init /\ [][Next]_vars

(* The interpreter and the kernel run every thread that can go on. *)
FairSpec ==
  /\ Spec
  /\ \A t \in Threads : WF_vars(Run(t))
  /\ \A c \in Captures : WF_vars(Drain(c))

-----------------------------------------------------------------------------
(* PROPERTIES *)

AllIdle == \A t \in Threads : At(t, "idle")

(* As long as nobody captures or prints inside another thread's capture:   *)
(* fd 1 is the process's stdout again when the capture is over; its buffer *)
(* holds, in order and from the first chunk on, what C functions outside   *)
(* captures had left in stdio, which nothing flushes before fd 1 is        *)
(* redirected (stdcapture.py:81-84), then what its own call has printed,   *)
(* and nothing of another capture's; and nothing printed inside it reaches *)
(* the process's stdout.                                                   *)
StdoutRestored == ~overlapped /\ AllIdle => fd[1] = Stdout
CapturedInOrder ==
  ~overlapped => \A c \in Captures :
    /\ IsPrefix(buf[c], left[c] \o printed[c])
    /\ \A i \in DOMAIN left[c] : left[c][i][1] \notin Captures
NothingEscapes == ~overlapped => \A chunk \in console : chunk[1] \notin Captures

(* tests/test_stdcapture.py, test_no_fd_leak_after_capture: between        *)
(* captures no descriptor is left open, however captures overlapped.       *)
NoDescriptorLeft == AllIdle => \A n \in Fds \ {1} : fd[n] = Nothing

(* The docstring's reason for the thread: a program that prints more than  *)
(* the pipe holds does not deadlock.  Every capture comes to an end, and   *)
(* its thread is idle again, even when another thread's capture keeps this *)
(* one's drain thread waiting.                                             *)
EveryCaptureReturns == \A t \in Threads : []<>At(t, "idle")

(* optimizer_debug: "Return the wirelog_optimizer_debug output".  A capture *)
(* hands out nothing but what its call has printed ...                      *)
OnlyOwnOutput ==
  ~overlapped => \A c \in Captures : \A i \in DOMAIN buf[c] : buf[c][i][1] = c

(* ... and, when it is over, all of it.                                     *)
CapturedInFull ==
  \A t \in Threads : At(t, "idle") /\ frame[t].n > 0 => buf[Me(t)] = left[Me(t)] \o printed[Me(t)]
================================================================================
