# A formal model of PyreWire

PyreWire (`src/src/pyrewire`) wraps the C Datalog engine *wirelog* for Python: it loads `libwirelog` with ctypes,
keeps its handles, converts rows, keeps Python callables alive that C calls back, and decides who may call the
engine when. The engine itself is not in the repository. What can go wrong here, and what unit tests hardly reach,
is the order in which threads, tasks, callbacks and the garbage collector take their steps, and what a row of mixed
Python values has become by the time it comes back; so that is what these TLA+ modules model. TLC checks small
instances; TLAPS proves, for any number of threads and calls, the invariants on which the thread-safety of the two
session classes rests, what becomes of the rows, buffers and compounds of a session with one caller, the safety of captures, I/O
adapters and of the asyncio proxies around programs and sessions, and, for any width of lane and any set of floats, that the
conversion of values loses nothing, that what callers write is what they read back, that a call that raises writes
nothing, and that the intern table stays true.

## Inventory

| Component (source) | State | Operations | Interacts with | Correct when |
|---|---|---|---|---|
| **EasySession** (`session.py:132-574`) | the C handle, the mode, `_delta_cb`, `_pending_easy_inputs`, the side-program and its schema cache, compounds, an `RLock` | `insert`, `remove`, `insert_sym`, `remove_sym`, `intern`, `step`, `snapshot`, `set_delta_callback`, `make_compound`, `preview_inline_facts`, `insert_with_dedupe`, `close` | engine, InternTable, CallbackHandle, Compound, Program; Python threads share it | the engine sees one caller at a time and none after it is freed; every evaluated row reaches one caller once, with its strings; buffers live until they are read; the mode is committed once |
| **Session**, advanced (`session.py:577-1238`) | as above, with two kinds of callback and no buffers to retain | typed and untyped `insert`, `remove`, `step`, `snapshot`, `set_*delta_callback`; `make_compound`, `close` | engine, CallbackHandle, Compound | the same, and `close()` re-enters its own lock; an untyped and a typed callback replace each other without losing rows |
| **CallbackHandle**, trampolines (`_core/callbacks.py`) | a process-wide registry: one slot and one queue per token | create, trampoline, `drain`, `close`, `__del__` | the sessions; C calls the trampoline inside `step` | no event lost or delivered twice; the engine never holds the token of a slot that is gone |
| **InternTable** (`_core/intern.py`) | two dictionaries and a lock | `intern`, `lookup`, `remember` | the engine, under a lock of its own | string and id determine each other; a row's string is known before the row comes back |
| **Compound** (`compound.py`) | a handle and a flag | `handle`, `invalidate` | invalidated by `close()` | unreadable once its engine is freed |
| **Program** (`program.py`) | a C handle, owned or borrowed | `schema`, `facts`, `close` | side-program of a session, program of a BatchProgram | not read while it is freed |
| **BatchProgram, Result** (`batch.py`) | the program, a lazy executor; a result each | `optimize`, `load_*`, `evaluate`, `optimizer_debug`, `close`; `relation`, `close` | engine, Program, capture_c_stdout | one executor; freed in the order result, executor, program |
| **asyncio proxies** (`asyncio_session.py`) | an inner object, a pool of one worker | `async with`, one coroutine per call, `aclose` | event loop, pool, inner object | every await ends; no job runs on a closed object; a program outlives its session; deltas reach one task; nothing is leaked by a cancelled call |
| **I/O adapters** (`io_adapter.py`) | process-wide registry and lock | `register_adapter`, `unregister_adapter`; `validate` and `read` trampolines | wirelog's table of schemes; a program that loads its inputs | what wirelog has a pointer to is alive; both registries agree; a failed read is reported |
| **capture_c_stdout** (`_core/stdcapture.py`) | file descriptor 1, a pipe, a drain thread | one context manager | `optimizer_debug`; the process's descriptor table and stdio | fd 1 restored, a call's output in its buffer, in order and nowhere else, no descriptor leaked, no deadlock |
| **lanes** (`_core/lanes.py`) | none | `encode_lane`, `decode_lane`, `decode_typed_row` | typed rows of Session | decoding an encoded value gives an equal one; equal values have one lane |
| **Rows of a relation** (the conversions of `session.py`, `program.py`) | the engine's z-set of lanes, the intern table | `_row_to_int64`, `_flatten`, `_build_typed_rows`, `_decode_row`, `facts`, `insert_with_dedupe` | lanes, InternTable, engine, errors | what is read back is what was written, with its multiplicity; a call that raises has written nothing |
| errors (`_core/errors.py`) | the table of codes | `check` | every engine call | a code becomes its class |
| helpers (`helpers.py`) | none | `make_safe_print_delta` | InternTable | what is not an id is printed as it is |
| libc, FFI declarations, loader, IR views | none | tables, declarations, accessors | | |

**Hard behaviours.** ctypes drops the GIL in every engine call, so two threads can be inside the engine at once
unless the session's lock keeps one out; several steps of a call run outside that lock; `close()` may come at any
point, from another thread, and reads the same attributes twice; the engine may refuse any call half way through a
Python method; C calls Python back with a token that may be gone; reference counting finalises handles; a task may
be cancelled at any await while its job runs on; `aclose` blocks the event loop; file descriptors are numbers that
are reused as soon as they are closed; a column's type and a value's type are two things, and integers, bools, floats,
fractions and strings meet in 64 bits that carry no type. `PROJECT.json` lists each of these hazards at its line with the properties that
cover it, or the reason why none does.

## Modules

| Module | Models | Composed with |
|---|---|---|
| `SingleCallerEngine` | abstract: what `docs/semantics/threading.md` promises the engine (one caller, none after the free) | implemented by the two session modules |
| `EasySession` | `EasySession` with InternTable, CallbackHandle, Compound and its side-program | `Contract == INSTANCE SingleCallerEngine` |
| `AdvancedSession` | `Session` with CallbackHandle and Compound | `Contract == INSTANCE SingleCallerEngine` |
| `StdCapture` | `capture_c_stdout`, its drain thread and the descriptor table | |
| `AsyncProxy` | `_AsyncProxyBase` and the `async with` its subclasses repeat: loop, pool, queue, cancellation | extended by the next two |
| `AsyncBatch` | BatchProgram and Result as the inner object of an AsyncBatchProgram | `EXTENDS AsyncProxy` |
| `AsyncSession` | Session and the Program it borrows as the inner object of an AsyncSession, with their finalisation | `EXTENDS AsyncProxy` |
| `Lanes` | `lanes.py` as operators, over any width and any floats | |
| `Rows` | one relation between callers and engine: conversions of both session classes, InternTable, inline facts, `insert_with_dedupe`, error codes | `EXTENDS Lanes` |
| `IOAdapter` | the adapter registry, wirelog's table and a program that reads | |
| `MC*` | instances for TLC: which thread makes which calls | extend the module they instantiate |
| `EasySession_proofs`, `AdvancedSession_proofs`, `StdCapture_proofs`, `AsyncBatch_proofs`, `AsyncSession_proofs`, `IOAdapter_proofs`, `Rows_proofs` (with the theorems about `Lanes`) | theorems | extend the module they are about |
| `AsyncProxy_proofs` | what the actions of `AsyncProxy` keep, as lemmas | extended by the proofs of the two proxies |

The two session modules do not share a base module on purpose: `EasySession` and `Session` are two classes with no
common ancestor, and the differences between their look-alike methods (what they do outside the lock, how `close()`
clears the callback) are what matters.

### State and actions

In every module a thread is a program counter (`pc`) and the locals of the call it executes (`frame`); `Begin`
makes the next public call and `Run` executes the rest of it. An action is named for the stretch of code it stands
for, and `map` in `PROJECT.json` gives its lines. Suffixes: `XEnter` takes the lock and calls the engine,
`XReturn` is the engine's return, with its return code, and gives the lock back; `XTest` reads an attribute a later
step reads again.

- **Granularity.** A step ends where another thread can get in with an effect that matters: at a lock operation,
  at an entry into or a return from C, and between two reads of one attribute the first of which was tested. Plain
  Python between two such points touches the thread's own locals only, or is one bytecode the GIL makes atomic
  (`list.append`, one attribute read or written, one dictionary operation).
- **Taking a lock and entering the engine are one step.** The code between the two reads `_handle` only, which
  changes under the lock only.
- **`self` and `engine` are different things.** `self.handle` says whether the Python attribute is non-NULL;
  `engine.state` whether the memory behind it is alive. Hazards of `close()` live in the difference.
- **Rows** are, in the modules about threads, the call that inserted them, with a string or none: a batch is one call
  into the engine, and so one row. Values, column types and batches are the subject of `Rows`, where threads are not.
- **`EasySession`**: `insert_with_dedupe` is `Preview` and, if its row is new, `insert()`, so with a row of strings
  (`insert_with_dedupe_str`) it interns outside the lock (`session.py:265-275`, `494`). `Mode` is `_require_mode`; `Intern` is `intern()` and `InternTable.intern`, with the table's
  lock; `SymCall` is `_sym_call`, which swaps the argtypes of a function object all sessions share, calls, restores
  them in its `finally`, and then mirrors the symbol through `Intern`; `SetDeltaCallback` covers the function,
  `None` and the lazy registration of `step()`; `Step` is `step()` from its call into the engine to the dispatch:
  `drain()` in its two statements, clearing the retained buffers, decoding with a schema read from the side-program.
- **`AdvancedSession`**: `Register` has the three reads of `_delta_cb is None or _delta_cb.kind != kind`;
  `ClearDeltaCb` is `_clear_delta_cb`, which three kinds of callers share; the lock is an owner and a count.
- **`StdCapture`**: `fd` is one table for the process, and `dup` and `pipe` take the lowest free number, so a
  number that is closed and reused is not told from the old one, exactly as in the kernel; a `read` that has
  begun keeps its file (`from`). `stdio` belongs to the process too: C functions print into it inside a capture (`Emit`) and
  outside (`PrintOutside`, as `IRNode.print` does), and what it holds is written to whatever fd 1 stands for when the C
  library chooses to (`Write`, `WriteOutside`) or is flushed. `Begin` flushes Python's `sys.stdout` only, so a capture may
  find output of others in `stdio`: `left` is what it found.
- **`AsyncProxy`**: `loop` is the task whose code keeps the loop's thread; all but `aclose` and the methods of a
  Result give it back at once. `worker` is the pool's thread with the job it runs, `done` the futures with an outcome
  nobody has taken. A future nobody awaits any more is dropped.
- **`AsyncBatch`** says what the worker runs on a BatchProgram and what tasks do with a Result on the loop's thread;
  a dropped future's `__del__` closes what it held.
- **`AsyncSession`** says what the worker runs on a Session, and who refers to what: `Forget` is a task that lets go of
  the proxy, `SessionReferred` and `ProgramReferred` are the reference graph, `SessionDel` and `ProgramDel` the two
  `__del__`. `block` says whether the caller's own `with Program` closes the program instead.
- **`Lanes`**: a number is an integer numerator over `Unit`; a float is a number in `FloatNums` or one of -0.0, inf, -inf,
  nan. What `encode_lane` tells apart is `kind`: `int`, `bool`, a type with `__index__`, `float`, a Number that is exact and
  has `__int__` (`exact`: Fraction, Decimal), and one of which `float(value)` is all there is (`opaque`).
- **`Rows`**: a call is one step, except `insert_with_dedupe`, whose lookups of the inline facts are a step each, so
  that other calls can run in between. The engine's relation is a function from tuples of lanes to multiplicities, its symbols
  a function from strings to ids. A call's strings are interned as a set: each gets the id it has in the engine
  or some id that no other has, so their order does not matter; the strings after a value that raises, or that the engine refuses
  (`InternFails`), are not asked for, and those before it are kept.
- **`IOAdapter`**: a registration is the call that made it. Python keeps it alive through the registry or through
  a `register_adapter` that has not recorded it yet (`Alive`); nothing else does.

### What is assumed of the external parts

The engine keeps the rows it was given until the next evaluation, evaluates all of them, reports each one to the
delta callback installed at that moment, returns an error for a NULL handle without doing anything, and may refuse
any call named in `MayFail`. A program with a FLOAT column refuses the untyped callback, insert and snapshot, as
`step_typed`'s docstring says. In `Rows` a call's rows are taken together or not at all; the typed entry
points refuse nan and the infinities and store one zero, as `insert_typed`'s docstring says; the untyped ones refuse a
relation with a FLOAT column; a symbol keeps its id, a new one gets any id that is free, and interning can fail only for a
string that is new to the engine (so not when `insert_sym` mirrors its symbols, which the engine has just interned; what
follows if it fails even there is in `EasySession`, whose `MayFail` has `"intern"`).
asyncio, `ThreadPoolExecutor`, pipes, stdio and reference counting are modelled by
their documented behaviour. Of wirelog's I/O registry the repository says little, so two constants name what is
assumed: `Replaces` (a scheme that is taken is replaced; the run has it refused) and `Pins` (an adapter that is being
called cannot be unregistered; the run has it so).

## Runs

Each property is paired in `PROJECT.json` with a mutant of the code it is about: a dropped guard, a
missing reset, a swapped order. Under that mutant TLC finds the property violated.

| Run | Instance | States | What it shows |
|---|---|---|---|
| `EasySession_locked` | 2 threads, 2 calls each, of the kinds that enter the engine under the lock; four entry points may refuse | 327 765 | `LockedInv`: one caller at a time, no call into a freed engine; `close()` frees however it ends; the contract is implemented; every call returns |
| `EasySession_sequential` | 1 thread, 4 calls of any kind, beside a second one that interns; inserts and removes of each form, steps, snapshots and compounds may be refused, callbacks and strings not | 756 909 | each evaluated row reaches one caller once, its string known; buffers outlive the evaluation; compounds die with the engine; argtypes restored |
| `EasySession_overlap` | the example of `threading.md`: 2 threads call `insert_sym` | *violation* | two threads inside the engine |
| `AdvancedSession_shared` | 2 threads that close one session while they arm, clear and alternate its callbacks; 3 calls each | 222 668 | the contract with the re-entered lock; `close()` frees even when clearing raises; every call returns |
| `AdvancedSession_sequential` | 1 thread, 5 calls of any kind, refused or not | 51 366 | exactly-once delivery across `step()` and `step_typed()`; the engine's token always has a slot; each drains its own kind |
| `AdvancedSession_float` | 1 thread on a FLOAT program | *violation* | the second `step()` passes where the first one raised |
| `StdCapture_captures` | 2 threads, one capture each, a pipe that holds one chunk; one of them prints, 2 chunks in its capture and 1 outside, at any time | 827 366 | as long as nobody captures or prints inside another's capture: fd 1 restored; a buffer holds what was left in stdio, then its own output, in order; none of that output escapes to the console. Whatever overlaps: no descriptor left, and every capture returns |
| `AsyncBatch_shared` | the owner of the `async with` and a helper that calls and closes the pool; both may be cancelled; 3 jobs each | 342 461 | no job on a closed program; one executor; no result without an owner; every await ends |
| `AsyncSession_shared` | the owner and a helper that steps, feeds rows and closes the pool under it; both may be cancelled, and let go of the proxy; or both in a `with Program` whose owner is not disturbed; 3 and 2 jobs | 331 465 | the program outlives the session; each delta reaches one task; a clean exit has destroyed the session; an abandoned one is destroyed in the end |
| `IOAdapter_shared` | 2 threads register and unregister one scheme, a third reads; 2 calls each | 22 201 | adapters kept alive, no call into a collected one, registries agree, failed reads reported, every call returns |
| `Rows_calls` | 7 relations, lanes of 5 bits, a float of 5 bits, 3 symbols with any of 3 ids; 4 calls of any kind, each of which the engine may refuse with a known code or an unknown one | 487 252 | what is read back, typed or as int64, is what was written; a call that raises has written nothing; the intern table agrees with the engine's; `insert_with_dedupe` of known strings |
| `Rows_dedupe` | the example of `zset.md`: `insert_with_dedupe` of an inline fact of strings in a fresh session | *violation* | the fact is inserted again |

**Bounds.** Every counter that grows is bounded by calls per thread (`MaxCalls`, `MaxCaptures`, `MaxPrints`, `MaxOutside`). Two
threads are enough for every race listed to happen: each is between two calls, and the locks know an owner and
everybody else; the theorems below lift the session invariants to any number. To happen is not to be caught by a passing run:
the races of the code that its sessions do lose (`make_compound` and `preview_inline_facts` beside `close()`, the mode, two
steppers, rows fed or symbols mirrored beside a `step()`, `_clear_delta_cb` and `set_delta_callback(None)` beside other
callbacks, shared argtypes, strings interned outside the lock) are kept out of the passing runs by the choice of `Calls`, and
all but that of `_clear_delta_cb`, which the hazard list explains, are refuted one by one further down. One call per thread is enough to
overlap; two or three are needed for a call to meet what an earlier one has left behind (a committed mode, an
installed callback, a closed session), and four or five in a single thread for the longest protocols (register,
insert, step, replace the callback, step again). One symbol suffices, since `NoSymbolMissed` is about known and unknown strings; one
scheme, since schemes do not interact; a pipe of one chunk makes a second chunk block, and
one chunk that was left and two of the call's own let the order inside a buffer be wrong. In `AsyncSession` three jobs
let the owner enter, call once and exit, and two let the helper step beside it. In `Rows` lanes of 5 bits hold signed
integers, a float with a sign, three bits of exponent and one of mantissa, and, like binary64 in 64 bits, integers
that are no floats (5, 7, 9); the relations bring the types of columns and of values together at both ends of
the range; there are three strings and as many ids; four calls are enough to
write a row, retract it by an equal one of another type, and read it through
a string interned or remembered in between. Deadlock is checked in every
run: the only state without a successor but a stutter is `Finished`.

**Fairness.** `FairSpec` has weak fairness of `Run(t)`, per thread: the interpreter schedules every thread and every
engine call returns. Weak fairness is enough where a lock is contended because the calls are bounded: in the end
nobody else takes it. No fairness is assumed of `Begin`, of the user, or of what C functions print. In
the asyncio modules the worker and the loop go on with what they have begun (weak), and the loop takes up ready tasks in
turn (strong fairness of `Resume`), which asyncio's FIFO ready queue gives. `AsyncSession` also has weak fairness of the
end of a `with` block and of the finalisers: CPython finalises an object when its last reference goes. `Rows` states
safety only.

`TypeOK` of `StdCapture`, `AsyncBatch`, `AsyncSession` and `Rows` is not in the runs' lists, which are kept for what could
be wrong; it holds in the same instances (add it to the cfg's `INVARIANTS`).

## What disagrees with its documentation

Three runs end in a violation, each of one sentence the repository states; `findings` quotes them.

1. **Strings are interned outside the session's lock** (`session.py:275, 480, 494`). `_sym_call` mirrors its
   symbols, and `insert`, `remove` and `insert_with_dedupe` resolve their strings, with `InternTable.intern`, which calls the engine under the table's
   lock only. `threading.md` says calls never overlap inside wirelog. (`EasySession_overlap`)
2. **A refused registration is forgotten** (`session.py:1107`). `step()` stores the handle before it registers it;
   the next `step()` finds it, skips the registration, and its rows are lost. (`AdvancedSession_float`)
3. **`insert_with_dedupe` does not know strings it has not interned** (`session.py:265`). The preview hands out raw
   ids for them, so an inline fact of strings is inserted again by the first call of a session, where `zset.md` shows
   the same call returning False. (`Rows_dedupe`; `KnownNeverDoubled` in `Rows_calls` is what does hold.)

### What does not hold

Properties the modules state and TLC refutes, apart from those runs. They are kept as definitions; each line says with
which constants a run of the module refutes it.

| Property | Instance | Why |
|---|---|---|
| `StdCapture!OnlyOwnOutput` | `StdCapture_captures.cfg` | a capture flushes Python's `sys.stdout` before it redirects fd 1, not C's (`_core/stdcapture.py:81-84`): what a C function, such as `IRNode.print`'s (`ir.py:79-81`), printed earlier and stdio still holds is flushed into the pipe (`:108`) ahead of the captured call's output, and `optimizer_debug` returns it with "the `wirelog_optimizer_debug` output" of its docstring (`batch.py:143`). A function that prints with `write(2)` leaves nothing behind |
| `StdCapture!CapturedInFull` | `StdCapture_captures.cfg` | the read end is closed before the drain thread has emptied the pipe (`_core/stdcapture.py:112`), so `optimizer_debug` can return less than was printed |
| `AsyncBatch!ResultsFreedFirst` | `AsyncBatch_shared.cfg` with `Tasks = {main}`, `Calls <- EvaluateOnly`, `Cancellable = {}` | a Result the caller keeps outlives the executor and the program (`batch.py:166`), against the module's first lines; the order is left to callers |
| `AsyncBatch!OneThreadInEngine` | `AsyncBatch_shared.cfg` | `Result`'s methods are not submitted to the pool, so the loop's thread can be inside wirelog while the worker is. `threading.md:56` names `AsyncBatchProgram` among the proxies whose FFI calls all come from one thread; whether a `Result` it hands out is still part of the proxy, the page does not say |
| `AsyncSession!SessionOnOpenProgram` | `AsyncSession_shared.cfg` with `Blocks = {"any"}`, `Cancellable = {main}` | a cancelled `__aenter__` leaves its job to the pool, which creates the session while or after the caller's `with Program` closes the program (`asyncio_session.py:118-119`, `session.py:582-583`) |
| `Rows!OnlyIdsPrintAsStrings` | `Rows_calls.cfg` | in Python a bool is an int, and `make_safe_print_delta` looks every int up: `True` prints as the string with id 1, or as `<intern:True>`. The test that says bools print via `repr` (`tests/test_helpers.py:48-49`) only looks for `True` somewhere in the output |

### Rows

`StoredAsWritten` speaks of calls whose values fit their columns. What fits differs between the classes, and the
definitions `EasyFits` and `SessionFits` name the difference:

- **EasySession** encodes by the value's type and decodes by the column's (`session.py:484-496`, `411-437`): an
  int in a FLOAT column becomes the float with those bits, a float in an INT column its bits as an integer; an
  unsigned value of the upper half is read back negative; nothing of this is refused.
- **Session's typed calls** encode by the column's type: a float that is not whole, a fraction `float()` would round and a
  string are refused. An integer out of the column's range is not: `encode_lane` masks it to 64 bits (`lanes.py:87`) and
  another number is stored.
- **Session's untyped calls** drop a fraction, by `int(value)`.

What a reader gets differs too, and `ReadBack` has both ways (`Ways`). `snapshot_typed` and `step_typed` decode by the
column's type. The untyped `step()`, `snapshot()` and `snapshot_arrays()` of the same class hand out lanes as signed int64
(`session.py:1100-1166`, `callbacks.py:73-116`): a BOOL is 0 or 1, a string its id, and an integer of 2^63 or more of a UINT
column, which a typed insert takes, comes as the negative number with the same bits. `StoredAsWritten` says exactly that
(`HandedOut`); that both ways give the row as it was written does not hold. Beside a FLOAT column there is no untyped way.

### What sharing a session breaks besides

`threading.md` promises serialisation of engine calls, no more. The following properties hold for one thread that makes
every kind of call beside one that interns, in the instance of `EasySession_sequential` (which lists some of them; for
`CloseFrees` it is `EasySession_locked`); `MCEasySession` has, for each, the pair of calls under which TLC refutes it
with two threads (replace the value of `Calls` and the invariant in `EasySession_locked.cfg`, with
`MayFail = {}`).

| `Calls` | `MaxCalls` | Refuted | Why |
|---|---|---|---|
| `CompoundAndClose` | 1 | `NoUseAfterFree` | `make_compound` reads `_handle` before it takes the lock |
| `DedupeStrAndClose` | 1 | `NoUseAfterFree` | `insert_with_dedupe` interns its strings with a `_handle` read outside the lock |
| `DedupeStr`, in `EasySession_overlap.cfg` | 1 | `SingleCaller` | and two threads do so at once, or beside a call that holds the lock |
| `PreviewAndClose` | 1 | `ProgramOutlivesReaders` | the side-program is read without a lock |
| `StepAndSnapshot` | 1 | `ModeOneWay` | the mode is tested and committed without a lock |
| `TwoSteppers` | 2 | `DeltasExactlyOnce` | `drain()` copies and clears in two statements |
| `StepAndInsert` | 2 | `StagedBuffersAlive` | `step()` clears the buffers of rows inserted since |
| `StepAndInsertSym` | 1 | `NoSymbolMissed` | the symbol is mirrored after the row is in the engine |
| `ClearAndClose` | 2 | `CloseFrees` | `close()` reads `_delta_cb` twice, and `None.close()` raises |
| `SymCalls` | 1 | `SymCallsUseFixedArgtypes`, `ArgtypesRestored` | the argtypes all sessions share are swapped without a lock |

With `MayFail = {"set_delta_cb"}` in `EasySession_sequential.cfg`, `DeltasExactlyOnce` is refuted too: `EasySession.step()`
has the order of finding 2. In `IOAdapter`, `Replaces = TRUE` refutes `AdaptersKeptAlive`, `RegistriesAgree`
and `NoCallIntoCollected` (two registrations of one scheme are recorded in the other order), `Pins = FALSE` refutes
`NoCallIntoCollected`, and a `read()` whose rows hold something `int()` refuses (`"unconvertible"` in `RowKinds`) refutes
`FailedReadsReported`: the callback returns 0 although the exception has prevented it from filling the buffer.
In `StdCapture`, `StdoutRestored`, `CapturedInOrder` and `NothingEscapes` carry the condition `~overlapped`: file
descriptor 1 belongs to the process: two captures that overlap take it from each other, and a thread that prints while another
one captures prints into that capture.

## Theorems

All are proved for every value of the constants that satisfies `ConstantsAssumption`: any set of threads,
any bound of calls, any selection of calls per thread. Those of `Rows_proofs` hold for every width of lane and every set
of floats that satisfies `WidthAssumption`, `FloatAssumption` (the floats are numbers below `TooLarge`, 0 is one, and no
two have the same bits) and `RoundingAssumption` (a number that does not overflow has a nearest float), binary64 in 64
bits among them; those about calls, for all sessions, rows and batches that satisfy `RowsAssumption` (a row is a tuple of
numbers, strings and other things, a batch has a row, an inline fact is of its column's type, and the engine's ids fit a signed lane). `Rows_calls` has TLC evaluate the four assumptions.

| Theorem | States | Assumes |
|---|---|---|
| `EasySession_proofs!TypeCorrect` | `Spec => []TypeOK` | |
| `EasySession_proofs!LockDiscipline` | `Spec => []LockedInv` | `LockedOnly` |
| `EasySession_proofs!Serialised`, `HandleSafe` | `[]SingleCaller`, `[]NoUseAfterFree` | `LockedOnly` |
| `EasySession_proofs!Implements` | `Spec => ImplementsContract` | `LockedOnly` |
| `EasySession_proofs!CloseFreesEngine` | `Spec => []CloseFrees` | `LockedOnly`, `NoneClears` |
| `EasySession_proofs!BuffersOutlive` | `Spec => []StagedBuffersAlive` | `OneCaller` |
| `EasySession_proofs!CompoundsInvalid` | `Spec => []CompoundsDieWithEngine` | `OneCaller` |
| `EasySession_proofs!ArgtypesPutBack` | `Spec => []ArgtypesRestored` | `OneCaller` |
| `EasySession_proofs!StringsFound` | `Spec => []NoSymbolMissed` | `OneCaller`, `"intern"` is not in `MayFail` |
| `EasySession_proofs!ExactlyOnce` | `Spec => []DeltasExactlyOnce` | `OneCaller`, `"set_delta_cb"` is not in `MayFail` |
| `AdvancedSession_proofs!TypeCorrect` | `Spec => []TypeOK` | |
| `AdvancedSession_proofs!LockDiscipline` | `Spec => []LockedInv` | `Locking` |
| `AdvancedSession_proofs!Serialised` | `Spec => []SingleCaller` | `Locking` |
| `AdvancedSession_proofs!Implements` | `Spec => ImplementsContract` | `Locking`, `HandleUnderLock` |
| `AdvancedSession_proofs!CloseFreesEngine` | `Spec => []CloseFrees` | |
| `AdvancedSession_proofs!SlotOutlivesPointer` | `Spec => []ArmedSlotAlive` | its `OneCaller` |
| `AdvancedSession_proofs!OwnKindDrained` | `Spec => []StepsDrainTheirKind` | its `OneCaller` |
| `AdvancedSession_proofs!ExactlyOnce` | `Spec => []DeltasExactlyOnce` | its `OneCaller`, `CallbacksAccepted` |
| `StdCapture_proofs!TypeCorrect`, `NothingLeaks` | `[]TypeOK`, `[]NoDescriptorLeft` | |
| `StdCapture_proofs!Restored`, `NoneEscapes`, `CapturedPrefix` | `[]StdoutRestored`, `[]NothingEscapes`, `[]CapturedInOrder` | (they say `~overlapped`) |
| `AsyncBatch_proofs!TypeCorrect`, `OpenProgram` | `[]TypeOK`, `[]JobsSeeOpenProgram` | |
| `AsyncBatch_proofs!OneExecutor`, `EveryResultOwned` | `[]NoExecutorLost`, `[]ResultsOwned` | |
| `AsyncSession_proofs!TypeCorrect` | `Spec => []TypeOK` | |
| `AsyncSession_proofs!ProgramOutlivesSession` | `Spec => [](block # "any" => SessionOnOpenProgram)` | |
| `AsyncSession_proofs!RowsReachOneTask`, `ExitLeavesNothing` | `[]DeltasReachOneTask`, `[]ExitClosesInner` | |
| `IOAdapter_proofs!TypeCorrect` | `Spec => []TypeOK` | |
| `IOAdapter_proofs!RegistryDiscipline` | `Spec => []RegistryInv` | `~Replaces` |
| `IOAdapter_proofs!KeptAlive`, `Agree` | `[]AdaptersKeptAlive`, `[]RegistriesAgree` | `~Replaces` |
| `IOAdapter_proofs!CallsAlive` | `Spec => []NoCallIntoCollected` | `~Replaces`, `Pins` |
| `IOAdapter_proofs!ReadsReported` | `Spec => []FailedReadsReported` | `"unconvertible"` is not in `RowKinds` |
| `Rows_proofs!RoundTrip` | a value that fits and is encoded is decoded as an equal one | |
| `Rows_proofs!NothingLost` | what an integer column gets is the value's own whole number | |
| `Rows_proofs!EqualValuesShareALane`, `DifferentValuesDoNot` | two values of a column have one lane if and only if they are equal | for "if": neither is -0.0 in a FLOAT column |
| `Rows_proofs!TableSound` | `Spec => []MirrorSound` | |
| `Rows_proofs!KnownFactsSkipped` | `Spec => []KnownNeverDoubled` | |
| `Rows_proofs!RaisedIsUndone` | `Spec => RaisedWritesNothing` | |
| `Rows_proofs!WrittenIsRead` | `Spec => []StoredAsWritten` | |

`LockedOnly` is the boundary the model checking found: the session has its lock, and no thread makes a call that
interns the strings of a row (`insert`, `remove` and `insert_with_dedupe` with a string, `insert_sym`, `remove_sym`) or makes a compound.
The refutations above show that the exclusions are needed. The theorems speak of the session's engine: the side-program
that `insert_with_dedupe` reads has no lock, whatever the row (`PreviewAndClose`). For the advanced
class, which never interns, only `make_compound` has to be left out, and only for the handle's sake
(`HandleUnderLock`): its calls are serialised too.

**The argument.** `SingleCaller` is not inductive: it says nothing of who may enter next. `LockedInv` adds three
things. *OwnsLock*: a thread at a label the code guards owns the lock (in `AdvancedSession`: exactly as often as
it has entered a `with`, its `Depth`; *LockBalanced* is the converse, without which a re-entry could not be told
from a lock somebody forgot). *OnLockedPaths* (`EasySession`): the calls that pass the lock by are not under way, and
`InternTable.intern` is reached through `intern()`, which takes the session's lock first.
*FreedByClose*: once the engine is freed, a handle that is not NULL is in the hands of a `close()` about to null it.
That thread holds the lock; so whoever takes the lock and then finds a handle has a good one.

A step preserves the invariant in one of three ways, each a lemma: it leaves the lock alone between labels of equal
standing (`KeepsLock`), takes it (`TakesLock`), or drops it (`DropsLock`). Every action is one leaf that cites
the lemma that fits; only `CloseReturn`, which frees the engine, and `CloseFinish`, which nulls the handle, have proofs of their own.
For the refinement, `StepLocal` shows that a step moves one thread only and frees the engine only where
`wirelog_easy_close` returns; `LocalImplements` then maps every step to `Enter`, `Leave`, `Free` or a stutter.

`CloseFreesEngine` needs the lock too, and `NoneClears`: `set_delta_callback(None)` drops `_delta_cb` outside the lock, and a
`close()` between its two reads of it raises before it has freed anything (`ClearAndClose` above). Without such a
thread, `_delta_cb` is there for as long as `close()` works on it, so `close()` goes on to free the engine whether the
engine refuses to clear the callback or not.

**One caller.** `OneCaller` says that one thread, `Main`, makes calls of any kind and the others only `intern()`. The table
above shows, call by call, why two callers are too many. The invariant is built in layers:

- *Paths*: which kinds of call can be at which label; *Beside*: what the other threads can be doing.
- *Alive*: `_handle` is not NULL as long as the engine is open, except where `close()` ends; a call that has checked the
  handle still has it; a freed engine has no rows and no compounds. *Buffers*: what is staged in the engine and not
  in `_pending_easy_inputs` is the row of the call under way. Together with *Held*, *Fresh* and *Modes* they make `SoloInv`.
- *Known*: the string of a row is known from before the row is evaluated. `"intern"` is not in `MayFail` because `_sym_call`
  mirrors a symbol only after its row is in the engine: if the engine refuses it there, the row comes back with a raw id.
- *Once*: an evaluated row is in the queue, drained by a call under way, or returned, and never two of these. It rests on
  *Installed*: where `_delta_cb` is set, the engine has its token. A refused registration breaks that, which is finding 2.

**The advanced session.** Type correctness needs the lock invariant: that the lock is never taken a third time is the type
of `lock.depth`. The proof first establishes the rest of the types together with `KindsInPlace` (which labels
`close()` can be at, and which only it), then `LockedInv`, then `TypeOK`.

Its `CloseFreesEngine` needs no lock and excludes no call: `_clear_delta_cb` reads `_delta_cb` once, into a local, so what
stops a `close()` there is a NULL handle, and `CloseInv` says that the engine is freed by then. `OneCaller` lets one thread,
`Main`, make calls of any kind while the others make compounds. Its layers are those of the EasySession (*Beside*, *Path*,
*Alive*, *Fresh*, *Modes*) and *Armed*: the engine has the token of `_delta_cb` or none; `_clear_delta_cb` takes the pointer
away before it drops the slot; and where a call evaluates or drains, `_delta_cb` is of its own kind. From it follow
`SlotOutlivesPointer` and `OwnKindDrained`, with every entry point free to fail. `ExactlyOnce` adds *Installed*, *Queued* and
*Once*, for which the engine must accept what `step()` and `step_typed()` register (`CallbacksAccepted`): `"set_cb"` is not in
`MayFail`, and `Main` registers no untyped callback on a FLOAT program. A refused one is finding 2 again.

**Captures.** `NoDescriptorLeft` is about all threads, however they overlap: *Held* says that each open descriptor above 1 is
in a local of a thread at a label from which it still closes it, and that no two locals name the same one. `TypeOK` contains that
`dup` and `pipe` find free numbers, which *Room* gets from counting slots: three per thread, of which a thread before its
`pipe` uses at most one. The other three properties speak of captures inside which no other thread captures or prints; for
those `Solo` says which file each number stands for at each label (*Table*), that the one drain thread that still reads has the
right pipe (*Drains*), and where output is (*Prints*): what a capture found in stdio followed by what its call has printed is, in
this order, its buffer, its pipe, and what is in stdio if fd 1 is redirected for it (`Pending`). That what it found is
nobody's captured output (`OutsideOnly`) holds because `Flush` leaves stdio empty; that nothing is in its buffer or pipe
before it redirects is `Fresh`.

**The asyncio proxies.** `AsyncProxy_proofs` proves of each action of `AsyncProxy`, for any kinds of jobs, that it keeps three
facts. *OnceEach*: a job is in one place, the queue, the worker or the outcomes. *Opening*: the job that `__aenter__` submits
is over before there is any other, and that of `__aexit__` is its task's last. *Closing*: a pool that is closed is quiet, unless
somebody still waits in `aclose`. The two proxies add what jobs do:

- `AsyncBatch`: the program is freed only by a `close` job and all that comes later sees `closed` (*ProgramOK*); there is one
  executor, made by the one worker, or none (*ExecutorOK*, *WorkerOK*); a result belongs to a job that is over and is
  named by an outcome until a task takes it up or its await is cancelled (*ResultsOK*).
- `AsyncSession`: the session that is finalised is one that nobody can come to refer to again, and its program is freed
  after it (*SessionOK*, *ProgramOK*). `block # "any"` leaves out a `with Program` whose body may end under the proxy, for which
  TLC refutes the property (see above). *RowsOK* and *AwaitedOK* follow a row from the job that stages it to the one task
  that gets it.

**I/O adapters.** Wirelog's table and `_REGISTRY` are two, and `register_adapter` calls wirelog before it takes
`_REGISTRY_LOCK`. `RegistryInv` says what bridges them: where wirelog has an adapter `_REGISTRY` lacks, a thread is
about to record exactly that one (*Recording*, *Agreement*); where `_REGISTRY` has one wirelog lacks, a thread is about to
delete exactly that one, and holds the lock from before it asked wirelog (*LockHeld*, *Unregistering*). Between the
two, a second registration of the scheme may already be under way: *Recorded* and *Numbered* tell it from the first.
`~Replaces` (wirelog refuses a scheme that is taken) is what makes a thread at `record` the only one of its scheme.
`CallsAlive` adds `CallsCurrent`: what wirelog is calling is still what it has for the scheme (`Pins`).

**Lanes.** `encode_lane` has three ways into an integer column: integers and bools go through `__index__`, floats
through `is_integer()`, and everything else through `float()`, which may round. `NothingLost` shows that all three end at
the value's own whole part. For the third, `FloatConversionLostValue` compares the integer back with the value:
what is not refused is equal to its float. The mask is then undone by each column's decoding: it is the identity for UINT
(`MaskKeepsLanes`) and BOOL, two's complement for INT and STRING (`SignedMask`, by `MaskOfNegative`). In a FLOAT
column a number that is a float is its own nearest (`NearestOfFloat`), and bits are read back because no two floats share
them (`UnpackBits`). `DifferentValuesDoNot` is `RoundTrip` twice; `EqualValuesShareALane` is what lets an equal
row of other types retract one.

**Rows.** `MirrorSound` and `KnownNeverDoubled` speak of sessions whose `remember()` was given true pairs (`Honest`), and
that is no invariant's hypothesis: a pair can be given before the engine knows its string and turn out true later.
`Compatible`, that no two pairs the engine or a caller ever gave contradict each other and each has
an id the engine could give, follows from `Honest` and can only become false (`PairsGrow`). Under it, *MirrorInv* says that the two halves of the table are each other's inverse and hold
only pairs that were given; `Learns` is what any call does to the table, and `LearnKeeps` is its one proof. *DedupeInv* says of an
`insert_with_dedupe` under way that an inline fact that equals its row is either still to be looked up or already found:
the table never forgets a string, and by `DecodedFact`, which rests on `RoundTrip`, a fact whose strings it knows is handed out
as a row equal to the fact. `RaisedIsUndone` goes call by call (`NothingWritten`).

`WrittenIsRead` puts all of this together. `net`, what callers wrote, is keyed by rows of Python values, of which equal ones
count as one; the relation is keyed by lanes. `LanesOf` gives the lanes of every row a relation can hold (`Storable`), whatever
the types of its values, and the two keys agree: such rows are equal if and only if their lanes are (`SameLanes`), and reading a
stored row gives one that equals a `Readable` row if and only if the lanes are that row's (`ReadRow`). These rest on the theorems
about `Lanes` and, for strings, on *MirrorInv*. *StoredInv* then says that each lane tuple of the relation is that of a written
row or of an inline fact, and that its multiplicity is the number of facts there plus what callers wrote of it. For the untyped way
`ReadRaw` shows that the signed int64 of a lane is what `HandedOut` says of the row (`RawLane`). The proof of *StoredInv* has
two halves. `WriteKeeps` shows that any batch of rows whose lanes are sent keeps it, by counting the batch's rows of each lane tuple;
lanes do not change under the feet of older rows, because ids and the table only grow (`StaysReadable`). `StepStores` shows of each
call that it writes such a batch or nothing: `EasySendStores` (own types, ids from the table), `SymWriteStores` (ids from the
engine), `UntypedWriteStores` (`int()` drops nothing from a number that is whole) and `TypedWriteStores` (`NoError`: a batch without
an error has no value with one; `SentLane`: what the engine makes of it). No induction over the batch is needed, since `AddAll`
and `WriteAll` give the sum of a batch in closed form, as a cardinality.

## Only model-checked

Every invariant and every action property of a passing run is a theorem. What is not:

- Liveness (`EveryCallReturns`, `EveryCaptureReturns`, `EveryCallResolves`, `AbandonedSessionFreed`): the prover does not do fairness.
- The violations and the refuted properties above: a counterexample needs no proof.

## Not modelled

- Columns of 32 bits: they are stored and decoded like those of 64 (`lanes.py:169-182`), and whether wirelog refuses a number
  that is too wide for one is the engine's affair. `Decimal`, whose `float()` overflows to inf where `Fraction` raises. A
  row of an untyped batch with a string that `int()` accepts (`"12"`). Inline compound columns. The `ValueError` of `insert_sym` and
  `remove_sym` for more than 16 symbols (`session.py:457-461`), raised before anything is done.
- User code: a `user_fn` or an adapter that calls back into the session, or a `user_fn` that raises.
- `__del__` of an EasySession: it runs when no thread refers to the session, so it is a `close()` nobody can race.
- `AsyncEasySession`: the protocol of `AsyncProxy` around an EasySession.
- A Python thread that shares a BatchProgram: it has no lock and documents none.
- `dup`, `pipe` or `Thread.start` failing; a libc without `fflush`; Windows.
- `errors.py` beyond `check` and its table: the wording of messages and the attributes exceptions carry.
- `_ffi/_loader.py` and `_core/libc.py` (they search the file system once, at import), the FFI declarations, the IR views (but for what `IRNode.print` prints) and
  `Program`'s other accessors: no state that changes, and nothing to interleave.
- The engine itself, which is not in the repository; packaging.

## Plan

Done: the inventory; the two session classes with their contract and runs; captures; the asyncio proxy with
batch programs and with sessions; I/O adapters; values, lanes and rows. Proofs of the safety of `EasySession`,
`AdvancedSession`, `StdCapture`, `AsyncBatch` and `AsyncSession`, of the I/O adapters, of the conversion of values,
the intern table and inline facts, and of the relation as a whole.

1. **A user_fn that raises** and an adapter that calls back, as outcomes of `Dispatch` and `Read`; `IOContext`.
2. **The search of the loader** as a function of what exists on disk, if its order is ever in doubt.
