# TLA+ models of IL2C

IL2C translates .NET assemblies (IL) to C. Two programs make that work: the
translator, `src/IL2C.Core`, and the C library that the translated code runs on,
`src/IL2C.Runtime`: a mark and sweep collector that stops frames only, an allocator
with a lock-free object list, precise stack frames, finalizers, threads, monitors,
exceptions, delegates, strings. This directory holds TLA+ models of both, TLC
instances that check them and TLAPS proofs about them. Line numbers are those of
the source this directory is kept beside; `PROJECT.json` maps each definition to the
lines it models.

## 1. Inventory

| component | state | operations | who shares it |
|---|---|---|---|
| collector gate (`Core/il2c_gc.c` 437-597) | `g_ExecutingCollection__`, global lock, one `lockForCollect` per thread object | `il2c_collect__`, `il2c_enter_for_collect__`, `il2c_exit_for_collect__` | every thread: it collects before each allocation and before each return |
| mark and sweep (`il2c_gc.c` 39-436, 601-744) | object list from `g_pBeginHeader__`, `g_CollectionMarkIndex__`, characteristic bits of each header, `g_PendingRemains__` | mark from roots, sweep, call finalizers, free; final shutdown | the collecting thread; allocating threads push on the list |
| allocator and frames (`Core/il2c_allocator.c`) | the frame chain and temporary anchor of each thread | allocate, link/unlink a frame | its thread writes, the collector reads |
| root references (`il2c_allocator.c` 268-389), GC handles (`GCHandle.c`) | blocks of three slots; an object pointer | register, unregister; Alloc, Free, set_Target | all threads; walked by the collector without a lock |
| threads (`System/Threading/Thread.c`, `Core/il2c_thread.c`) | thread object: raw handle, lock, frame chain | Start, entry point, Join, Finalize, attach a native thread | starter, new thread, collector |
| monitors (`System/Threading/Monitor.c`) | hash table of blocks of four object/mutex pairs | Enter, TryEnter, Exit; release by the sweep | all threads, collector |
| `GC` class (`System/GC.c`) | header flags, `g_PendingRemains__` | Collect, SuppressFinalize, ReRegisterForFinalize, WaitForPendingFinalizers | |
| exceptions (`Core/il2c_exception.c`, macros of `il2c.h`) | chain of exception frames per thread | throw, filter, rethrow, finally, leave, unwinding of execution frames | its thread; signals |
| delegates, events, AppDomain (`Delegate.c`, `AppDomain.c`, `Interlocked.c`) | immutable method tables; fields that refer to them | Combine, Remove, Equals, Invoke, add, remove, raise | all threads |
| strings (`String.c`, `Platform/strings.c`) | immutable buffers | Format, Concat, Substring, comparison, decoding of UTF-8 | |
| numbers (`SByte.c` and siblings), boxing (`Core/il2c.c`) | values, boxes | ToString, TryParse; box, unbox | |
| decoder (`Translators/DecodeContext.cs`, `AssemblyPreparer.cs`) | slots per stack depth and type, snapshots of offsets, queued paths | decode a path, branch, leave, emit | the C code that is emitted |
| converters (`ILConveters/*`) | the typed C variables of the evaluation stack | one per CIL instruction | |
| writers (`Writers/*`) | stack of open handlers; tables of a class | write blocks around code; vtables, interface tables, casts and calls | |
| platform (`Platform/*`), metadata reader, tools | | wrappers, option parsing, file copying | |

**How they interact.** Managed code calls `il2c_collect__` before an allocation,
before it unlinks a frame and in `GC.Collect`. A collection reads the root
references to find thread objects, takes their locks, and reads frame chains,
anchors, static fields and root references to find objects. A thread stops for it
only where it takes its own lock: in linking and unlinking a frame; it goes on
allocating, registering and locking. The sweep calls finalizers, which are
managed code on the collector's own stack: they allocate, store references, lock
monitors and ask for collections. The sweep calls back into the monitor table for
objects that were ever locked, and the finalizer of a thread object gives up that
thread's lock. A throw unlinks execution frames, which the collector reads, and takes
no lock for it. The decoder calls the converters, which push and pop its slots; the writers put their
C code into the blocks of the exception macros; method tables are laid out by one
writer and read by the expressions of another.

**Where it is hard, and what makes it correct.**

- Gate: counting without a lock, walks over a table others change, locks of
  threads that start and end meanwhile. Correct: one collection at a time; the
  count is never lost; no call and no return changes a frame chain while it is read
  (a throw does); every lock is given back; every collection ends.
- Heap: marks are never cleared, only the meaning of the bit flips; finalizers run
  in the middle of the walk that frees; other threads push headers. Correct: between
  collections all headers have the same mark; marked is reachable; nothing
  reachable is freed; a block is freed once, and never while it is listed; a
  finalizer is called before its object is freed; WaitForPendingFinalizers and
  the shutdown end, and leave no garbage.
- Monitors: the lock of an object is found anew for each call in a table that
  grows, and that the sweep makes holes in; both can give an object a second mutex.
  Correct: mutual exclusion for every object that keeps one; Exit finds what Enter
  entered; flags agree with the table.
- Root references: several walks at once. Correct: what has a normal or pinned handle
  is registered once and is marked.
- Exceptions: nested handlers, exceptions in handlers, jumps over calls. Correct:
  handlers run when and in the order CIL says, and the frame chain is as the
  catching method left it.
- Decoding: what an instruction means is fixed by the path that comes first. Correct:
  each instruction reads the slot its operand was put in, on every path.
- Numeric code: CIL has four kinds of numbers, C has conversions between ten types.
  Correct: the C variables hold what CIL has, at the limits of every type, where the
  sign of each instruction is that of its variables.
- Dispatch: slots are found by name in one place and by position in another.
  Correct: each call reaches the method .NET calls, whatever is hidden or overridden.

`PROJECT.json` lists these as hazards, each at its line with the properties that
cover it or the reason why none does.

## 2. Plan

Order: what every translated program depends on first.

1. `RootSlots`, `CollectGate`, `CollectGateProofs`: who may collect. *Done.*
2. `GcHeap`, `GcHeapProofs`: marking, finalizing, freeing for one thread. *Done.*
3. `MonitorTable`: monitors. *Done.*
4. `NumericConverters`, `NumericCode`, `DecodeContext`: a method body, its slots and its
   numeric instructions, against CIL. *Done.*
5. `ExceptionFrames`, which implements `CliExceptions` (refinement), and
   `HandlerWriter`, with the proofs in `MCRuntimeProofs`. *Done.*
6. `TypeTables`, `Delegates`, `Boxes`, `StringFormat`, `StringStore`, `NumberText`, each
   against what .NET does. *Done.*
7. `SharedHeap`, `RootRegistry`: the list of headers and the root references with
   several threads, at the grain of their atomic instructions. *Done.*
8. `MonitorTableProofs`, `RootRegistryProofs`, `SharedHeapProofs`: the monitors, the
   registrations and the list of headers for any number of threads and objects, and
   `MCThreadsProofs`, which carries them to the instance that is checked and proves what
   `Delegates` says of events. *Done.*
9. The refinement of `CliExceptions` in `MCRuntimeProofs`, the locks in
   `CollectGateProofs`, the decoder in `MCTranslatorProofs`: methods of any length. *Done.*
10. Numeric code of any length and any widths in `MCTranslatorProofs`; blocks around code,
    strings, boxes, the texts of numbers and composite formats in `MCRuntimeProofs`. *Done.*
11. Left: type initializers; arrays; proofs about virtual dispatch.

`MCThreads`, `MCTranslator` and `MCRuntime` put components that do not share state
side by side in one instance: a behaviour is of one of them (`part`).

Bounds: two or three of everything, one bit of everything that is only compared;
section 4 says why that is enough.

## 3. Modules

### RootSlots
The table of root references as one sequence: new blocks are linked in front, so
positions counted from the end are stable, which is how a walk in progress is
represented everywhere. `Register` adds nothing when the object is there, else
takes the first free slot, else adds a block; `Unregister` empties the first
occurrence.

### CollectGate
One action per atomic step of a thread: each increment and decrement of the
counter, each mutex operation, each slot read in a walk. `pc` is where a thread
is, `cont` where the collection it performs returns to ("managed" after
`new` or `GC.Collect`, "unlinking" before the pop of a frame). `lock` holds
owner and recursion count of each `lockForCollect`. A finalizer is managed
code of the collector with frames above `base`; its own calls to `il2c_collect__`
go through the counter and are turned away. `world` is a history variable: the
thread objects registered when the walk began. Objects and marks are abstracted to
`marked`, the thread objects the collection found registered.

`Throw` sets the chain of frames back to that of the handler's method, in one step
and without a lock, as `il2c_do_throw__` does. An exception stays within the frames of
the thread, and one thrown in a finalizer within the finalizer: a finalizer that lets one
escape would jump out of `il2c_collect__`, which then never counts down nor unlocks.

The configuration modelled is POSIX threads without the giant lock and a
release build: unlocking a mutex one does not own fails and changes nothing.

### GcHeap
One thread, its frames (one reference slot each), globals, and objects with
fields. `headers` is the list, newest first; the sweep's position counts from the
end (`left`), so headers a finalizer links in front are not visited, as in the
code. `mark[o]` is the bit, `index` the global; *marked* is their equality.
`Collect` covers the counter's decision for one thread: turned away inside a
finalizer, else inverts the index and starts from `MarkRoots`. Marking goes level
by level (`grey`): the recursion of the code visits the same objects in another
order, and nothing else runs meanwhile. `SweepFinalize` flags, marks and calls;
the managed actions then run until `FinalizerReturn`. Unlinked headers collect in
`scheduled` and are freed when the walk is over.

`Program` is the translated code: any assignment between slots, statics and
fields the running method can read. Two assumptions are constants, not part of the
code: `FinalizerOps` (what finalizers do besides reading and storing) and `Careless`.
A *careful* finalizer leaves nothing that this sweep discards reachable from where
the program, or a finalizer of a later collection, finds it; it does not register
again an object that is already being freed, and during the final shutdown
it neither allocates nor registers. Without that assumption `NoDangling` is false:
see `heap_resurrect`. `WaitForPendingFinalizers` is not called by finalizers
(it would never return: collections are turned away and the count stands still).

### MonitorTable
One hash bucket. `table` and `lock` are the chain of blocks, flattened. The lookup is
one step, since it holds `blockLock`; entering the mutex it returned is another.
A full chain gets a block, and the object the slot one past the *old* block: its
mutex is the memory behind that block (`Beyond`), its reference overwrites the
block's first mutex (modelled as any value a mutex can appear to have). `Reclaim` is
the sweep freeing an object nobody uses; it leaves a hole. A failed assertion has no effect.

`spoiled` is a history variable, the objects for which the table is wrong from then on: a
call that takes a hole for an object which has its slot further on gives it a second mutex
(the case `Monitor.c` 102 asserts away), and growing overwrites the mutex of the object in the
first slot of the full block and hands out one behind the block. Exclusion is stated for all
others, in tables with holes and growth.

### SharedHeap
What `GcHeap` has as single steps, for several threads: the push of a header (read
the head, compare and swap), reading the index, storing the mark, setting the anchor
and INITIALIZED are steps of the allocating thread; inverting the index, each root,
each header of the sweep's walk and each store that unlinks one are steps of the
collecting thread. `collector` stands for the gate. A thread has one slot in one
frame, objects have no fields: what matters is whether the object is in use, and
whether the list is one. Since the collector stops frames only, managed code that
moves a reference from a slot not yet read to one already read hides its object from
the marking as well; with one slot and the anchor the instance has that case
too. An allocation that fails for want of memory waits here for a free block; the
code collects once more and then gives up.

### RootRegistry
`RootSlots` slot by slot: each slot a thread or the collector reads is a step, and so
is each store. `Alloc` is the two-argument form, of which a weak handle registers
nothing; `AllocObject` is `Alloc(object)`, which makes a normal handle and registers nothing
either (`GCHandle.c` 46): `bare` are the handles of both sorts, whose objects nothing keeps
alive. Programs keep to one handle per object at a time (`Fresh`): handles to one
object share one registration without a count, so the first that is freed, even a
weak one, unregisters it for all, and two that are freed at once can empty the
slot that another object got in between (`Clear` stores without comparing). `held`
is a history variable.

### NumericConverters, NumericCode
`NumericConverters` holds what each converter accepts, the type of the C variable it
pushes and the C conversions of its expression. `NumericCode` runs a body of such
instructions twice in step: by the C code and by CIL, written from ECMA-335. A
cell of the stack is both. Widths are constants, `Bits1` to `Bits8`, of which only the
order is asked, since it decides C's promotions: the proofs are about any widths, 8, 16, 32, 64
among them; the instances have 2, 3, 4, 6 bits, so that TLC goes through all values. Floating point values are whole numbers. The
instance lets the compiler apply an opcode only to variables of the opcode's sign
(`WellSigned`). Loads, stores, `add`, `sub`, `mul`, logic and equal comparisons have no sign: unsigned
values are stored to locations of every type of their kind. What is excluded, IL2C translates
wrongly, because it takes the sign from the C variable: `conv.u8` and `conv.u` of variables of a
signed type, to which the sums of two unsigned ones belong (C# emits these); and `conv.i8`,
`conv.i`, `div`, `rem` and signed branches of unsigned variables of four or more bytes, anything
that has these beside variables of another kind, and a store of a `uint32_t` to a native
location, which compilers for C# precede by a conversion. `shr.un`, `div.un` and the unsigned
branches but `bne.un`, which differ from CIL on signed variables for the same reason, are in no
instance. Section 5 lists what was seen.

### DecodeContext
The first half is the decoder: its queue of paths, the holders of slots, the snapshot of
each decoded offset, prefixes, labels and the continuations of leaves. The second
half executes what was emitted. The instruction at an offset is chosen when it is first
decoded, which covers every body of the given length. The passing instance has
bodies whose paths join with entries of the same types (`Merges = FALSE`).

### ExceptionFrames, CliExceptions, HandlerWriter
`ExceptionFrames` is the library and its macros: a block of the C stack with its frame,
the search of a throw, the jump, the leave from block to block. `CliExceptions` says
what a program may expect: handlers from the innermost outwards, finally handlers
on the way, a block whose handler runs protects no more. `ImplementsCli` is the
refinement; a block that is being left is gone in the abstract state (`SeenBlocks`).
Two restrictions are constants: `Escaping = FALSE` keeps exceptions from leaving a
handler from within a nested block, where the code differs (run
`exceptions_reentered`), and `MaxLeave = 1` keeps a leave to one block: the macros
hand a leave on from block to block and the innermost finally runs, but a leave
through several blocks at once takes the outer ones' continuation (`il2c.h`:462).
`HandlerWriter` is the controller that goes through the code and opens and closes those
blocks. `Bodies` are the bodies it writes: in the instance all nestings of up to three
handlers, in the proofs any that are laid out as CIL says but for those that start where
another's part ends (`BodyAssumption`).

### TypeTables
Classes with virtual, overriding, hiding, final and explicitly implementing methods,
and interfaces; the tables the writers make of them; references, which point to
one of an object's vtable pointers; calls, `ldvirtftn`, casts. The definitions
below the line are ECMA-335's. The hierarchies are all chains of up to three classes
below the root that declare one interface, and of two that declare two, with the
names and modifiers of `MCRuntime`; `Legal` is what a compiler accepts.

### Delegates, Boxes
Delegates are immutable lists in a table; an event is changed by the loop of compare
and exchange that compilers write, the AppDomain's handlers without one. `kept` is what
.NET would have. `Boxes` follows one value through boxes and unboxings of the
integer types, for `wchar_t` of two and four bytes. `Bits` gives the width of a type of so
many bytes. `Verifiable` is what the C# compiler writes; `Refused` is what of that the code
throws for where `wchar_t` has four bytes, and `Misjudged` adds the boxes of a Char whose upper
half is then not zero, of which nothing is said.

### StringFormat, StringStore, NumberText
`StringFormat` is the state machine of `il2c_format_string__`, three passes over a
composite format, compared with a definition of what .NET makes of it. `Formats` and
`Arguments` are what a program passes; items are counted in 16 bits (`Count`, with
`UInt16Max` = 9 in the instance, so that indices overflow). The characters that the code tests
for are `Opening`, `Closing`, `Space`, `Nul`, the colon and the digits. `Composite` is .NET's
side; it is `Other`, which the property says nothing of, for a brace that closes nothing
(also `}}`), and for items with a blank, an alignment or a brace in their own format: the code
takes, refuses or keeps these otherwise than .NET. `StringStore`
makes strings from literals (`Literals`), native texts (`Utf8Texts`) and others in any order; a
native text is decoded character by character as `il2c_utf16_from_utf8_and_get_last` does it, of
bytes that encode the text (`EncodedAt`). `char` is the sign of C's char, either in each
behaviour: an unsigned one compares a byte as it is; a signed one, which gcc and MSVC have on
x86, is never above 0x7f, and what is `Given` to the decoder is then one character for
each byte. `NumberText` is ToString and TryParse of the
integer types on texts of a program (`NumberTexts`) and of their values. The widths are
those of `Bits`, 3 to 6 bits in the instance, with C's `long` as wide as Int32, as on the
compilers for microcontrollers and Windows, and the sign of `il2c_twtoi` held in a signed
`char` (`strings.c` 73).

### CollectGateProofs, GcHeapProofs, SharedHeapProofs, MonitorTableProofs, RootRegistryProofs, MCThreadsProofs, MCRuntimeProofs, MCTranslatorProofs
The theorems, with the inductive invariants and the lemmas they rest on: section 6. The
invariants of `MCRuntimeProofs` are in `RuntimeInvariants`.

## 4. Runs

| run | instance | shows |
|---|---|---|
| `threads` | gate: 3 threads, 2 frames each; monitors: 2 threads, 3 objects that are all freed and made again, in one block of 2 slots, or 4 objects, one of them freed, in up to 2 blocks of 1; headers: 2 threads, 3 blocks; roots: 2 threads, 3 objects, 6 slots; events: 2 threads, 3 handlers, 4 delegates | types, one collector, exact count, while marking frames change by a throw only, locks given back; exclusion, the mutex found is the mutex entered, found objects are flagged; the list stays one; registrations agree with handles and are marked; no handler is lost, invocations call those there were |
| `gate_live` | 2 threads | collections end, started threads run |
| `heap` | 3 objects, 1 frame | shared mark, marked is live, nothing reachable is freed, freed once |
| `heap_live` | 2 objects, 2 frames | finalized before freed; no garbage after waiting; shutdown frees all; WaitForPendingFinalizers and the shutdown end |
| `heap_resurrect` | 2 objects, careless finalizer | **violation**: a resurrected object has dangling fields |
| `heap_constructed` | 2 threads, 2 blocks | **violation**: an object under construction is freed |
| `monitor_overrun` | 5 objects, 4 slots | **violation**: Exit does not find the lock of the fifth object |
| `translator` | bodies of 5 instructions with a catch or finally handler; numeric bodies of 4 instructions, all types | slots, labels, prefixes, leaves; stack, memory and branches agree with CIL; decoding ends |
| `translator_merge` | 7 instructions, paths that join with other types | **violation**: the code behind the join reads another slot |
| `translator_ble` | `ble` | **violation**: it branches where bgt does |
| `runtime` | see `MCRuntime.cfg` | exceptions implement `CliExceptions` and keep the frames; blocks around code; formats, strings for both signs of `char`, numbers, calls and casts, boxes for both sizes of `wchar_t` agree with .NET |
| `exceptions_reentered` | exceptions that leave handlers | **violation**: a catch handler is entered again |

**Bounds.** Three threads let one collect, one start or end, and one change its
frames; three slots make exactly one block, and positions from the end are exercised by
registrations while a walk is under way. Two frames let a thread pop one and
keep running. Three objects are a chain with a finalizable end, and two
objects and two frames a value that survives only as a result. `MaxDepth` 2 is a
recursive lock. Two allocating threads and three blocks let one push twice between
the sweep's read and its store, and reuse what was freed. Six slots are three blocks
of two, so that a registration adds one while another walk is inside the next. Five
instructions hold a loop with a branch out of it around a handler, four numeric
instructions two loads, an operation and its use. Four delegates let two
threads combine and take out handlers that the other has just stored. Four blocks and three calls nest
a handler in a handler under a call. Registers that grow in the code without bound
(frames, counter) have their bound in the guard of the program's actions only.

In the instance of the monitors with holes, all objects are reclaimed and come again, so a
hole in front of an object's own slot occurs, and in the other one the table grows;
`MonitorExcludes` and `HolderOwnsItsLock` are about the objects that are not `spoiled` there.
`SmallFoundIsFlagged` is about tables in which at most one object is reclaimed. With two
it does not hold: the slot one of them leaves is taken by an object that already
has one further on, whose own reclaiming then leaves the second behind.

**Deadlock** is checked for the gate; the other parts of that run, which come to
their bounds, may stutter. Elsewhere programs end, or stop at their bounds, and those
runs do not check it.

**Fairness.** `CollectGate!Fairness`: each thread is scheduled (weak fairness of
the steps that wait for nobody); each mutex is obtained by a thread that finds it
free again and again (strong; POSIX mutexes under contention with a fair
scheduler); a finalizer returns and the sweep's list is finite (strong fairness of
its return and of the end of the sweep). Nothing is assumed of managed code:
a thread may stay in it for ever. `GcHeap!Fairness`: the runtime takes its
steps, a finalizer comes to its end. The liveness run has finalizers that neither
allocate nor register again; with either the loops need not end. The decoder of
`translator` is a loop that nothing interrupts (weak fairness of its step).

## 5. Disagreements found

Six runs end in a violation; each checks a statement of a comment, an assertion or a
document, quoted in `PROJECT.json`.

1. `heap_resurrect`: `il2c_gc.c` 358 and 372 provide for resurrection, but only the
   object itself is marked; what it references is freed by the same sweep.
2. `heap_constructed`: `il2c_allocator.c` 116 and 155 call an object under construction
   marked; a collection that inverts the index before or after makes it garbage.
3. `monitor_overrun`: `Monitor.c` 348 asserts that Exit finds the lock; the object
   that filled its bucket's last block got a slot outside of it.
4. `translator_merge`: `DecodeContext.cs` 353 says that code reached with other slots is
   split; it is emitted once, for the slots of the first path.
5. `translator_ble`: `docs/supported-opcodes.md` lists `ble` as implemented; its code
   branches on `>`.
6. `exceptions_reentered`: `il2c_exception.c` 137 says that a throw inside a caught block
   skips its frame; from a nested try it does not.

Seen while modelling, and left out of the instances or of the properties:

- *Runtime.* The finalizer of a thread unlocks a lock that its collector did not take
  (`Thread.c` 20-22), since the thread has left the root references before. A hole
  in the monitor table gives an object a second lock (`Monitor.c` 102 asserts it has
  none), growing makes two objects' locks unsafe. A throw resets the execution frames
  without the thread's lock (`il2c_exception.c` 55), also while the collector reads them.
  An exception that leaves a finalizer jumps out of `il2c_collect__`. The object of a normal
  handle made by `Alloc(object)` is not registered (`GCHandle.c` 46). A header pushed between the sweep's read and store of the head leaves the list.
  The AppDomain's handler is not marked, and one of two handlers added at once is lost.
- *Exceptions.* A finally handler that throws on the normal path runs twice; a leave
  through several blocks (`il2c.h` 462); `FunctionWriter.cs` 460 uses an index of another
  numbering unless handlers are numbered by depth; adjacent handlers
  (`ExceptionHandlerController.cs` 131) get a start before an end; a body in which two
  handlers end last is refused.
- *Strings and numbers.* Characters of three UTF-8 bytes are shifted (`String.c` 202), those of
  four may skip the terminator, and where `char` is signed none but ASCII is decoded;
  where it is unsigned the sign of `il2c_twtoi` is wrong: with either some of the two is. Format
  takes `{ 0}` and a single `}`, does not unescape `}}` (`String.c` 301) and refuses an alignment, as in
  `{0,5}` (401). Equals(object) of a string or number throws
  InvalidCastException for other types. TryParse takes trailing characters, takes `-1` for
  unsigned types, and where `long` has 64 bits Int32.TryParse takes too much.
- *Numeric code.* `conv.u8` and `conv.u` of a sum of unsigned values extend its sign
  (`ConvConverters.cs` 229), since the sum is a variable of a signed type
  (`ArithmeticalConverters.cs` 40); `conv.r8` of integers is refused (289); `stind` wants equal
  types; `conv` refuses bool.
- *Types.* Casts from an interface to a class give an unadjusted reference (`il2c.c` 87);
  a devirtualized interface call ignores overrides, hiding and explicit
  implementations (`CallConverters.cs` 72); `ldvirtftn` looks a field of the declaring
  class up in the table of another (`LdftnConverters.cs` 66); a visible method that a
  hidden slot of the same name follows gives C that does not compile; overloads with
  as many parameters compare equal (`MetadataUtilities.cs` 447); a base's explicit
  implementation wins over a derived one (`TypeHelperWriter.cs` 94); interfaces do not
  inherit; internal virtual methods have no entry. Boxes of eight-byte types from other
  types throw. Where `wchar_t` has four bytes so does every char that is boxed from a type
  of four, as constants are (`il2c.c` 253): `Box_Narrowing.cs` 11 and `Box_Widing.cs` 13 demand
  a box there. Enums are not
  unboxed as their underlying types; equality of delegates ignores their type.

## 6. Proofs

`CollectGateProofs` proves for every finite set of threads, every bound on frames and
the assumptions named in `CollectGate`: `TypeCorrect`, `MutualExclusion` and
`CounterIsExact`. `GateInv` is the inductive invariant. `OneCollector` is not
inductive: a thread enters when the counter reads 1 after its increment, and that
nobody else is inside follows only from `CounterExact`. `CounterExact` in turn needs
that the code between increment and decrement is run by collectors alone
(`CollectorAtWork`), and `TypeOK` (the counter is a natural number when
decremented) needs `CounterExact`. That a frame counter stays natural
needs the bookkeeping of whose frames are whose while finalizers run
(`FrameToPop`, `BottomFrame`); `StartsUnborn` keeps two starters from creating
the same thread, which would move the pc of a thread at work. The argument: the
two counted sets are finite; an increment adds its thread to one of them, a decrement
removes it (`CounterStepKept`), every other step leaves both alone (`CounterSteps`).

Its second half proves `NobodyLockedOut` (`LocksGivenBack`) and `MarkingStopsCalls`
(`FramesChangeByThrowOnly`) under the same assumptions. Both are about two walks over a
table that other threads fill and empty between two steps of a walk. `TableInv` says that
a registered thread has exactly one slot and who is registered when; positions are counted
from the end, so none moves (`SlotAt`). `LockInv` then says of the collector's first walk that it
takes no lock twice (`TakesOnce`) and that every thread of `world` is still ahead of it or locked
(`TakesAll`), of the second that what is still locked is ahead of it (`GivesAll`), and of
everybody that who owns a lock is collecting or relinking its own frames
(`OwnerBusy`). A thread registered behind the first walk is met by the second, which does not own its
lock: that exit fails and changes nothing. That no second collection does the same at
once is `GateInv`. A thread that relinks its frames owns its lock and so, of `world`,
is none that the collector holds: that is the second theorem. It leaves the throw, which
changes frames without the lock.

`GcHeapProofs` proves about `GcHeap` for every finite set of objects, any fields,
statics, finalizable classes and nesting of calls:

- whatever finalizers do: `HeapTypeCorrect`, `MarksAgree` (`SharedMark`),
  `BlocksFreedOnce` and `ShutdownIsComplete`, by the invariant `HeapInv`.
  `SharedMark` alone is not inductive: that a sweep leaves only marked headers
  needs that everything it has passed is marked (`Passed`), which the flags of
  running finalizers and the headers they link in front must not disturb; that
  the shutdown ends with an empty list needs that a sweep that kept nothing has
  nothing behind it (`Counted`);
- for careful finalizers (`Careless = FALSE`, the assumption of these theorems):
  `NothingReachableFreed` (`NoDangling`), `MarkingIsExact` (`MarkedIsLive`) and
  `FinalizersComeFirst` (`FinalizedBeforeFreed`), by `HeapSafe`, which adds
  `SafeInv` to `HeapInv`, and `WaitingCollectsEverything` (`WaitLeavesNoGarbage`).

`NoDangling` speaks of what the program reaches now. That is too weak to be
kept: a finalizer will be handed an object the program no longer reaches and may
follow its fields. `Intact` therefore asks that everything reachable from the
roots *and from objects that still expect their finalizer* is allocated. During
marking `ThreeColours` holds; when no grey object is left it makes the marked set
closed, so it is what is reachable, and the sweep discards none of it. From then
until the memory is given back `Spared` says that nothing discarded is reachable
from the roots that will remain: a finalizer's assumption keeps it while managed
code runs, `FinalizerReturnSafe` turns it back into a fact about all roots, and
`SweepDoneSafe` uses it. `LastRound` carries the argument through the rounds of the
final shutdown, where nothing is marked: the first calls every finalizer that is
left, so that the later ones, for which fields may dangle, call none. Reachability is
the least closed set (`Closure`), with lemmas for its being closed, least and monotone.

`WaitLeavesNoGarbage` is about the list when a loop ends, `MarkedIsLive` about the marks when
a sweep begins. `Clean` joins them: as long as the sweep has asked no finalizer (`pending` is
0) the marked headers stay those the program reaches, at its end no others are left,
and what is given back is referred to by none of them.

`HeapSafe` was also checked by TLC on the instances of `heap` and `heap_live`.

`SharedHeapProofs` proves `ListStaysSound` about `SharedHeap` for any threads and headers:
from the head of the list every header of it is reached once and the walk ends, however
pushes meet the sweep. The list is a set of headers whose links lead downwards in some
ranking, no two of them to the same header and none to the head (`ListOf`); that it has
no cycle need not be said of paths. The block of a thread that makes an object is that
thread's alone (`Apart`), is not INITIALIZED and so is not discarded (`Owned`), and a push
puts it on top of the ranking: the compare-and-swap succeeds only if the head is the one
its link was set to. A sweep that unlinks a header stands between two neighbours of the list.
The assumption is that the null pointer and the list's own field are no headers.

`MonitorTableProofs` proves about `MonitorTable`, for any threads, objects, slots, blocks and depth
of recursion and any reclaiming, `MonitorsExclude`, `HoldersOwn` and `ExitsFindTheirLock` of all
objects that are not `spoiled`; of those they are false (for growth see `monitor_overrun`).
Exclusion is not inductive. `Kept` says what is, of an object that is not spoiled: if it has no
slot nobody is inside, and if it has one it has no other, and the mutex there says who
is inside and how often. `Pointing` says that a call which has looked its object up stands at the
object's slot, unless the object is spoiled, so no mutex is entered or left for another. A slot
is given only to an object that has no flag, hence no slot, or that is spoiled by it
(`AssignMonitors`), and only the sweep takes it away, when nobody uses the object; growing spoils
both objects whose mutex it makes unsafe (`ExtendMonitors`).

`FoundObjectsAreFlagged` is about all objects, in tables of any size, and assumes
that the collector frees at most one of them, as often as it likes (`OneReclaimed`). Why it needs that is said in section 4. By `NoneBefore` no free slot is in
front of that object's own, so a call never gives it a second one, and emptying the first
slot that has it leaves none.

`RootRegistryProofs` proves `RegistrationsAgree` about `RootRegistry`, for any
threads, objects, size of blocks and number of slots, with one handle to an object at a time; the
objects of `bare` handles are not registered, and are proved not to be. An object belongs to at most one
thread (`Alone`, what `Fresh` provides); a slot that is not free belongs to a thread which
is past storing it and not past clearing it (`Accounted`), and that thread has its slot still
ahead in the walk that will clear it (`Found`). Hence two threads never write the same slot,
although neither holds a lock: `il2c_icmpxchgptr` decides who gets a free one, and what is not
free is written by its owner alone. `Marks` carries this to the collector: an object that
keeps its handle is marked already or in a slot that the walk has still to visit; new blocks
in front of the walk do not move that slot. Slots are counted from the end for that reason.

`MCRuntimeProofs` proves `FramesStayLive` about `ExceptionFrames`, for any
exceptions, filters and nesting of blocks and calls, also for programs whose exceptions leave handlers
(`Escaping`). `FrameInv` adds to `FramesAreLive` that a catch handler that
runs has its exception (`Handled`), which a rethrow from an inner block relies on to find one.
The links are followed as the least closed set (`Chain`), and `ChainFacts` shows that
it is all blocks from the innermost on. `FrameInv` was checked by TLC on the instance of `runtime`. The
invariants named here and below for `MCRuntimeProofs` are in `RuntimeInvariants`.

`HandlersRunAsCilSays` is the refinement: every step of `ExceptionFrames` is a step of
`CliExceptions` or a stutter (`ImplementsCli`), under `Escaping = FALSE` and
`MaxLeave = 1`. Section 3 says what the code does otherwise: without the first it does not
implement `CliExceptions` (run `exceptions_reentered`). `CliInv` adds to `FrameInv` what these two give
(`PartInv`): control is behind a handler in the innermost block only, so that `SeenBlocks`
leaves out at most that one, and a block that is still protected holds no exception. The
search of a throw follows the links; that it finds the innermost block whose filter
takes the exception is `ChainFacts`.

`MCThreadsProofs` states `ListSound`, `MonitorExcludes`, `HolderOwnsItsLock`,
`SmallFoundIsFlagged` and `RegistryAgrees` of the run `threads` for any threads and objects: a behaviour stays in the
part it begins in, where it is one of the component. `ThreadsConstants` asks that
"none" is no thread or object, nor the reclaimed one, and that "begin" is no object. The two
theorems on monitors cover the part with holes and the part that grows.

`ThreadsDelegatesAgree` proves `DelegatesAgree` there, for any threads, handlers and number of
delegates, and one thread that changes the handlers of the AppDomain (with two, one is
lost: they are stored without a comparison). In `EventsInv` every table that was made stays as
it was (`Grow`), so that what a thread has made of the delegate it read is right
for as long as the field refers to that delegate, or to it again: the comparison of references
is one of lists, whatever happened between. `WithoutReturns` shows that the code, which searches
for the last place of the removed handlers, leaves what .NET's definition leaves, which is in
terms of the shortest rest behind them (`TakenIsRest`).

`MCTranslatorProofs` proves about `DecodeContext`, for methods of any length and depth of
stack, with any handlers, branch targets and types: `EmitsTheReachable`
(`ReachableEmitted`), `LeavesGoToTarget` (`LeavesReachTarget`) and `PrefixesApplyOnce`
(`PrefixApplies`); and `DecodeWellTyped` (`TypeOK`) and `SlotsHoldTheirValues`
(`SlotHoldsValue`) for those whose paths join with equal types (`Merges = FALSE`; with other
types the code behind the join reads the wrong slot, run `translator_merge`).
`DecodeInv` is the inductive invariant. An emitter says what its instruction does at
the stack recorded for its offset (`Fetched`): only this makes the order in which the paths
are decoded irrelevant, and it holds because a dequeued path first selects its
slots again (`RestoredIs`). That stack comes from a start of the method or from an
instruction emitted earlier (`Justified`), so CIL reaches the instruction, after at most
as many others as the method is long (`PointsReached`). Conversely what follows an
instruction is decoded or queued (`Followed`): a path may be dropped only if its target was
decoded. For a method that is verified the stacks at both ends of each step then fit
(`Typed`), and by `Runs` execution carries the stack recorded for the offset it is at, through
branches, delayed leaves and handlers. `Prefixed` says that a prefix was the instruction just
before. `Reached` is a recursive function; that it has the values its equation says
(`ReachedIs`) is proved by induction over sets of numbers (`AllNumbers`). `DecodeInv` was
checked by TLC for bodies of four instructions.

Its second half is about the numeric instructions, for code of any length, any depth of stack
and any widths with the order of .NET's: `TranslatorWellTyped` (`TypesOK`), `StacksAgree`
(`StackAgrees`), `StoredValuesAgree` (`MemoryAgrees`) and `BranchesDecideAlike` (`BranchesAgree`).
The invariant is `NumericInv`. That the C variable and CIL's entry are equal is not
inductive, nor true: a variable of an unsigned type stands for an entry that CIL reads as
signed. `Agree` says what is: each fits the type it has (`Fits`), and the lowest bits of the
entry are those of the variable (`Alike`); for floating point values they are the same number.
Sums, differences and products keep likeness (they are right modulo any power of two);
quotients, remainders, shifts to the right and comparisons do not: for these the proof needs that the variable, at its type, *is* what CIL reads the entry as
(`AgreeIs`), and this is where the hypothesis `WellSigned` enters: section 3 lists what it excludes,
and C# emits some of it. A store asks for nothing of the kind: the lowest bits are enough, for locations
of unsigned types too. A conversion keeps likeness if
the target is no wider and values if it is, which is the reason the order of the widths
decides. `BranchesDecideAlike` assumes that `ble` does not occur: with it the
theorem is false (run `translator_ble`). `TranslatorWellTyped` has the type invariant of
the decoder as one half and therefore `Merges = FALSE`. `NumericAssumption` says of the powers of
two of the four widths what is true of all natural numbers (a larger exponent is a
multiple); the provers know nothing of powers, and TLC evaluates it for the instance.

`MCRuntimeProofs` proves `CodeStaysInItsBlocks` (`CodeInItsBlocks`) about `HandlerWriter`,
for bodies of any length with any handlers whose clauses follow each other and the try, and
that nest or follow each other with code between (`BodyAssumption`; CIL also lets a handler start
where another's part ends, as two tries in a row do, which is excluded: the controller takes the
start first and is wrong). The stack of open
handlers alone does not say what a program's offsets do; `WriterInv` relates the two. A handler
on the stack is in the part its state names, or between two of its parts (`Reached`); what is above
it on the stack lies in that part (`Nested`); a handler that was started and has left the stack
lies behind, and none is started late (`Started`). The open C blocks are those of the stack
(`BlocksOfStates`), hence code is written in the blocks of the handlers its offset is in
(`Written`), and a leave is bound, as a goto where every handler around it contains the target, at the
end of each handler it is in (`Bound`; `TopBinds`). The part on leaves has the condition that
handlers are numbered by their depth, as in the property.

`StringsHoldTheirTexts` (`StringsAgree`) is about any number of strings, literals of any
length and native texts in UTF-8, and both signs of `char`. `StoreInv` is the inductive invariant: each string is a
buffer of one cell more than its text, ends with a terminator, has none before, and
holds the text except characters from U+0800 on (the code shifts these, so only their
number is right). `wcslen` then finds the length (`LengthIs`), and every copy of a part stays in
its buffer (`CopyIs`). Decoding is a recursion from the end of the bytes (`DescentExists`:
there is a function with that equation; `DecodedIs`: it reads each character and goes on behind
it, as many as `Utf8LengthIs` says were counted). Both are about bytes at which characters
are `Placed`: those of the encoded text if `char` is unsigned (`UnsignedPlaced`), every single byte if
it is signed (`SignedPlaced`); in the second case the text is not the encoded one, but for
ASCII. `TextAssumption` says that native texts
are UTF-8 of the first plane; `OrAssumption` is a fact about C's `|` on the sixteen and
sixty-four numbers that occur, which TLC evaluates completely.

`BoxesStayAgreed` (`BoxesAgree`) is about any widths of the integer types (`BitsAssumption`, the
powers of two again). `BoxInv` adds that what .NET has is the value that is pushed, or the
bits of the box read at its type; a value that was cut to the width of its type and is cut again
stays the same (`WrapAgain`), and a Char stays unsigned whatever the width of `wchar_t`. Where that is
four bytes the theorem says which boxes of a Char throw (`Refused`), which .NET's do not, and
nothing of the value of those that are `Misjudged`.

`NumbersAreReadAndWritten` (`ParseAgrees`) is about texts of any length and any widths of the
types. `NumbersInv` says that a text made from a value is a numeral for it, and that what was
parsed is what TryParse gives. The sums that the conversions form digit by digit are
functions on an initial segment of the numbers: there is one for each equation (`AscentExists`), and
`UpwardsAll` is the induction. The signed conversion holds the number as far as it
is in reach and the limit from then on (`Capped`, `AddDigitIs`), because the test against
`cutoff` and `cutlim` is the comparison of the next number with the limit (`CutoffIs`, which is
where C's truncating division matters). `il2c_twtoi` has no test: a magnitude that Int32 has is
never wrapped on the way, but that of its lowest value, which comes out as itself when it
is negated (`TwtoiIs`). The other way, the digits of `INTTOW` sum up to the value
(`DecimalIs`, `TextOfValueIs`).

`FormatsAgree` (`FormatAgrees`) is about composite formats and lists of arguments of any
number and length and any width of the count; of formats that are `Other` (section 3) it says
only that the passes agree. What a pass has found when it has read so many
characters is a function of the format (`Trace`, by the equation `After` of one character),
which is why all three passes find the same items. `FormatInv` says of a
running pass that it stands where `Trace` says (`StandsAt`) and what it carries (`Carried`): the
number of items behind it, the length or the text they have with the literals, and in the third
pass the texts that the second one made. .NET's side is an equation from the end of the format
(`CompositeIs`). `Matches` joins the two at every character: the text so far, followed by what .NET
makes of the rest, is what .NET makes of the whole; inside an item it says what the item's
digits and format will be. `UpwardsAll` carries it along the format (`TraceMatches`). What is
refused once is refused from there on (`RefusedStays`), so only the first pass can throw: the
others are entered when it has read the whole format. `FormatAssumption` bounds a format to fewer than
three characters for each number the count has, because an item takes three: nothing in the
code stops an itemCount from wrapping round, and with it the array of the texts would be
too small. It also says that no format contains the terminator and that there are no more
arguments than the largest of these numbers (`String.c` 1086 throws otherwise).

Only model-checked: `DispatchAgrees`, since a hierarchy of types is gone through by recursive
definitions on both sides that are compared; and all liveness
(fairness and ENABLED are outside the prover), `DecodeEnds` among it.

## 7. Not modelled

Builds with the giant lock or without threads; `Join`, `Sleep` and thread ids; the
attaching of native threads; type initializers (`SourceCodeWriter.cs` 255 notes itself that
they race); arrays; value types and pointers in the translator; floating point beyond
whole numbers, Boolean, Char and Enum; hashing; the debug heap; platform wrappers and
firmware headers; the metadata reader; the text of declarations and the build tools,
which have no state of interest. The samples and tests are programs that use IL2C.

Compositions that are not checked: a finalizer that enters a monitor whose owner
waits for the collector, and one that waits for pending finalizers, which both stop for
ever.
