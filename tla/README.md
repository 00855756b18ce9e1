# Mercury: a TLA+ verification project

Mercury is a C++ port of the Android media foundation: a message library (`foundation`), the base
utilities it stands on (`libutils`), and a media library (`libstagefright`) of extractors, packet queues
and file writers. What is hard in it is of two kinds: the concurrency (loopers, reference counts, threads
that own themselves, buffers shared between threads, and shutdown of all of these at any moment), and
the long protocols with files (muxers whose tables must say where the samples are, demuxers that must
find them again whatever the file says). This directory models those parts in TLA+, checks them with TLC
on small instances, and proves central theorems with TLAPS for every instance.

Paths below are relative to `src/`. `PROJECT.json` lists, for every definition, the lines it models.

## 1. Inventory

### Parts that carry the program's own logic

| Component | State | Operations | Interacts with | What is hard | What makes it correct |
|---|---|---|---|---|---|
| `ALooper` (`foundation/ALooper.cpp`) | time-ordered event queue, current `LooperThread`, borrowed-thread flag, condition | `post`, `start` (own thread or caller's), `stop`, `loop`, destructor | handlers call back into it; `Thread`; roster posts through promoted references | stop from a handler, from another client, from the destructor; lost wakeups, because `post` signals only for a new head | delivery in due order and once; handlers never concurrent; `stop` returns only when the thread is gone; nothing uses a freed looper |
| `ALooperRoster` (`foundation/ALooperRoster.cpp`) | id -> (weak looper, weak handler), next ids, replies | register, unregister, sweep of stale entries, post, find, deliver, `postAndAwaitResponse`, `postReply` | every looper and handler of the process | references promoted under the lock can become the last ones | no message reaches a handler it was not addressed to; replies match requests and none is lost |
| `RefBase` (`libutils/RefBase.cpp`) | strong and weak count with an initial bias | `incStrong`, `decStrong`, `incWeak`, `decWeak`, `attemptIncStrong`, lifetime extension | everything | atomics interleaved instruction by instruction; first reference, last reference, promotion | a reference keeps the object; counts equal references; nothing leaks or is freed twice |
| `Thread` (`libutils/Threads.cpp`) | `mExitPending`, `mRunning`, `mHoldSelf`, `mThread`, status | `run`, `requestExit`, `requestExitAndWait`, `join`, `_threadLoop` | `ALooper`, writers, dispatchers | the object may have no owner but its own thread | one worker at a time; waits end and mean what they say; no use after deletion; unreferenced threads die |
| `SharedBuffer`, `VectorImpl`, `Vector`, `SortedVector`, `KeyedVector` (`libutils`) | storage with a count, size, items; a vector points into it | copy, edit, insert, remove, add by key, replace, release | every container of the program | two threads hold one buffer through two vectors and change both | a vector never changes through another one; counts equal holders; a sorted vector has each key once, in order |
| `String8`, `String16`, `Unicode` (`libutils`) | storage as above, whose size implies the length | set, append, replace, case, remove, lock/unlock, path functions, conversions | everything that has a name | lengths computed in one pass and written in another; characters of several units; appending a string to itself | a string says what was done with it, to its last unit; conversions agree on length and content |
| `MediaBuffer`, `MediaBufferGroup` (`libstagefright`) | list of buffers, reference counts, observer, original of a clone | `add_buffer`, `acquire_buffer`, `add_ref`, `clone`, `release`, destructor | sources and writers | counts change outside the group's lock | an acquired buffer is nobody else's; no lost wakeup |
| `AnotherPacketSource` (`libstagefright/mpeg2ts`) | queue of access units and discontinuities, one segment per run, discontinuity count, EOS | queue unit / marker / discontinuity (keep or discard), EOS, clear, `dequeueAccessUnit`, `read` | the parsers feed it, players read it | bookkeeping beside the queue, through discards, clears and reads | segments and count match the queue; durations never negative; readers return |
| `CallbackDispatcher` (`libstagefright/omx/tests`) | queue, done flag, batch being dispatched | `post` (real-time or batched), `loop`, destructor, component start/stop | a component thread, an owner | a batched post wakes nobody; the owner frees the node while threads run | messages once and in order, nothing used after free, announced batches are handled |
| `MPEG2TSWriter` (`libstagefright`) | one looper per source, one for the writer, one assembly buffer per source, EOS flags | `addSource`, `start`, `reset`, destructor, read / notify / write exchange | `ALooper`, `ALooperRoster`, `MediaSource` | the exchange lives on one message in flight; reset in the middle of it | units whole, once, in order; EOS means written; sources called only between start and stop |
| `MPEG4Writer` (`libstagefright`) | per track: flags, sample tables, a chunk being collected; chunk lists; file offset; movie box in memory or file | `start`, `pause`, resume, `stop`/`reset`; the threads of the tracks and of the writer | `MediaSource`s, an owner | three kinds of threads; pause and stop at any moment; tables kept apart from the data; a movie box that outgrows its reserved space; limits on size | what the tables say is where and when the samples are; the boxes nest and fill the file; every call returns |
| TS demuxing: `ATSParser`, `ESQueue`, `MPEG2TSExtractor` | programs and streams by PID, assembled PES packets, elementary stream buffer with its time ranges, sync points, seek state | feed a packet, tables, PES, framing by codec, read, seek, duration estimate | `AnotherPacketSource` | units cut anywhere, lost packets, changed tables, two readers that feed each other's sources, seeks | units read are the frames of the file with their times, once and in order; a seek lands on a sync frame; a reader that finds nothing feeds until it does or the file ends |
| PS demuxing: `MPEG2PSExtractor` | buffer, offset, stream map, tracks | chunk reads, packet parsing, scan for tracks, read | `ESQueue`, `AnotherPacketSource` | partial packets at the end of a chunk; tracks found while scanning | as for TS |
| MP4 demuxing: `MPEG4Extractor`, `MPEG4Source`, `SampleTable`, `SampleIterator` | tracks and meta data, sample tables, three cursors shared by the sources of a track, fragments, encryption state | reading boxes; start, read, seek, stop; lookups | `DataSource`, `MediaBufferGroup` | cursors that are moved by whoever looks; tables in six forms; fragments found as they are read; damaged sizes | samples are read as they are in the file, in order; seeks land where their mode says; damage ends in an error, not in a wrong sample or an endless loop |

| `AMessage`, `ABuffer` (`foundation`), `MetaData` (`libstagefright`) | items by name or key, each of one type; a buffer's range | set, find, clear, dup; typed set and find | every component that talks to another | an item keeps a reference or a copy according to its type; a name that changes its type | what is found is what was set last, and of its type; a copy shares nothing that either may change |
| `TinyCacheSource`, `MediaExtractor` (`libstagefright`) | a window of the file; sniffers with their confidence | `readAt`, `getSize`; `sniff`, `Create` | `DataSource`, the extractors | a read across the end of the window or of the file | a read gives the bytes of the file and their number; the surest sniffer wins |
| `ABitReader`, `avc_utils`, `ESDS`, `Utils`, `base64` | a position in a buffer | reading and writing bits, parameter sets, NAL units, descriptors, formats to and from messages | muxers and demuxers | sizes that the data itself gives; emulation prevention; fields across bytes | what one writes the other reads; damage is refused, not misread |

### Parts that are left aside

Logging, printing and call stacks, `libcorkscrew` (third party, machine dependent),
`Mutex`/`Condition`/`Timers`/atomics wrappers, file I/O and the demonstration programs. They are wrappers of
the operating system or only format text. The wrappers are modelled where they are used: a critical section
of a `Mutex` is one step, or an explicit lock where the code holds it over another thread's step; a
`Condition` is the set of threads parked on it, with spurious wakeups.

## 2. The modules

| Module | Models | Run | Proofs |
|---|---|---|---|
| `MessageQueue` | abstract: what a looper promises to those who post | refined by `ALooper` | |
| `ALooper` | one looper, its threads, its owners | `ALooper` | `ALooperProofs` |
| `ALooperRoster`, `MCALooperRoster` | the registry, with loopers as a queue and a thread | `Roster`, `Roster_destruction` | `ALooperRosterProofs` |
| `MercuryThread` | one `Thread` object and its successive threads | `Thread`, `Thread_create_fails` | `MercuryThreadProofs` |
| `Vectors` | abstract: each vector is a sequence of its own | refined by `VectorImpl` | |
| `VectorImpl` | vectors over shared storage, step by step on the count | `Library` | `LibraryProofs` |
| `RefBase`, `MCRefBase` | one object's counts, atomic by atomic | `Library`, `RefBase_underflow` | `RefBaseProofs` |
| `MediaBufferGroup` | the pool and its buffers | `Library` | `MediaBufferGroupProofs` |
| `CallbackDispatcher` | dispatcher, component and owner | `Queues` | `QueuesProofs` |
| `PacketQueue` | `AnotherPacketSource`'s state, and its methods as functions of it | used by the next one and by the demuxers | |
| `AnotherPacketSource` | a packet source with a parser and blocked readers | `Queues` | |
| `MPEG2TSWriter` | writer, source loopers and owner | `Queues` | `QueuesProofs` |
| `MP4Boxes`, `MPEG4Writer`, `MCMPEG4Writer` | boxes and tables of entries; tracks, writer thread, owner | `MPEG4Writer` | `MPEG4WriterProofs` |
| `ESQueue`, `ATSParser`, `MPEG2TSExtractor`, `MPEG2PSExtractor`, `MCDemux` | elementary streams on `PacketQueue`; transport streams; the two extractors with two readers each | `Demux` | |
| `SampleTable`, `MPEG4Extractor`, `MPEG4Source`, `MCMPEG4Source` | tables and cursors; boxes into tracks; sources | `Mp4`, `Mp4_asserts` | |
| `Strings` | `String8` and `String16` over shared storage, and their conversions | `Mp4` | |
| `AMessage`, `MetaData` | messages with their items and buffers; meta data by key | `Mp4` | |
| `TinyCacheSource`, `MediaExtractor` | a file through its cache; the sniffers and what they choose | `Mp4` | |
| `avc_utils`, `Utils`, `Formats` | bits and AVC headers; formats to messages and back, descriptors, base64; the texts and bytes they are tried on | `Mp4` | |
| `MCPayloads`, `MCMedia` | the parts of the last four rows, each alone; and with `MCMPEG4Source` in one run | `Mp4` | |

`MCLibrary`, `MCQueues` and `MCMedia` put components that do not call each other in one run. A behaviour is one of one
part, chosen by `part` in the initial state, with the variables of the others at a constant; each part's
fairness is guarded by its part, and its properties speak only of its behaviours. `MCDemux` composes for
real: the extractors feed the parser, which fills elementary stream queues, which fill the packet sources
that readers empty; a behaviour plays a transport stream or a program stream.

Conventions. Variables carry the names of the C++ members; `pc`-like variables say where a thread is
inside a function. An action is a critical section, a handler, or, in `RefBase`, `VectorImpl` and
`MediaBufferGroup`, one atomic instruction or one look at a shared count. Where a component is used under
one lock, or by one thread, its methods are functions of its state (a record), and an action applies them;
the functions are written in the order of the code's tests. Variables marked "history" record what happened
for the properties and influence nothing. A failed `CHECK` sets `aborted` or `fault`, after which nothing
moves. Use of freed memory is recorded, not given a meaning. `MCLibrary` and `MCQueues` have the parameters of
their parts as constants, so that what is proved of a part alone (`Object == INSTANCE RefBaseProofs WITH ...`) is
cited for the specification that the run checks. Operators marked "mutant of" are plausible
faults; they are not part of `Next`, and each shows that a property depends on the code it stands beside.

In the map of `PROJECT.json` a helper whose lines lie within those of a definition that uses it, in the modules
that are not about interleavings, is covered by that definition's entry and has none of its own.

### How the state corresponds to the code

* **ALooper**. `mEventQueue` is the list of `Event`s. `post` inserts before the first later event and
  signals only when it inserted at the head; `loop` is `LoopExits`, `LoopWaits` or `LoopTakes`, one
  critical section, and after a wait it returns to its caller without looking at the queue. `stop` is
  `Stop` (both fields taken under the lock), `RequestExit`, `StopSignals`, `Join`, `Joined`,
  `StopReturns`; the destructor is the same path entered from `Release` of the last reference. The
  looper thread runs `Thread::_threadLoop` (`ThreadBegins`, `ThreadLooped`). Time is a bounded clock.
* **ALooperRoster**. `mLock` is explicit because destructors run under it: an `sp<>` promoted in a
  scope is an entry of `tmpL` / `tmpH`, released in an action of its own (`EndScopeL`, `EndScopeH`),
  and releasing the last one destroys the looper (joining its thread) or the handler.
* **RefBase**. The program counters are the places between two atomic instructions of a member
  function; `cur` is the `curCount` local. `InitialStrong` stands for `INITIAL_STRONG_VALUE`.
* **MercuryThread**. `mLock` is explicit only over `run()`, which holds it across thread creation;
  `strong` is the `sp<Thread>` local of `_threadLoop`, dropped and promoted again between rounds.
* **VectorImpl**. `hold` is the buffer behind each `mStorage`, and the new one a thread is filling; an
  operation is a record in `op[t]` with its phase: `onlyOwner()`, the copy, the release of the old buffer
  and the write are steps. A buffer has its items and its capacity, so that growing, shrinking and editing
  in place are told apart as in `_grow` and `_shrink`. `Implements` maps the storage to `Vectors`.
* **Strings**. A string is the buffer its `mString` points into; `heap` has each buffer's count and units
  with the terminator, so that a wrong size is a wrong string. `meant` is the text by what was done.
* **MediaBufferGroup**. The scan of `acquire_buffer` is stepped buffer by buffer, `release` is the
  decrement and then the call of the observer, because neither takes the lock of the other.
* **PacketQueue, AnotherPacketSource**. The state is one record with the members' names; access units are
  their timestamps; `byRead` chooses which of the two consuming functions the readers use.
* **CallbackDispatcher**. The component thread's round is the three callbacks of `threadLoop`.
* **MPEG2TSWriter**. Each looper is a queue and the message in hand; `mBuffer` lists the `ABuffer`s a
  source allocated, the last one being its `mBuffer`, and a notification names one of them, so that an
  overwritten buffer shows in what is written.
* **MPEG4Writer**. `ctl` has a track's flags, `tab` its sample tables (each a `ListTable`), `loc` where its
  thread is in `threadEntry` with its locals. A round of the loop is read, stamp, tables, hand over;
  `chunks` are `mChunkInfos`; `writers` says where each writer's thread is, the newest last, which is the one
  `stop()` joins, and `held` what one that writes has taken. A signal wakes one parked writer, whichever. A call of
  `start()` gives threads track by track, may fail at any, and then unwinds. `mdat` records what is written and where. Stopping
  writes the movie box with `MP4Boxes`, which computes for each box where it lands and the size it is
  given; `file` is the result, for `FileWellFormed` to walk.
* **ESQueue, ATSParser, the extractors**. Bytes that framing never splits are a *piece*, with the frame it
  belongs to; so a start code found too early or late, a unit cut or joined, or a time taken from the wrong
  PES packet shows in what is read. The file says of each frame whether it can be decoded by itself, and where a
  seek landed is judged by that, not by the flag the queue set. `feedMore()` is a step, as is each call on a
  source, so that two readers interleave as they can. A seek is one step (section 7).
* **SampleTable, MPEG4Extractor, MPEG4Source**. Files are boxes by their offset, and reading a box is a
  function of the extractor's record. The cursors of `SampleIterator`, the composition offsets and the
  sync samples are state, shared by two sources of one track, so that a stale cursor shows in a sample.

## 3. The runs

States are distinct states found; all runs are exhaustive within their bounds.

| Run | Checks | Bounds |
|---|---|---|
| `ALooper` (170 518) | `SerialHandlers`, `NeverUsedAfterFree`, `StopJoins`; refinement `Implements` of `MessageQueue`; `StopTerminates`, `EventuallyDelivered` | 2 clients, 2 looper threads in succession, 2 messages, clock 0..1 |
| `Roster` (1 210 892) | `DeliveredRight`, `RepliesArrive` | 2 clients, loopers, handlers, ids and messages |
| `Thread` (25 557) | `NoUseAfterDelete`, `OneWorker`, `WaitMeansStopped`; `ExitWaitReturns`, `DiesUnreferenced` | 2 clients, 2 threads in succession |
| `Library` (604 370) | vectors: `CountsAgree`, `ChangesAlone`, `StorageIsRight`, refinement `Implements` of `Vectors`; object: `ReferencesAreRight`; pool: `GroupIsRight`, `AcquiredIsAlone` | vectors: 2 threads, 2 plain and 1 sorted vector, 5 buffers, up to 3 items, two operations after each beginning; object: 3 threads, at most one held reference of each kind per thread, both lifetimes; pool: 3 threads, 2 pooled buffers, 1 private one |
| `Queues` (53 966) | dispatcher: `OnceInOrder`, `NoUseAfterFree`, `NotifiedIsHandled`; packet source: `BookkeepingMatches`, `ReaderReturns`; TS writer: `UnitsAreWritten`, `SourcesEnd` | queue limit 2, no round begun after 5 messages; 1 reader, queue of 3, times 0..1; 2 sources, 2 access units each, 1 start |
| `MPEG4Writer` (719 189) | `SamplesWhereTablesSay`, `TimesAreTrue`, `FileWellFormed`, `CallsReturn` | a video and an audio track of up to 6 and 3 frames, five settings: paused and resumed; a movie box that outgrows its space, and a size limit; a movie box at the end, and more video than the file takes; up to three calls of `start()`, each of which may fail at a track, with a pause in between, in real time and not |
| `Demux` (42 355) | `UnitsRead`, `SeeksLandOnSync`, `FeedsRead` | 28 small TS and PS files: each codec, cut in different ways, whole, damaged, or with a packet of it missing; 2 readers, 2 seeks, 3 seek times, modes previous and next |
| `Mp4` (181 116) | files: `SamplesInOrder`, `SeeksLand`, `FileIsRead`, `ReadingAdvances`; the rest: `StoresAreRight`, `FormatsAreRead` | 21 small files (8 sound, one that lacks its last chunk offset, 9 damaged, 3 that are read without end), 2 sources, 1 seek; strings: 3 narrow and 2 wide, 7 buffers, 5 texts, 2 operations; messages, meta data, cached reads and formats: two or three operations on a few names, values and byte strings each |
| `Roster_destruction` | violates `SweepDeletesNothing` | as `Roster` |
| `RefBase_underflow` | violates `NoUnderflow` | as the object of `Library`, with an object referred to both ways |
| `Thread_create_fails` | violates `NoUseAfterDelete` | as `Thread`, with failing creation |
| `Mp4_asserts` | violates `NoAssertionFails` | as `Mp4` |

Why the bounds are enough. Two of a kind is what interleaving needs: two clients race in `stop`, two
loopers exchange a handler, a second `LooperThread` meets what the first left behind, two messages can be
equal in time or overtake. `RefBase` needs three threads, because its worst case has a first
reference, a promotion and a release overlapping. Three threads and two buffers let one waiter meet two
releases. Two threads suffice for vectors, since a buffer is looked at by the thread that changes its
vector and by one that copies or destroys another; five buffers are one per vector and one more per
thread, so nobody waits for memory. The packet queue of three holds two runs of access units with a
discontinuity. Three messages beyond the queue limit fill the dispatcher's queue twice, and two access
units suffice to overwrite the first with the second. The texts have characters of one, two, three and
four bytes and at both ends of the surrogates. A chunk of the MP4 writer is one or several samples, both
tables of one element and of several occur, and the video has frames that are and are not sync samples;
the files of the demuxers have a key frame, a frame after it, and another key frame, which is what a
seek can tell apart, and every codec's framing.

Symmetry is used only in runs whose properties are all invariants or action properties, and only over
constants that appear alike. `CHECK_DEADLOCK FALSE` is set where the program may rightly stop: all messages
posted, the last reference gone, the node freed, the file played.

### Disciplines

Constants name the assumptions on callers under which a run holds; without them the code fails, and
section 6 says how.

* `SerialControl` (`ALooper`): an owner does not start a looper while an earlier `start(true)` runs,
  while a `stop` is under way, or after a handler stopped its own looper.
* `RawRunMayFail = FALSE` (`MercuryThread`): thread creation does not fail for an object nobody refers to.
* `LateAdd = FALSE`, `ClonePrivate = FALSE`, `Joined = TRUE` (`MediaBufferGroup`): buffers are added before
  the first acquisition, only pooled buffers are cloned, and no `release` is under way when the group is
  destroyed.
* `Beginnings` (`RefBase`): the creator makes its raw pointer into an `sp<>` or into a `wp<>`, not both.
* `MaxStarts = 1` (`MPEG2TSWriter`): a writer is started once. Its last reference is not dropped while
  the writer's looper is inside a handler (`Free` requires it).
* `VectorImpl`: a vector is used under its owner's lock; only the storage is shared without one.
* `Strings`: what is read as UTF-8 is well formed, as the callers' literals and own conversions are.
* `MPEG4Source`: a client gives its buffer back before it reads the next sample.

### Fairness

Weak fairness for the steps a scheduled thread takes on its own: the loop of a thread, the return of a
signalled or timed-out wait, the return of user code (handlers, `threadLoop`, reads). Nothing obliges a
program to call anything, and no fairness is given to spurious wakeups, so no property rests on one.
Strong fairness appears twice: for a woken waiter of `Thread` that must get a lock others keep taking
(mutexes do not starve a waiter for ever), and for a stream that is read again and again and must come
to its end (it is finite).

Three progress properties need no fairness, and are stated step by step. `CallsReturn` (`MPEG4Writer`): while a
call of the owner is pending some thread can take a step, and as no step undoes another and sources end,
steps lead to its return; it also says that a track is never given a second thread while it has one, and that
no track's thread is left when the writers are told to end. It names the one call that does not return, a
`stop()` whose signal an earlier writer took (section 6).
`FeedsRead` (`Demux`): each call of `feedMore()` for a reader takes the file further or ends its source, but on
two kinds of streams that are looked at for ever (section 6). A round that finds the same unit again is
recorded in the queue (`failed`), since it changes nothing else and would otherwise be a stuttering step.
`ReadingAdvances` (`Mp4`): each box that is read leaves less of the file, so that reading the meta data ends, but
at the two kinds of boxes that are read for ever; there `retried` records the round that began where the one
before it had.

## 4. Hazards and how they are covered

`PROJECT.json` lists the hazards at their lines, each with the properties that would show it. The themes:

* lost wakeups: `EventuallyDelivered`, `GroupIsRight`, `ReaderReturns`, `NotifiedIsHandled`, `CallsReturn`;
* calls in an order nobody tried (started or resumed after a start that failed): `CallsReturn`, `TimesAreTrue`;
* a thread meeting what another is tearing down: `NeverUsedAfterFree`, `NoUseAfterDelete`,
  `NoUseAfterFree`, `UnitsAreWritten` (sources read only while started), `ReferencesAreRight`;
* a join that does not join: `StopJoins`, `WaitMeansStopped`, `SerialHandlers`, `OneWorker`;
* identities gone stale: `DeliveredRight`, `RepliesArrive`;
* bookkeeping beside the data: `BookkeepingMatches`, `GroupIsRight`, `CountsAgree`, `StoresAreRight`,
  `SamplesWhereTablesSay`, `FileWellFormed`;
* one resource reused while in use: `UnitsAreWritten`, `AcquiredIsAlone`, `ChangesAlone`;
* cursors and cached positions: `SamplesInOrder`, `SeeksLand`, `SeeksLandOnSync`;
* what is cut into pieces and put together again: `UnitsRead`, `FeedsRead`;
* time that is stamped, shifted by pauses, and rounded: `TimesAreTrue`, `UnitsRead`;
* input that is not as it should be: `FileIsRead`, `ReadingAdvances`, `FormatsAreRead`, and the streams with missing
  packets of `UnitsRead` and `FeedsRead`.

## 5. What is proved

Eight modules hold proofs. All theorems are about the specification without fairness, for any value of the
constants that meets the named assumptions. Of the invariants and the refinements that
runs check, and of one that is only proved (`RunsAtLeastOnce`), these are proved:

| Property | Theorem | Assumes of the constants |
|---|---|---|
| `StopJoins` | `ALooperProofs!StopHasJoined` | types |
| `SerialHandlers` | `ALooperProofs!HandlersAreSerial` | `SerialControl` |
| `NeverUsedAfterFree`, which speaks of the looper's own threads and not of those lent to `start(true)` | `ALooperProofs!LooperOutlivesItsThreads` | `SerialControl` |
| `Implements` (of `MessageQueue` by `ALooper`) | `ALooperProofs!LooperKeepsItsPromise` | `SerialControl` |
| `DeliveredRight` | `ALooperRosterProofs!MessagesReachTheirHandler` | types |
| `RepliesArrive` | `ALooperRosterProofs!RepliesReachTheirCaller` | types |
| `OneWorker`, `WaitMeansStopped` | `MercuryThreadProofs!OneWorkerAlways`, `WaitersSeeItStopped` | types |
| `NoUseAfterDelete` | `MercuryThreadProofs!NothingUsedAfterDelete` | `~RawRunMayFail` |
| `RunsAtLeastOnce` | `MercuryThreadProofs!EveryThreadRuns` | types |
| `CountsAgree`, `ChangesAlone` | `LibraryProofs!BufferCounts`, `CopyOnWrite` | finitely many vectors and threads |
| `StorageIsRight` | `LibraryProofs!StorageStaysRight` | finitely many vectors and threads, keys are numbers |
| `Implements` (of `Vectors` by `VectorImpl`) | `LibraryProofs!VectorsKeepTheirPromise` | finitely many vectors and threads, keys are numbers, a vector is plain or sorted and not both, a sorted one is ordered at the start |
| `ReferencesAreRight` | `LibraryProofs!ObjectIsKept`, `RefBaseProofs!ReferencesStayRight` | `Sane` |
| `GroupIsRight`, `AcquiredIsAlone` | `LibraryProofs!PoolIsKept`, `AcquiredBufferIsAlone`, from `MediaBufferGroupProofs` | `Discipline` |
| `OnceInOrder`, `NoUseAfterFree` | `QueuesProofs!MessagesOnceInOrder`, `DispatcherOutlivesItsUsers` | types |
| `UnitsAreWritten` | `QueuesProofs!AccessUnitsAreWritten` | `StartedOnce` |
| `CallsReturn`, with its exception | `MPEG4WriterProofs!EveryCallReturns` | tracks are distinct, at least one |

"Types" are the module's own `ASSUME`, which TLC evaluates in the runs: numbers are numbers, and the sets of
actors and the null value do not overlap. The others are the disciplines of section 3. `Sane`: an object is
first referred to by an `sp<>` or by a `wp<>`, not both, and the bias exceeds the references there can be (2^28
in the code). `Discipline`: a group's buffers are distinct, are added before the first acquisition, are
not cloned without the group, and its users are joined before it is destroyed. `StartedOnce`: a TS writer is
started once. Without each of them the property fails, and section 6 says in which way. TLC evaluates `Sane`,
`Discipline` and `StartedOnce` too, as assumptions of `MCLibrary` and `MCQueues`.

None of these properties is inductive. What had to be added, by component:

* **ALooper**. `JoinInv` adds to `StopJoins` the types of the control variables, that `mRunning` is true exactly
  of the threads that were started and have not exited (`RunningIsLive`; `requestExitAndWait` tests
  `mRunning`, the property speaks of the thread itself), and that nobody joins a thread not yet born.
  `SerialHandlers` needs more: a thread about to enter a handler is as dangerous as one inside. `SerialInv`
  says that at most one thread is *active* (may yet run a handler), and, so that a new `start` keeps that
  true, that each thread that has not exited is accounted for: it is the current one, or it stopped itself, or
  a `stop` has still to join it. A freed looper must be out of everyone's hands: `SafeInv` extends
  `SerialInv` by where the references are. Whoever is inside a function of the looper holds one or is the
  looper's own thread (`KeptInStop`); the destructor entered `stop` on the last one (`LastStop`), and when it
  has freed the looper no thread is left (`Gone`). The refinement of `MessageQueue` adds `DeliveryInv`: the queue
  is ordered by due time, and by posting among equal times; what the looper's one thread has in hand
  precedes all that is queued; the queue of a freed looper is empty. Then a post is the abstract one at its
  place, a delivery takes what the abstract queue has first, and every other step is a stutter.
* **ALooperRoster**. `IInv` follows an id from the registration to the delivery: ids are given once, and an entry of
  the table is of the handler that got the id (`IdsGivenOnce`); while a looper's thread is in a handler, also
  while it is inside the roster on that handler's behalf, it is the handler its message was addressed to
  (`Handling`), and what a destructor at the end of a scope lets it go back to keeps that true (`GoesBack`).
  For replies, each request not yet answered is in one place, a queue or the hand of one looper
  (`RequestsOnce`), or has its one entry in `mReplies`, which is of the client that waits for it (`Replies`),
  and clients that wait have different numbers (`Callers`).
* **MercuryThread**. `Control`, types and the statement that a worker in user code is the one `mThread` names
  while `mRunning` holds. `Owned` gives every user of the object the reference it lives on: a waiter its own, a
  worker `mHoldSelf` and then its local one; the caller of `(new ThreadSubclass())->run()` has none and is
  covered by the worker, which cannot pass its first round without the lock that caller holds. `Reasons`
  follows a worker from its creation to its end and keeps with it why it may leave.
* **VectorImpl**. `IInv` is `TypeOK`, `CountsAgree`, `LocksHeld` (no operation overlaps one that changes what it
  uses) and `Phases` (what an operation found out about its buffer when it reached a phase is still true there,
  since only its holder could change it). Counts are cardinalities of sets of holders, so each step
  needs what adding or removing one element does to one. `StorageIsRight` needs `StoreInv`, of the lengths: a
  buffer has as many items as its vectors count, within its capacity (`Filled`, `Fits`); an operation that has
  begun has chosen a place within the items and a capacity that holds the outcome (`AtWork`), which for a
  sorted vector means that the binary search answers a place inside it; and a buffer whose count fell to
  nothing is in the hand of the thread that will free it (`Kept`). The refinement of `Vectors` adds `ValueInv`:
  what an operation in progress is about to write is something the abstract vector may become (`Allowed`), and
  the values of the sorted vectors are ordered by key. An edit takes effect in the one step that writes the
  buffer, and an assignment when it begins; that the buffer written is nobody else's (`ChangesAlone`) is why
  no other vector changes. Of the algorithms it needs that the insertion sort answers the items in order and
  equal keys as they stood
  (`InsertionSortArranged`), that the binary search finds a key that is there and otherwise the place between the
  smaller and the greater ones (`IndexOrderFinds`), and that an ordered sequence without repeated keys has as
  many places as items (`IncreasingCount`), which makes it the only one `Vectors` allows for that set.
* **RefBase**. `IInv` counts inside the member functions: a thread between two atomics holds what it has
  counted already and not yet given away (`TakenStrong`, `TakenWeak`), and with these the counts are exact
  at every instruction, up to the bias (`CountsAreTaken`). `Unbiased` says when the bias is gone, `Promoting`
  what `attemptIncStrong` knows of what it read, `FirstIsAlone`, `LastStrong` and `LastOfAll` that the first
  reference is made, the object deleted and the counts freed by a thread nobody races with; `ObjectIsKept`
  states the lifetime as an equivalence. Sums over the threads are cardinalities of sets of pairs, about
  which `RefBaseProofs` proves what one thread's change does.
* **MediaBufferGroup**. That an acquirer who found every buffer taken and waits is not forgotten depends on the
  walk it is still in: `PassedAreSignalled` says that the free buffers a walk has already passed are no more
  than the releases that are about to signal. `Places` says where the lock is, `PrivateOnce` and
  `UnusedUntilAdded` what the buffers outside the list may be, and `Stages` that nothing is acquired before the
  group has its buffers or after it went.
* **CallbackDispatcher**. `LifeInv`: the component has been joined before `mDone` is set, and the
  dispatcher's thread before it is freed. `OrderInv`: what was handled, what is in the batch and what is
  queued, put together, are the numbers of the messages posted, and a batch is handled to its end
  before the next is taken. The lemmas say what appending and taking the head do to the ids of a queue.
* **MPEG2TSWriter**. The exchange with a source is one token: a source is asked for something (a message in its
  queue or in hand, `Asking`) or has told something the writer has not handled (`Telling`), never both. What
  is asked finds everything delivered already written; what is told finds its unit still in the last buffer.
  `EndsAreCounted`: `mNumSourcesDone` is the number of sources that have ended. A source `start()` has not come to
  is `Untouched`, and a reset only takes away what is asked.
* **MPEG4Writer**. `IInv` relates the flags of the tracks to the threads that are there: `mStarted` holds of a
  track that was given a thread, and a track that was told to end still runs only while the call in progress
  joins it (`FlagsTell`, `Joined`). `WriterLives`: a writer is there before any track's thread, the writers are told
  to end when none of those is left, and until then none has left its loop; so there is always a writer to take
  a chunk, and the one `stop()` joins (`Newest`) can be parked after the signal only if an earlier writer is there
  to have taken it (`SignalLost`). The rest says how far each call has come (`Pausing`, `Starting`, `Unwinding`,
  `Stopping`, `Ended`): the tracks behind it are stopped or paused, the tracks before it still as they were. A
  `start()` that fails leaves a first part of the tracks done and the rest untouched (`DoneFirst`), and one that
  resumes can fail only before it resumed a track, because a done track among them comes first; that is what
  makes a second `start()`, after any sequence of pauses and failures, find no track with a thread to give one to.

`IInv` of `VectorImpl`, `RefBase`, `MediaBufferGroup` and `MPEG2TSWriter` is part of what the runs check;
those of the roster and of `MPEG4Writer` hold in every state of their runs as well.

Induction over the natural numbers is one lemma, `Induction`, about a *set* that has 0 and successors: it
follows from the well-foundedness of the finite sets, and it needs no operator as a parameter, which the
provers could not instantiate. With it `LibraryProofs` shows that the recursive functions of the model exist
(the insertion sort, the binary search) and what they return (a stable arrangement, the place of a key), and
`ALooperProofs` where a walk of the queue ends.

Only model-checked, and why:

* All liveness properties (`StopTerminates`, `EventuallyDelivered`, `ExitWaitReturns`, `DiesUnreferenced`,
  `NotifiedIsHandled`, `ReaderReturns`, `SourcesEnd`): they rest on fairness and `ENABLED`.
* `BookkeepingMatches`, `UnitsRead`, `SeeksLandOnSync`, `FeedsRead`: statements about folds over queues and streams.
* `SamplesWhereTablesSay`, `TimesAreTrue`, `FileWellFormed`: that tables written entry by entry unfold to the
  samples is an induction over the tables.
* `SamplesInOrder`, `SeeksLand`, `FileIsRead`, `ReadingAdvances`, `StoresAreRight`, `FormatsAreRead`: their modules
  read boxes inside boxes and parse bytes with `RECURSIVE` operators.

## 6. Findings

Four runs end in a violation of what the source says of itself:

* `Roster_destruction`: the sweep of stale handlers may itself destroy a looper under the roster's lock,
  which its comment says it avoids; the destructor then waits for a thread that may need that lock.
* `RefBase_underflow`: when a `wp<>` made from a raw pointer is promoted while the first `sp<>` is being
  made, the initial bias is subtracted twice and the strong count becomes negative.
* `Thread_create_fails`: a failed thread creation lets the object go while `run()` still holds its lock.
* `Mp4_asserts`: after a seek beyond the last fragment, `fragmentedRead()` takes the last sample of an empty
  vector, against what `Vector` asserts of its indices.

Further disagreements were met by giving the models the freedom the disciplines take away, or in reading,
and have no run of their own:

* `ALooper`: after `start(true)`, `stop()` does not wait for the borrowed thread, so the looper may be
  freed under it (`LocalLooped`, `LoopOnFreed`); the comment at the end of `ALooper::loop` protects
  only the `LooperThread`.
* `ALooperRoster`: an entry dropped because its looper is gone leaves the handler's id set, and the next
  registration of that handler fails the "registered once" check.
* `Thread`: `run()` resets `mExitPending`, so a request to exit is forgotten when the thread is run again
  before a waiter woke; `ExitWaitReturns` excepts this case by `RunAgain`.
* `MediaBufferGroup`: `add_buffer` signals nobody, so a buffer added late leaves a waiter waiting;
  `MediaBuffer::clone` of a buffer outside a group leaves a count that `release` demands to be 0, and aborts.
* `AnotherPacketSource`: the two-argument `queueDiscontinuity` (no caller in the repository) begins no new
  segment; `read()` never decrements the count of queued discontinuities, so that it only grows
  (`BookkeepingMatches` states what is left).
* `MPEG2TSWriter`, with `MaxStarts = 2`: `mEOSReceived` is never reset, so a source that ended before a
  `reset` fails the check in `setEOSReceived` after the next `start` (`EndsOnce`); a notification left over
  from before the `reset` asks for a second read, which overwrites a buffer that is being written
  (`FramesIntact`). Also: `SourceInfo::stop` joins the looper's thread before it stops the source, which
  is what would end a blocked read; and `INFO_FORMAT_CHANGED` ends the exchange of reads without a
  notification (`SourcesEnd` excepts it), although `MediaSource.h` lets the client go on reading.
* `MPEG4Writer::start()` looks at `mStarted` only (`libstagefright/MPEG4Writer.cpp:625`), which is false after a
  `start()` that failed at a track. Called again it runs in full: it makes a second writer and forgets the first
  (lines 1696 to 1718), begins another `mdat` box while the size of the first is never filled in, and restarts the
  tracks' counts in tables that keep their old entries, so that the file is not what the tables say
  (`SamplesWhereTablesSay`, `TimesAreTrue` and `FileWellFormed` except it). `stop()` sends one signal (line 764),
  and if the earlier writer takes it the join of the second never returns (`SignalLost` in `CallsReturn`); if
  the second takes it, the earlier one is left parked for ever. A video source that begins anew with its
  configuration fails `CHECK(!mGotAllCodecSpecificData)`. The files of such a writer are not claimed, only that
  its calls return but in that case; in real time its two writers also write without a lock (section 7).
* `MPEG4Writer`: `Track::stop()` puts `OK` in the place of the status its thread returned
  (`libstagefright/MPEG4Writer.cpp:1808`), so the movie box is written although a track was malformed, which
  the comment at line 872 says must not be. `start()` on a paused writer resets the start time of the movie
  (line 623).
* `ESQueue`: MPEG-4 video that does not begin with a visual object sequence is looked at for ever
  (`libstagefright/mpeg2ts/ESQueue.cpp:1020`), as happens when the packet with it is missing; an ADTS header that gives
  the length 0 makes an empty unit that consumes nothing, and the loops over access units (`ATSParser.cpp:1289`,
  `MPEG2PSExtractor.cpp:649`) never end. `FeedsRead` excepts these two, and the run has both.
* `ESQueue`, after a packet is missing: the part of a frame that lies in an earlier PES packet stays in the queue
  and is joined with what comes after the gap. For MPEG audio the bytes where the next header should be then fail
  `CHECK(GetMPEGAudioFrameSize(...))` (line 737) and the program aborts; AAC does not find its header and yields
  nothing more (line 454). `UnitsRead` claims the frames that are not cut between PES packets, that no
  other `CHECK` fails, and that all frames are whole where nothing is missing.
* `ESQueue`: a seek "to the sync frame" may land one frame early. A GOP header ends an MPEG video unit, whose flag
  it then sets (lines 911 to 946), and of H264 an IDR slice without anything before it ends the unit
  before it and sets that one's `foundIDR` (lines 604 to 606). `SeeksLandOnSync` names both (`Foretold`), and the run has both.
* `ATSParser::signalDiscontinuity`
  uses `mediaTimeUs` although what sets it is commented out (`ATSParser.cpp:1390`). Sixteen
  lost packets of a PID go unnoticed, because the continuity counter has four bits.
* `MPEG2PSExtractor` ignores what the last, partial chunk of the file holds.
* `MPEG4Extractor`: `readMetaData()` never returns where the header of a `sidx` box cannot be taken, because its size
  is below 8 or its 64-bit size cannot be read: `parseChunk` fails without advancing (lines 751 to 772) and is called
  again (496 to 503). Nor does it where a 64-bit size leads back to an earlier box. `ReadingAdvances` excepts
  both, and the run has them. The padding at the end of an edited track is not told (`EncoderPadding`, lines 983
  and 984, is commented out), and a duration of all ones counts as unknown only in version 0 of `mdhd`. Chunk
  offsets are read when they are used, so that a file which ends in them is opened and a read fails, leaving
  the offset 0 for the next (`FileIsRead` does not call it damaged; `SamplesInOrder` speaks of sound files).
* `SampleTable`: `buildSampleEntriesTable` adds composition offsets without their sign (lines 506 to 511) while
  `findSampleTime` takes it (`SampleIterator.cpp:317`), so that a sample to be shown before its time in the
  decoder is sorted behind all others and a seek to its time finds another (`SeeksLand` says which).
* `Strings`: `s.append(s)` may read the memory it has just given back when the storage moves, so it is not
  among the operations. `String8.h:191` says that `getPathExtension` of `"foo."` is empty; the code returns `"."`,
  which `FormatsAreRead` excepts.
  `strncpy16` keeps a 16-bit unit in a `char`.
* `AMessage::dup` follows the pointer of a message item whatever it is, so a message item that is NULL
  cannot be copied, and a message inside itself never is to its end (no caller does either).
* `TinyCacheSource` keeps its window without a lock, although `FileSource`, which it stands in front of, has one.
* `avc_utils`: the last NAL unit is dropped when it is one byte long (`offset + 2 < size`), which `FormatsAreRead` excepts.
* `Utils`: `convertMessageToMetaData` writes profile, level and length size of its own into the AVC configuration,
  whatever the original had, and makes an `ESDS` of Vorbis headers too.
* `avc_utils`: `FindAVCDimensions` reads the parameter set without removing emulation prevention, aborts on
  scaling matrices, and leaves the aspect ratio open for `aspect_ratio_idc` 14 to 16.
* `ESDS`: a valid descriptor with a long URL is refused, because an offset in the whole is compared with what
  remains of it. The size that is left is an unsigned number and is made smaller without a look at it (lines 138 to
  154), so that it wraps where a descriptor says less than its flags need, and bytes after the descriptor are
  read, also after the end of the buffer (`FormatsAreRead` excepts just these).
* `ABitReader::putBits` of more than 25 bits can underflow its count (no caller does it).

## 7. What is not modelled

Per component, with reasons, in `PROJECT.json`. Within modelled components: bytes of packets, frames and
boxes, clock jumps (timed waits of `Condition` use the wall clock), priorities and names of threads, the debug
builds of `RefBase`, the duration estimate of `AnotherPacketSource` beyond the segments it sums, `pause`
of the TS writer (it does nothing), and `addSource`, which is the choice of the number of sources.

* `RefBase`: `forceIncStrong` and `attemptIncWeak`, which nothing calls.
* `VectorImpl`: `merge()` of sorted vectors, which only a demonstration calls; `List`. `malloc` does not fail.
* `Strings`: formatted appending, `find`.
* `Utils`: `csd` buffers of less than 4 bytes or more than 1024, and AVC configuration records that are cut off.
* `MetaData`: `setData` with its type in the key, as all callers have it.
* `MPEG4Writer`: what two writers of a restarted recorder do to each other within a step (in real time they write
  without a lock, and `start()` moves `mOffset` without it: data races; a chunk is written in one step, and
  what such a file holds is not claimed); a file with one track, whose samples the track's own thread writes; the limit on
  duration and drift times, which read the clock; the AVC configuration record.
* The demuxers: a seek of the transport stream is one step while no other track is read, although the code
  holds no lock over it (readers and a seek that overlap are left to the client); the program clock; the
  modes of `ESQueue` nothing creates.
* `MPEG4Extractor`: `parseDrmSINF` (nothing sets what it needs), hint and text formats.

## 8. Plan

1. Proofs: the tables of the MP4 writer as lemmas about one `Add`.
2. `MPEG4Writer` with one track, and with an owner that stops while the limit on duration is reached.
3. Overlapping seek and read in `MPEG2TSExtractor`, step by step.
