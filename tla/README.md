# libcx3 in TLA+

A verification project for [libcx3](../src/readme.md), an alternative C++17
standard library. It models the parts of the library that keep state and that
unit tests reach badly, checks them with TLC on small instances, and proves the
most important properties for every instance with TLAPS.

Paths such as `thread.cpp:78` are relative to `src/src/lib/`.

## 1. Inventory

| component | source | state | operations | hard behaviour | what makes it correct |
|---|---|---|---|---|---|
| synchronisation | `thread.cpp:18-227` | one word per `sem_t`/`mutex_t`: zero or the OS object | `signal`, `wait`, `acquire`, `release`, destruction, moves | the OS object is created by whoever comes first; losers of the race clean up | one object for everybody, none leaked or used after its destruction; it is a semaphore / a mutex |
| queue | `queue.cpp` | semaphore, two mutexes, ring buffer, two indices | `send`, `recv` | senders and receivers hold different mutexes; each reads the other's index unlocked; the ring grows in the middle while receivers wait | linearisable FIFO; the assertions hold; nobody waits for ever for a message that was sent |
| bag | `bag.hpp` | array of cells, null ones free | `insert`, `remove`, iteration | removal by the loop that iterates | a multiset; each loop sees each element once; the array does not grow without end |
| thread registry | `thread.cpp:229-337` | bag of thread handles, its mutex | `spawn_thread`, `wait_for_threads`, end of a thread | a thread runs before it is recorded; joins happen while the mutex is held; handles are reused | every thread that exists is tracked once; nothing is left after the wait; the wait returns |
| sequences, ownership | `prelude.hpp`, `box.hpp` | pointer and length; owner of an object | `grow`, `shrink`, moves | destruction, self-move, index arithmetic | one owner per object |
| test runner | `debug.cpp:158-286`, `debug.hpp:79-109` | per test: `ran`, `passed` | `install_test`, `run`, `run_tests` | recursive dependencies, loops, failures | each test at most once, after its dependencies; the summary tells the truth |
| time | `time.cpp` | none: pairs of days and picoseconds | `+`, `-`, `divide`, conversions from and to the OS's times | products of 64-bit words, rounding, clamping, epochs | lengths are exact or the largest word; what comes from the OS goes back to it; a timer never gets zero |
| pipe | `pipe.cpp` | two kernel buffers | `send`, `recv`, close | non-blocking, partial writes, full against closed | bytes arrive in order, errors mean what they say |
| file | `file.cpp` | descriptor of a `file_t`; its cursor and the file's content in the kernel; a path's components | open, move, destroy, `read`, `write`, `set_cursor`; texts of paths, join, directory, extension | calls that pass on a part or fail, a file that grows while it is read, descriptors that are given again; roots, empty names, backslashes | one owner per descriptor; what is read is the file's piece; what is written is there once; a path and its text are the same |
| lzma | `lzma.cpp` | window, repeat distances, decoder state, bytes to unpack; the range decoder's two words and its probabilities | packets: literal, short repetition, repetition, match, end marker; bits and bit trees | references at the edge of the window, copies that read what they write, normalisation, cells of probability arrays | no cell is read before it is written; the data is what the packets say; every code has one meaning; decoding ends |
| error, text, raw, program, platform, library, log, raster | the files of these names | little or none | OS queries, conversions, output | none that a state machine shows | not modelled, see section 7 |

How they interact: `queue_t` contains a `sem_t` and two `mutex_t`; the registry
keeps its handles in a `bag_t` under a `mutex_t`; `begin_main` runs the unit
tests (which start threads) and `end_main` waits for all threads. The only
shared memory is what these structures hold; there are no callbacks other than
the entry functions of threads and tests.

Observations made while reading, of which no run says that it is violated:

- `thread_entry` never frees its context (`thread.cpp:245`); an error that is
  already set makes `spawn_thread` return at once; the move constructor of
  `mutex_lock_t` asserts, so `return lock` relies on copy elision
  (`thread.cpp:216-226`); `queue_t::operator bool` is declared and never
  defined; `seq_t::operator[]` accepts an index equal to the length.
- `pipe.cpp:179` says that a connection was closed, of a pipe that is open and
  full: a closed one gives `EPIPE`, not `EAGAIN`.
- `as_timespec` rounds the seconds and then keeps the nanoseconds, so that a
  time is a second late when more than half a second was over, and nanoseconds
  may be 10^9, which the OS refuses (`time.cpp:183-193`); a metronome of 0.6 s
  gets 1.6 s. `StampsKept` says exactly when.
- `as_text(date)` has no text for a date with a fraction of a second and says
  "Out of Unix time integer range" (`time.cpp:287-292`).
- `time.hpp:68` declares `create_metronome`, `time.cpp:350` defines
  `metronome_create`; `time.cpp:397` tests `|| max<LONG>()`, so that a Windows
  metronome can not be set.
- In the Windows build `read` and `write` take the length they asked for as the
  length they got (`file.cpp:348, 393`). `write` asserts that something was
  written before it handles that nothing was (`file.cpp:398-399`). A read that
  fails loses what it has read, but the cursor has moved. `read_last_mod` and
  `write_last_mod` do not look at an error that is set (`file.cpp:425, 446`).
- `set_ext` of the root makes a relative name; an extension with a dot in it is
  set whole, and `get_ext` then gives the part behind its last dot; a name with a
  backslash is one name or two, depending on what stands beside it
  (`PathRoundTrips`).
- `lit_probs` may be misaligned when `dict_sz` is odd (`lzma.cpp:512`).
- `load_png` does not close its file when it succeeds (`raster.cpp`).

## 2. Plan

1. *(done)* `Lock`, `Sem`: what the synchronisation primitives promise;
   `LazyHandle`, `LazyMutex`, `LazySem`: how they are made; `Queue` on top of
   `Lock` and `Sem`, its promise `Fifo`, its client `QueueTest`; `Bag`,
   `BagUse`; `Registry` on top of `Lock` and `Bag`; `TestRunner`; `Pipe`. Proofs
   of the queue's safety and of its refinement of `Fifo`, of the lazy mutex and
   semaphore, and of the runner's safety.
2. *(done)* `Time` with narrow words, `Path`, `File` over partial I/O.
3. *(done)* `Lzma` on top of `LzmaCodes` and `RangeDec`, with proofs of the
   window, the data, the state and the range decoder.
4. *(done)* Proofs of the registry's tracking and joining and of the file's
   descriptors, reads and writes.
5. *(done)* Proofs of what the pipe delivers and of its descriptors, of the bag
   and its loops, of the arithmetic of intervals and stamps, and that the queue
   test leaves nothing behind and never gets stuck.
6. *(done)* For the calls that must return, measures that each of their steps
   lessens: they are action properties, and so within the prover's reach, where
   liveness is not. Proofs that the registry stops only where it is said to, of
   the codes of lengths, distances and literals, and of the operations on paths.

## 3. The modules

| module | models | state | actions |
|---|---|---|---|
| `Lock`, `Sem` | the promises of `mutex_t`, `sem_t` (`thread.hpp:5-44`) | holders; a count | acquire/release; signal/wait |
| `LazyHandle` | the lazily created OS object (`thread.cpp:71-120, 163-213`) | `opaq` (the field), `live` (objects not destroyed), `mine[t]` (the local `box_t` or `cleanup`), `pc` | the unlocked test, creation, compare-and-swap, the loser's clean-up, the destructor |
| `LazyMutex` | `acquire`, `release` | and each object's owner | and lock, unlock on the field's object |
| `LazySem` | `signal`, `wait` | and each object's counter | and write, read on the field's object |
| `Queue` | `queue_t` (`queue.cpp:5-40`) | the fields by their names; `pc`, `msg`, `next`: a thread's position and locals | one per access to shared state, in the order of the code |
| `Fifo` | the promise of `queue_t` | a sequence; the call each thread is in | begin, take effect, return |
| `QueueTest` | the unit test's threads (`queue.cpp:44-74`) | and the calls each has made | a thread's next call, or a step of its call |
| `Bag`, `BagUse` | `bag_t` (`bag.hpp`) | its cells; an iterator | insert, remove within a loop, `begin`, `++`, `end` |
| `Registry` | threads and their bag (`thread.cpp:229-337`) | `threads`, `mutex`; `pc`, `at` (iterator), `made` (handle not yet installed) | the parts of `spawn_thread` and of `wait_for_threads`, the end of a thread |
| `TestRunner` | the runner of the unit tests (`debug.cpp:158-286`) | `deps`, `ran`, `passed` of each test; `next` (the loop of `run_tests`), `stack` (the frames of `run`, whose tests are the names in `srcs`), `returned` (the `run` that has just returned), `outcome` | calling `run` for a test or for a dependency, the two ways its caller goes on, calling the test function, the closing line |
| `Pipe` | `pipe_t` and `pipe_create` (`pipe.cpp`, Unix) | `hIn`, `hOut`, `err` of each end; `len`, `i`: the message in `send` and its index; the kernel's `file` and `contents` | the two `pipe()` calls and their failures, the destructor; the begin of `send`, one `write()` each by its result, its end; `recv` |
| `Time` | intervals, dates, conversions (`time.cpp`) | none: operators | none |
| `Path` | `path_t` (`file.cpp:25-256`) | none: operators on sequences of names | none |
| `File` | `file_t` (`file.cpp:267-423`, Unix) | `opaq` of each object, `err`; the kernel's `content` and `desc` (use and cursor of each descriptor); a call's `obj`, `want`, `text`, `i` | `open_file` and its failures, moves, the destructor, `set_cursor`; the begin of `read` and `write`, one call of the OS each by its result, their ends; another process that appends; other descriptors |
| `LzmaCodes` | bit trees, codes of lengths and distances, cells of the probability arrays (`lzma.cpp:169-280, 338-389`) | none: operators | none |
| `RangeDec` | the range decoder (`lzma.cpp:72-167`) | none: a decoder is a record, an operator takes one bit | none |
| `Lzma` | the decoder (`lzma.cpp:16-70, 308-336, 391-515`) | `ownd`, `rep`, `state`, `unpack_sz`, `len` by their names, `copied`; the packets so far (`from`, `last`) | `init`, one per kind of packet, one round of a copy, the ways out of the loop |

Conventions. A thread's program counter names the next thing it will do. An
unlock is merged into the last access its mutex protects: everything another
thread could do between the two commutes with the unlock. A plain load or store
of an aligned word is atomic on the program's targets, so that a racy read
sees the old or the new value; `CheckRoom`, `AssertsHold` and `Load` are the
places where that matters. A moved-from string is empty, so `NoMessage` is both
a free cell and a moved-from local. Definitions introduced by "Mutant:" are
wrong on purpose and used by no specification; they show that the properties
would notice the bug they name.

`MC*.tla` only add symmetry sets and, for the test runner, the lists of
dependencies. No temporal property other than safety
is checked under symmetry.

Composition: `Queue` uses two instances of `Lock` and one of `Sem`; `Registry`
uses `Lock` and `Bag`; `LazyMutex` is shown to implement `Lock`, `LazySem` to
implement `Sem`, and `Queue` to implement `Fifo`. `File` extends `Path` and
`Time`, `Lzma` extends `LzmaCodes` and `RangeDec`: facts of their operators are
invariants of the composed module that speak of its first state, so that TLC
looks at them once.

## 4. What the runs check

| run | instance | shows |
|---|---|---|
| `lazy_mutex` | 3 threads, 4 objects | whatever threads meet in the first `acquire`: no object leaks, has two owners or is used after its end; `release` unlocks its caller's object; it is a `Lock` |
| `lazy_sem` | 3 threads (one does both), 3 objects, counter limit 2 | no token is lost in the race of initialisation; it is a `Sem` |
| `queue` | 4 threads (a sender, a receiver, two of both), first growth 2, at most 5 messages under way | exact counting of tokens, `recv_waited`'s assertions, the room of an unlocked check, which cells are full, and that it is a `Fifo`, while the ring grows several times |
| `queue_test` | 3 threads, 1 message ahead, 1 round | the unit test ends under every schedule and leaves nothing in the queue |
| `bag` | 2 elements, at most 4 in the bag | the bag is a multiset, loops see each element once though it removes, freed cells are used again |
| `registry` | the main thread and two workers start threads, 3 handles, either answer of `pthread_kill` | every thread is tracked once; ended threads that `pthread_kill` tells of are joined before another is created; the wait leaves no thread; it returns unless it joins a thread that needs its mutex |
| `test_runner` | 4 tests, each with no dependency, one (maybe unknown) or two different ones; any result of each | each test is called once at most and after its dependencies passed; the names fit their buffer; only real loops are reported; at the end only tests that depend on a failed one have not run; the runner always ends |
| `test_runner_report` | the same | **violated:** "developer unit tests passed" is printed after failures |
| `test_runner_passed` | the same | **violated:** a test is said to have passed though a `prove_same` in it failed |
| `pipe` | up to 3 bytes each way, pipes of 2, atomic writes and reads of 1; 5 descriptors, of which another file may take one | what was passed on arrives once and in order whatever the pieces; nothing is missing unless an error said so; no descriptor leaks or is closed for somebody else; `send` returns though nobody reads |
| `lzma` | any packets in a window of 3, destinations up to 8; lengths of 2 to 4, distances 1 to 5 and the end marker; range decoder with bytes of 4 values, words of 64 | the window is the end of the data; the data is what the packets say; the state is that of the history; decoding ends; the range decoder keeps its interval; codes are unambiguous and cells are in their arrays |
| `file` | two objects, two descriptors, of which another may take one; a file of up to 3 bytes, calls that give or take any part, a first buffer of 1; texts of up to 5 characters, extensions and names that are joined of up to 3; words of 7 bits | no descriptor leaks or is closed for somebody else; reads give the file's piece, writes land once; calls return; intervals, stamps and paths survive their conversions |

*Why the bounds are enough.* Three threads are the fewest in which one thread
wins the race of initialisation, one loses, and a third already works with the
object. In a queue, four threads allow two in each of the two critical sections'
queues at once, and a sender between unlock and signal while its message is
received through another's token. With `MinGrow = 2` and five messages the ring
fills, wraps and grows from 0 to 2, 4 and 8 cells with the free cell at any
place. `MinGrow` is 4 in the code and a parameter here; the proofs need only
that it is at least 2. `MaxInFlight` only limits how many sends begin.
`MaxCount` stands for the limit of an eventfd, 2^64 - 2, so that a signal that
blocks is reached. Four bag elements make the array double three times. With
three handles, two workers and the main thread can be in `spawn_thread` at the
same time, and handles are used again after a join. Four
tests are the fewest for a test that is reached on two ways of the same length;
they also allow a loop that is entered from outside and a test whose first
dependency passes and second does not.

A message of 3 bytes does not fit a pipe of 2 and is more than the one that is
written whole or not at all, so that it goes in one to three parts and may be
cut; a message of one byte may follow a cut one. The fifth descriptor lets those
of an end that was closed come back as another file's.

A window of 3 is wrapped twice and more by 8 bytes, and the distances 1 to 5 lie
on both sides of its size and of what has been written; a copy of 4 reads what
it has written itself. In the program the window has at least 4096 bytes and
lengths go to 273: the proofs hold for every size. TLC's integers have 32 bits,
so the words are narrow. For the range decoder this is a matter of its four
constants, which the proof leaves open; of distances `SlotBits` = 4 keeps all
three ways of reading the low bits, and the arrays have their real sizes. An
interval has 128 days of 32 parts: every day count overflows in some unit, and
all intervals, stamps and words are tried; pairs of intervals are taken from
both ends and the middle of the range. Texts of five characters over slash,
backslash, dot and a letter have two names with extensions and separators at
every place; an extension of three can have a dot at its begin, end and middle. In a file of three bytes a read of all doubles its buffer of one
twice, another process's byte comes before, between and after its calls, and a
write is cut in up to three parts; bytes that are written are numbered, so that
one at the wrong place shows.

*The two violations.* `test_failure` (`debug.cpp:27`) decides whether the
closing line is printed (`debug.cpp:274`), and nothing assigns it: the line
appears whatever failed. `prove_same` (`debug.hpp:106-109`) calls `fail_proof`
without the `return` that all other `prove_` macros have, so its failure is
dropped. The unit test `time` depends on it: `time.cpp:463` expects an empty
text where `time.cpp:292` returns one of dashes, and the test passes.

*Deadlock* is checked in the runs `lazy_mutex`, `lazy_sem`, `queue`,
`queue_test` and `bag`. The test runner is done at some time (`RunEnds` shows
that it stops nowhere else), and so is the decoder (`DecEnds`); the users of the
pipe and of the file stop when they have done what the bounds allow. In
`registry` the program really can stop: the main thread holds `threads_mutex`
while it joins a thread that waits for the mutex in `spawn_thread`.
`WaitReturnsOrWedges` says that this is the only way for the joins not to end;
where only the main thread starts threads it can not happen, and the wait
returns. The library says nothing of threads that start threads, so no document
is contradicted.

*Fairness.* `QueueTest` and `Registry` assume weak fairness of each thread's
steps: the OS runs every runnable thread, and what stays available is granted.
A pthread mutex and an eventfd promise no more: they may be granted to others
again and again, so no property says that a given thread gets its turn in an
endless use. In the unit test calls are finite in number and weak fairness is
enough. In `Registry` an entry function that is not inside the library returns.
The runner is one thread, and test functions are assumed to return. In `Pipe` a
thread inside `send` runs on; no `write()` blocks. In `File` a thread inside
`read` or `write` runs on, and calls of the OS return; that one fails some day
is not assumed. The decoder of `Lzma` is a loop that nothing interrupts.
`Queue`, `LazyMutex`, `LazySem` and `BagUse` state safety and assume nothing.

## 5. What is proved

For any set of threads, any messages, objects and counter limit, any growth
of at least two cells, any tests, any window, destination and stream, a range
decoder of any widths, any threads that start others, and any file, descriptors
and pieces of calls, names and paths of any length. The assumptions are the named `ASSUME`s of the modules:
senders and receivers are threads, the threads are finitely many, special
values differ from ordinary ones, the bounds are natural numbers, units of time
divide each other and a day fits a word twice. Three theorems about the queue's
test have the hypothesis that every thread may send and receive, as in the test;
one about the registry that only the main thread starts threads.

*Calls that return.* That something happens at last rests on fairness, and the
prover has no rules for that. What the code adds is that no call goes round
for ever, and this is proved, as an action property, for every call that a run
checks to return: it has a measure that each of its own steps lessens, and what
others do can not raise it, but where the table says so. That fairness makes the
steps happen, so that the call returns, is TLC's part.

| theorem | measure | what might have raised it |
|---|---|---|
| `QueueProofs.ProgressCorrect` | for each thread, eight for each call of the test that it has not begun and the steps to the end of the one it is in (`Rest`) | other threads: their steps leave it alone, though they may make the ring grow |
| `TestRunnerProofs.ProgressCorrect` | one number for each depth of the stack, compared as in a dictionary, in which a depth without a frame counts for more than any (`Due`) | tests that call tests: the stack is never deeper than there are tests, as its tests differ |
| `LzmaProofs.ProgressCorrect` | the bytes still to be unpacked, those of the copy under way, and the way out (`Left`) | a stream that goes on for ever: it is held to the size that was announced |
| `PipeProofs.SendAdvancesAlways` | the bytes of the message still to be passed on, and the end (`RoundsLeft`) | the peer, and the creation of other pipes: they do not |
| `FileProofs.CallAdvancesAlways` | the bytes still wanted, and the end; for a read of all the bytes behind the cursor, and the round that finds nothing (`RoundsLeft`) | another process that appends while a file is read to its end can keep that read going; nothing else |
| `RegistryProofs.LoopsAdvance` | the cells from the iterator to the end of the bag | threads that end and those that wait to be recorded: nobody else changes the bag, and it does not grow |

`QueueProofs`: `TypeOK`, `TokensMatch`, `AssertsHold`, `RoomAhead`,
`CellsMatch`. The inductive invariant is

    IInv == TypeOK /\ Locks /\ TokensMatch /\ RoomAhead

`Locks` derives who holds each mutex from the program counters. `TokensMatch`
is not inductive alone: a sender's advance adds one message only if the new
`write_at` is not `read_at`, which is `RoomAhead`; and `RoomAhead` survives a
receiver's advance only because the receiver's token stands for a message, so
that `read_at` is not `write_at` and its successor is not the sender's `next`.
Neither follows from mutual exclusion, as senders and receivers hold different
mutexes. `AssertsHold` and the bounds of the indices follow. `CellsMatch` is
inductive relative to `IInv` and to the fact that a sender carries a message.

And `Spec => FifoSpec`. The refinement maps the cells from
`read_at` on, without the one a receiver has just emptied, to the sequence of
`Fifo`. A send takes effect when `write_at` moves, a receive when its cell is
emptied. Lemmas on slices of a ring (a longer slice appends, the slice from the
next cell is the tail) give the two steps that change the sequence; one lemma
each shows that filling a cell, moving `read_at` and growing leave it alone.

`NothingLeft` and `NotStuck` speak of the queue under its test's threads, for any
number of them and of rounds. Both come from one more invariant (`TestInv`): the
tokens are the sends that have signalled less the receives that got one
(`Balanced`), each counted as a set of pairs of a thread and the number of its
call (`Signalled`, `Awaited`), so that no sum over threads is needed. When all
have finished the one set is the mirror image of the other (`AsManyReceived`).
`NotStuck` is the absence of deadlock: while a thread has not finished, some
thread is neither behind a mutex that is held nor at a semaphore without tokens.
Holders of a mutex can go on; and if all others waited for messages, each
receive has a send of the same thread before it (`SentBefore`), so there would be
a token more than receives that got one.

`LazyProofs`, in three parts. Objects are accounted for and the published object
is stable, once for both kinds of handle. With it, whoever holds the lock owns
the published object; hence `NoStrayObjects`, `HandleReady`, `UnlocksOwnMutex`,
`StablePublication` and the refinement of `Lock`. An object that is not yet
published has no tokens; hence `TokensConserved` and the refinement of `Sem`.

`TestRunnerProofs`, for any number of tests with any lists of dependencies:
`TypeOK`, `OnceInOrder`, `BufferFits`, `LoopIsReal`, `SkippedForCause`. The
invariant says of the stack that each frame awaits the test of the next
(`Linked`), that its tests differ and have not run (`StackDiffers`), and that
what lies behind a frame's place in its list has passed (`Ordered`). Distinct
tests bound the stack by counting; a test met again closes a chain of frames,
which is the loop. `SkippedForCause` speaks of chains of any length and is
carried without induction: the frame that returns skipped hands the fact that
its dependencies lead to a failed test to its caller (`Caused`, `Accounted`).

`LzmaProofs`: `WindowIsHistory`, `Expansion`, `StateMeansHistory`. The invariant
has the type, the place in the window (`buf_i` is what was written modulo the
window's size), the two parts of the properties and what a copy under way has
still to do. The step that matters is the same for literals and copies: `Put`
moves all distances by one (`PutShifts`), so that the window stays the end of
the data. Within a copy the data is ahead of the packets that were counted.
`StateMeansHistory` follows from a table of the states (`StateOf`).

The range decoder (`RangeDecSound`) is proved in the same module, for all widths
with `(MoveDiv - 1) * ByteVals >= ProbOne`, which the program's 31 * 256 >= 2048
satisfy: it is what makes one byte enough to widen an interval again. With lemmas
on products and quotients, as the solver knows little of them.

And `StreamIsClear`: each length and each distance has one code, the trees of
low bits of distances do not meet and lie in their array; the state of a literal
tells the bits of `total_i` and `prev_byte` that it is made of (`TellsBoth`),
and the cells of literals and of literals after a match lie in theirs; for slots
of 4 to 6 bits, the program's among them; the lemmas on literals hold for any
place in the data and any byte that is matched (`LiteralsFit`, `MatchedFits`).
Reading a bit tree is a fold over its bits, and facts of it for all numbers of
bits need induction, which the library states for operators only. Here it is
stated for sets: a set that has 0 and with each number below n the next one has
all up to n (`Upwards`), because there would be a least that is missing. It
gives that the fold's function exists (`FoldExists`), and that the codes of n
bits, read from either end, map one to one onto the numbers below 2^n. A length
or distance has one code because the values of each kind of code are counted so
and those of different kinds do not meet (`CountOfValues`).

`RegistryProofs`, first of the bag under any operations: `IsMultiset`,
`VisitsEach`, `StaysSmall`; a loop over the bag may remove as it goes, and as in
`thread.cpp` nothing is inserted while it runs. The searches find a first cell
because a set of natural numbers has a least element (`LeastNat`), so nothing
has to be proved by induction on cells; `insert` changes one free cell and
`remove` frees one. How often an element is in the bag is the number of its
cells, a finite set (`CellsOf`) that such a change makes larger or smaller by
one (`Counted`). What an iteration has still to visit is what the cells from its
place on hold (`Ahead`). `StaysSmall` holds because the array only grows when no
cell is free, when it is as long as the bag has elements.

Then of the registry: `HandlesMatch`, `WaitLeavesNone`, `ReadyJoined`. The
invariant says that the holder of the
mutex is the thread in a loop over the bag (`Locked`), that cells behind the
iterator hold nothing for the wait, and no thread that had ended for the scan
(`Behind`), and that threads do not make each other in a circle (`Rooted`).
`WaitLeavesNone` needs the last: when the wait finds the bag empty a thread could
still be unrecorded only if its creator is unrecorded too, and so on in a circle,
or back to the main thread, which is in the wait.

Of `WaitReturnsOrWedges` the theorem `NeverStuck` proves a part that is safety:
whenever threads are inside the library and every one of them waits, either the
main thread joins one that waits for the mutex to start another (`Wedged`), or a
join waits for an entry function that has not returned. `MainAloneNeverWedges`
adds that the first can not be where only the main thread starts threads. Both
need who can be where: only those that may start threads are ever in
`spawn_thread`, and only the main thread in the wait (`Roles`).

`PipeProofs`: `FdsOwned`, `Delivered`. The invariant is
`PipeInv == FdInv /\ Sending /\ Flowing`. `FdInv` says which side of which of the kernel's pipes each
descriptor is, during the creation (`Creating`), in an end (`EndsOpen`) and nowhere
else (`NoOthers`); `FdsOwned` alone does not say which pipe a descriptor that
comes back belongs to. `Sending` says where a sender is in its message.
`Flowing` says of each direction whose receiver is open that the bytes received,
followed by those that wait, ascend and are the ones passed on. As bytes are
numbered by their place in all that was sent, each once and in order means that
they ascend, and `Delivered` is stated so: a filter of a sequence is recursive,
and its results could not be proved.

`TimeProofs`: `InterExact`, `StampsKept`, for any word and units that satisfy
`TimeAssumption`. Everything is reduced to `Length`, the number of picoseconds of
an interval: it determines the interval, sums and differences are those of the
lengths modulo the largest, and a number of units is the rounded quotient, or the
largest word. `StampsKept` needs more than one nanosecond in a second, which
the assumption says: with one, all periods of a timer would end in nanoseconds
that are too many. The products of variables are kept apart from the rest of the
arithmetic, as the solver knows little of them.

`FileProofs`: `FilesOwned`, `ReadSees`, `WritesLand`. A descriptor belongs to the
file if and only if an object has it (`Owned`), kept by each way an object can
change. Of a call under way the cursor is where it began plus the index, and the
bytes up to the index are those of the file (`CallInv`); a read of all is never
full unless the end was met (`ReadInv`), a write leaves the others alone
(`WriteInv`). A piece of any size keeps this (`ReadBuffer`, `WrittenOn`).
`IntervalsExact` and `StampsSurvive` of the run are the theorems of `TimeProofs`.

`PathOperations` proves, of paths of one or more names of any length, what
`PathRoundTrips` says of join, directory and extension: taking the directory
undoes joining; an extension without a dot that is set is there, and removing it
again leaves what removing the one before would have left; removing takes the
last extension and its dot off the name and nothing else, or the whole name if
it was no more than that. It rests on where the last dot of a name is (`DotIs`,
`ExtBehindDot`) and on that a name is what is before a dot, the dot and what is
behind it (`CutAtDot`). An extension with a dot is left to the run.

The type invariants of the queue, the lazy mutex and semaphore, the runner and
the decoder are proved as parts of the inductive invariants, as are `HandleReady`
and `StablePublication` of the lazy handles; no run repeats them.

Only model-checked. Liveness itself (`TestEnds`, `WaitReturnsOrWedges`, `RunEnds`,
`SendReturns`, `CallReturns`, `DecEnds`) is out of the prover's reach; what of it
is safety is proved, as said above. Of the invariants one is left, `PathsSurvive`,
and of it the parts that read a text back: `CreatePath` filters the parts of a
text with `SelectSeq`, which the prover knows by name only and can not expand,
after sorting the places of the separators, and `AsText` flattens a sequence with
a recursive operator.

## 6. Limits of the models

- The Windows build is modelled where it differs only in the OS calls used
  (`ProbeSees = {TRUE}` in the registry); its event and mutex handles are not.
- Failures of `pthread_mutex_init` and `eventfd` are asserted by the code and
  not modelled.
- Which of two equal objects an allocator hands out again is arbitrary
  (`Create`), so reuse of addresses and descriptors is covered.
- `spawn_thread` with an error already set does nothing and is no action;
  `pthread_create` may fail (`CreateFails`).
- Empty messages travel like others but could not be told from free cells, so
  `Messages` excludes the empty string.
- An entry function either is inside the library or is not; what else it does
  is not modelled.
- The names of tests are distinct (they are names of functions), so a name is
  its test. A test function is a choice of how its proofs come out. Failed
  allocations in `install_test` and `run_tests` end the program and are left
  out, and so is the wording of messages.
- One pair of pipes exists at a time and each end has one user at a time. A
  write of more than `PIPE_BUF` bytes passes on at least one if there is room,
  which POSIX promises. Where `SIGPIPE` ends the program nothing follows, which
  every behaviour of the model allows. An empty result of `recv` changes
  nothing and is no action; it does not tell an empty pipe from a closed one.
- In `Lzma` the bits are any bits: which packets follow, and what the range
  decoder finds at the end, is not derived from the input. `create_str` gives a
  buffer of zeros, and `check_dist` lets the first match reach one byte before
  the data, which is such a zero (`At`). The properties of the stream that
  `lzma_dec` refuses are one choice of `Begin`.
- In `File` there are one file and one thread; another process only appends. A
  `read()` returns 0 only at the end; a `write()` that returns 0 fails an
  assertion in debug builds and is an error in others, which is modelled.
  `read` and `write` of a `file_t` that is not open are not modelled.

## 7. Not modelled

- Error: `err_t` on its own is a message or nothing; its use is modelled where
  callers are (`File`, `Pipe`).
- Text: UTF-16 is delegated to the OS, the rest is a large set of pure functions
  on characters, without state.
- Raster: floating-point arithmetic on pixels, and calls of libpng.
- Raw memory: wrappers of `calloc`, `free` and `memmove`.
- Log, program and platform queries, loading of libraries: calls of the OS
  whose results are handed on.
- Of time: the clocks, `strftime` and the timer of a metronome are the OS's; a
  `metronome_t` is owned like a `file_t`.
- Of file: the working directory and temporary names, which are calls of the OS.
- Of the handles: moves other than those of `file_t`, whose form is the same;
  `box_t` and moves of `seq_t` are one pointer.
- The Windows variants of pipe and file, and its event and mutex handles.
