# A TLA+ verification of the client

The repository is a client for an online game (an OpenKore fork).  Most of it
is Perl: one process with one thread runs a main loop, and each pass reads the
network, feeds the messages to handlers, runs the AI and then the tasks.  There
is no second thread in that part, but plenty of interleaving: tasks run a step
per pass, call back into the scheduler that is running them, change what they
need while they run, and wait for a server that answers late or never.  Below
it lies a C and C++ library (`src/srcXS`), with real threads - the HTTP readers,
the console, the OSL objects - and with the algorithms the client needs to be
fast or exact: path finding, hash tables, translations, ciphers.

This directory holds models of both, checked with TLC, and theorems about them,
proved with TLAPS.  Line numbers refer to the files under `src/`;
`TaskManager.pm` is `src/src/TaskManager.pm`, and C files are under
`src/srcXS/`.

## 1. Inventory

| Part | State it keeps | Operations | What makes it hard | What makes it correct |
|---|---|---|---|---|
| Scheduler, `TaskManager.pm` | active, inactive and gray task sets, mutex owners, counts per name, a reschedule flag | add, stopAll, reschedule, iterate, handlers for a task's stop and mutex change | task code runs inside reschedule and iterate and calls back; sets are changed while they are walked | exclusion per mutex, priority, no starvation of the highest, every stop noticed, sets and counts in step |
| Task base class, `Task.pm` | status, mutexes, two events | activate, interrupt, resume, stop, setDone, setStopped, setMutexes | a status contract between a task and whoever runs it | only legal status changes |
| `Utils/Set.pm` | an array and its index | add, remove, has, get, use as an array | array and index can get out of step | index and array agree |
| Task combinators, `Task/WithSubtask.pm`, `Chained.pm`, `ErrorReport.pm`, `Timeout.pm` | the current subtask, the mutexes from before it | delegation of interrupt, resume, stop, iterate | mutexes follow the subtask; stop and restore in a fixed order | parent and subtask in step, mutexes restored |
| Game tasks, `Task/*.pm` | small state machines with timeouts | iterate, resume, packet hooks | answers of the server that come late or not at all | ends or retries, never waits for ever |
| Callback lists, `Utils/CallbackList.pm` | callbacks with index cells | add, remove, call, deepCopy | a callback removes callbacks; index cells move; objects die | IDs find their callbacks, nobody else is removed, everyone is called once |
| Lists of objects, `Utils/ObjectList.pm`, `ActorList.pm`, `InventoryList.pm` | an array with holes, a compact copy, an ID map, a name index | add, remove, clear, lookups, rename events | three views of one collection | the views agree |
| Plugin hooks, `Plugins.pm` | hook lists by name | addHook, delHook, callHook | hooks are removed while they are called; handles keep indices that are reused | handles find their entries, the deleted are not called, the others once |
| Tokenizer, `Network/MessageTokenizer.pm` | a byte buffer, a mark | add, clear, readNext | messages arrive in pieces, their length with them; an account ID may come instead of one | messages are cut where they end, however they arrive |
| Connection, `Network/DirectConnection.pm` | state, tries, timeouts, socket | checkConnection, called every pass; nine handlers, relog, offlineMode | polling of timeouts against late answers, servers that hang up, a user who interferes | every failed attempt is repeated, after a pause |
| Packet parser and sender, `Network/Receive*`, `Network/Send*` | shared globals | hundreds of handlers | volume, formats | mostly data conversion |
| XKore, `Network/XKore.pm` | proxy state | relays | Windows injection | out of scope |
| AI queue, `AI.pm` | two parallel arrays | queue, dequeue, clear, suspend | alignment of the arrays | the arrays stay aligned |
| AI logic, `AI/*.pm` | globals | heuristics | volume | out of scope |
| HTTP readers, `utils/{unix,win32}/http-reader.cpp`, `std-`, `mirror-http-reader.cpp` | status, size, error, buffer, reference count; the mirrors left and the one in use | create, pullData, getStatus, getSize, download, the destructors, the threads' entries | the object may be destroyed in any step of its thread; the mirror's time runs out as it answers; no thread can be made | deleted once by the last, data in order and whole, no reader lost, destructors return, the search ends |
| OSL, `OSL/` | reference counts, smart pointers, threads, two streams over a socket | ref, unref, start, join, write, flush, close | two threads let go at once; destructors of one let go of the next; exceptions out of the middle; short sends | nothing used after it is deleted, nothing leaks, bytes in order |
| Dense hash map, `utils/densehashtable.h`, `dense_hash_map.h` | the buckets, counts, thresholds, a flag to shrink | insert, erase, find, clear, resize, copy, swap, iterators | deleted buckets, reuse, growing and shrinking, walks with erasure | it is a map; every search ends and finds; walks miss nothing |
| Ciphers and hash, `utils/Rijndael.cpp`, `rijndael-*-fst.c`, `aes-cfb.c`, `whirlpool-algorithm.c` | keys, chain blocks, position in a block, bits in a buffer | make key, encrypt, decrypt, set key and salt, add, finalize | tables and key schedules for nine sizes, chaining over calls, padding, bits over byte borders | they compute the standard and give back the text |
| Path finding, `PathFinding/algorithm.cpp`, `misc/fastutils.cpp` | heap, list and lookup of a session; the distance map | new, reset, run, step; makeDistMap | stale heap entries, re-opened cells, interruption by the clock, reuse of the session | the cheapest route, exact distances |
| Translation, `Translation/translator.cpp` | the file in memory | load, unload, translate | binary search on unsigned numbers | in a whole table, finds what is there and reads nothing else |
| Padded packets, `PaddedPackets/` | one engine: sync values, account, buffer, two blocks; sixteen ciphers | set, create, encode, decode | a buffer that is reused; keys at hashed distances; hand-written ciphers in two directions | the keys come back; the ciphers undo each other |
| Console, `unix/consoleui.cpp` | two queues with a lock each, the prompt | start, stop, print, waitUntilPrinted, getInput, the thread | condition variable, shutdown, a prompt that messages pass by | nothing lost or out of order, waiting is for everything, calls return |
| Deals, lock file, commands, field data, Windows parts, user interfaces, macro plugin, vendored modules | | | | see section 7 |

How they interact: the main loop (`functions.pl`, `mainLoop_initialized`)
calls `checkConnection`, then reads messages through the tokenizer into the
handlers, runs the AI, and calls `TaskManager->iterate`.  Handlers, commands
and the AI call `TaskManager->add`, and the "ai clear" command calls `stopAll`.
Tasks report back through callback lists (`onMutexesChanged`, `onStop`,
`onTaskFinished`) that hold the scheduler's handlers.  The C++ parts are called
from Perl through XS bindings and do not call back; the HTTP readers, the
console and the OSL threads share state with their callers under their own
locks.  `aes-cfb.c` sits on `rijndael-api-fst.c` and this on
`rijndael-alg-fst.c`; the padded packets call their sixteen ciphers by a table;
path finding reads the distance map of `fastutils.cpp`.

The hazards of this code, at their lines, are listed in `PROJECT.json`.

## 2. Modules

| Module | Models |
|---|---|
| `IndexedSet` | `Utils/Set.pm` as a pair of array and index, with `remove` as the code does it, and `Shift`, the scheduler's `shift @{$grayTasks}`, which bypasses the index |
| `TaskManager` | `TaskManager.pm` with `Task.pm`: every operation, and reschedule and iterate one loop turn at a time |
| `TaskScheduling` | what the scheduler promises, without lists, locks and loops |
| `TaskManagerRefinement` | the mapping under which TaskManager implements TaskScheduling |
| `MCTaskManager` | instances for TLC |
| `TaskManagerProofs` | what the operations on an indexed set preserve; types, the sets, the locks and mutual exclusion, the books, the statuses, the refinement |
| `CallbackList` | `Utils/CallbackList.pm`: the array, the index cells, one call() with its purge |
| `ObjectList` | add and remove of `Utils/ObjectList.pm` on its two arrays, as operators |
| `Hooks` | addHook, delHook and callHook of `Plugins.pm` over an `ObjectList`, with nested calls |
| `MCCallbackList`, `MCHooks` | instances for TLC |
| `SequenceLemmas` | what splice, push and dropping the last item do to an array; a least number; many sequences joined to one; prefixes |
| `CallbackListProofs` | the invariants of the callback list and of a walk over it (those of the hooks are in ComponentProofs) |
| `HttpReader` | the two native readers, each with its thread, a critical section at a time |
| `HttpClient` | the program that uses one: a single reader, `StdHttpReader::download`, or `MirrorHttpReader` with its own thread (extends HttpReader) |
| `HttpClientProofs` | the lives of the readers, the order of their data, and that none of them is lost |
| `OSL` | Object, Pointer, Thread, Mutex, the buffered and the thread-safe output stream and the socket, at work in two threads |
| `OSLProofs` | nothing is used after it was deleted, nothing leaks, and the bytes stay in order |
| `HashMap` | what a hash map promises |
| `DenseHash` | `dense_hashtable` and `dense_hash_map`, shown to implement HashMap |
| `DenseHashProofs` | probing meets every bucket; the table finds its keys, walks miss none, and it implements HashMap |
| `DistanceMap`, `PathFinding` | `makeDistMap`; the session of the A* search (extends DistanceMap) |
| `Translator` | loading and binary search |
| `PaddedPackets` | the engine, its blocks and the functions of the XS file |
| `Bytes`, `CipherStandard` | arithmetic of bytes as tables; Rijndael as its authors specify it |
| `Rijndael`, `RijndaelFst` | the two implementations of it |
| `AesCfb` | the byte stream on top of the second |
| `Whirlpool` | the hash, with the standard it is compared with |
| `BlockCiphers` | the six block ciphers behind the padded packets |
| `ConsoleUI`, `ConsoleUIProofs` | the console thread and its callers; the proof |
| `MessageTokenizer` | the buffer and the mark of `Network/MessageTokenizer.pm`, and what readNext makes of them |
| `Connection` | checkConnection of `Network/DirectConnection.pm`, the receiving, the handlers that move the state, the servers and the user (extends MessageTokenizer) |
| `ComponentProofs` | the byte stream arrives as it was sent; the connection's types, the pause between two logins, and that messages stay whole; that lookups find their messages; the hook list and walks over it; that the keys of a padded packet come back |
| `MCHttpClient`, `MCOSL`, `MCDenseHash`, `MCAlgorithms`, `MCWire`, `MCConsoleUI` | instances for TLC; MCAlgorithms and MCWire put several components side by side, and `job` says which one moves |

### How TaskManager corresponds to the code

`active`, `inactive`, `gray` are the three `Set` objects, `owner` is
`activeMutexes`, `tasksByName`, `shouldReschedule` and `events` keep their
names.  `status` and `mutexes` are the fields of the task objects.
`listening` says for which tasks the manager's two callbacks are registered.
`finished` counts onTaskFinished events; it is what an observer would see.

iterate() is one call in the code and many steps here, because task code runs
in the middle of it.  `pc` says where the manager is:

| `pc` | Code | Actions |
|---|---|---|
| `idle` | outside iterate() | AddTask, Stop, StopAll, BeginReschedule, BeginIterate |
| `gray` | lines 131-154 | GrayConflict, GrayKeep, GrayDone |
| `activate` | lines 157-198 | Discard, Activate, BeginSteal, Skip, ActivateDone |
| `steal` | lines 186-196 | StealFromOwner, TakeFree, EndSteal |
| `resume` | lines 201-210 | Awaken, LeaveAwake, ResumeDone |
| `interrupt` | lines 213-219 | Interrupt, EndReschedule |
| `iterate` | lines 281-306 | EnterTask, Reap, EndIterate |
| `task` | inside a task's iterate() | SetMutexes, SetDone, SetStopped, RestoreLate, LeaveTask, and AddTask, Stop, StopAll |

`i` is the loop index, `cur` the task whose mutexes are being taken (`steal`)
or whose iterate() runs (`task`), `todo` the mutexes still to be taken.  The
order in which `foreach` walks the mutexes is left open.

Kinds of tasks are constants: `Changing` tasks call setMutexes from iterate(),
as every Task::WithSubtask with manageMutexes does when a subtask begins or
ends; `Announcing` tasks call it from activate(), as Task::Chained does;
`LateRestoring` tasks call it after setStopped, as Task::WithSubtask::iterate
does when its subtask has stopped itself (`Task.pm:304-310` describes such
tasks; none is in the repository today); `DeferringStop` tasks do not stop at
once in stop(), like Task::Raise and Task::Timeout.

The assertions of the code (`checkValidity`, `_assertStatus`) are not guards
in the model.  They are what ActiveOwnUnlessGray, StatusContracts and the parts
OwnersAreActive and GrayIsActive of LockInv check.  Line 244 of checkValidity has
a slip (`$status = Task::INTERRUPTED`, an assignment, so that the assertion cannot
fail); StatusContracts states what a status may become.

### How the lists correspond to the code

In `CallbackList`, `list` is the blessed array and `id[c]` the content of the
cell that item `c` refers to; a cleared cell is `NoID`.  A member of
`Callbacks` is one call of add; it cannot be added twice, because each add
makes a cell of its own.  `alive` says whose object the weak reference still
finds.  call() is taken apart where other code runs: `pc` is `walk` in the
foreach (lines 195-204), `callback` inside a callback, `purge` in the loop
over `IDsToRemove` (`dead`, lines 206-209).  Perl's foreach over an array
keeps an index and looks at the live array, which is why `pos` is compared
with the length of `list` anew in each step.  A callback may throw; call()
then ends without its purge (Throw).  deepCopy copies items with their
references to the cells: `copy` holds the same callbacks, their objects by
strong references, and shares `id`.

In `ObjectList`, a list is a record of `items`, a function from the indices
in use (Perl's `exists`), and `cItems`, a sequence.  `add` finds the first
hole h of the one and splices into the other at h, although the other has no
holes; InStep says that this is right, and the proof says why: before the
first hole the two arrays agree.

In `Hooks`, a member of `Entries` is one call of addHook with its entry and
its handle, `handle[e]` the INDEX in the handle, `walks` the stack of
callHook's under way.  Plugin code runs between calls of callHook and inside
a hook, where it may do anything: PluginRuns is its guard.  delHook drops an
empty list from `%hooks`, so that a walk over it goes on with an array nobody
changes any more (mark `gone`).  A hook may throw, which ends its callHook
(Throw), and all of those around it that do not catch.  The marks `shifted`
and `cut` are history: they say whether an entry was put in or taken out at a
place the walk has already passed.

### How the C++ models correspond to the code

In `HttpReader`, `reader[u]` is the shared state of one reader: `status`,
`size`, `error` and `downloadBuffer` as in the class, `refs` the Unix
`refCount`, `owner` and `thread` where the program and the download thread are.
A step is one critical section, or one access outside of any.  `UnixLeave` is
the thread's `unref` with the decision and the deletion in separate steps,
because the lock is given back in between; `WinClose` closes the handles, which
makes the thread's next network call fail, and `WinDelete` waits for it.  What
curl and WinInet do is an outcome in `NetworkStep`: a piece of data, the end, a
failure, or nothing for ever.  `HttpClient` adds the users.  `mirrorPc` is where
`MirrorHttpReader`'s thread is: `next` at the head of its loop, `create`,
`poll`, `sleep`, `decide`, then `quit` or `drop` while it deletes its trial.
`Clock` lets the time of the trial run out at any moment.

In `OSL`, `todo[t]` is the rest of what a thread has to do: calls, destructors
and unlocks, taken from the front.  `Throw` drops the rest of an operation but
for the MutexLocker on the way; in the middle of a destructor it meets
`unref() throw()` and ends the program (`aborted`).  `holds[t]` are the
references and pointers the program itself still has.  `fd` says what the
number of the descriptor stands for: after `close` it may come to stand for
something else (ReuseDescriptor).

In `DenseHash`, `ht` is the record of the members of `dense_hashtable`; buckets
are empty, deleted or entries.  The hash function is a constant.  `Contents` is
the refinement mapping: the live entries as a function.  `result` is shared
with the abstract map, so that answers are compared, too.

`PathFinding` has one action per pass of the A* loop; `session` is the struct
with its heap, list and lookup.  The clock is read every `Loops` passes and may
say that time is over.  `DistanceMap` does the two scans of `makeDistMap` cell
by cell, on the array they change.

`Translator` looks at a table as little as the constructor does (translator.cpp:24-40):
it may be empty, without the empty message, out of order or cut off behind its
beginning.  A place outside it compares as anything (`Comparisons`), so a search with a
wrapped `high` goes on as the code would, or ends the program.

`PaddedPackets` writes bytes as tuples that say what they are, because the only
question about them is whether a key is overwritten; hashes are a constant
function `Funcs`.  `BlockCiphers` computes the six ciphers themselves, byte for
byte, with the contents of the substitution boxes as constants: whether a block
comes back depends on the order of the steps and subkeys, not on the boxes.

`Rijndael` and `RijndaelFst` give the large tables by the formula that
generates them, and the code's own way through tables, round keys and chain
blocks; `CipherStandard` computes the cipher from its definition.  In `AesCfb`
the cipher and exclusive or are constants, so that the theorem does not depend
on them; `trail` is the history of the sender's handle, one entry per byte.

In `ConsoleUI`, `thread` is where `threadMain` is, `holder` says whether it holds
the output lock between steps, and `caller[c]` where a calling thread is:
`waiting` is inside `pthread_cond_wait`, `checking` after it.  A key stroke that
ends no line only changes readline's own state and is left out.

### How the connection corresponds to the code

`conn` holds what the code keeps in globals and in `$net`: `state` is `$conState`
(times ten, because there is a state 1.5), `tries` says whether
`$conState_tries` is true, `link` which server is behind `remote_socket`,
`hungUp` that this server has closed its end and the client has not read that
yet, `wire` the bytes between the two, `pause` that `timeout_ex{master}` is
running, `server` that `$config{server}` or the `charServer_ip` of the master
server is set, `char` that `$config{char}` is, and `quit` that the program ends,
by `$quit` or because a handler dies.  `step` is where a pass of the main loop is: `check` before
checkConnection, `receive` before serverRecv, `process` in the loop of
process(), one message per step.

A pass takes one branch of checkConnection: Calls, Answers, Loses, TimesOut or
Waits.  Answers is the menu for a server that is not in the list: the user names
another or quits, and nobody is called in this pass.  Without a parser for its
kind of server, or where the checks after the call refuse it, the call of the
account server ends the program (AccountServerCalled).  With no server named in
state 2, or no character chosen in state 3, the pass neither calls nor looks at
its timeout (Unchosen); a client gets there when charSelectScreen creates or
deletes a character, or by `conf` (Configure, which also stands for
`charselect 1`).
The other timeouts (`master`, `gamelogin`, `charlogin`, `maplogin`, `play`) are
polled and nowhere else looked at, so that having run out is a choice of the
pass.  A handler is the set of what it may make of `conn`: where the code looks
at settings, asks the user or a menu, each answer is a member.  Between passes the
user, a task, the AI or autoRestart may log in again, go offline, connect, or
change the settings.  The answers to the creation and deletion of characters and
to the PIN, which call charSelectScreen again, are not among the messages.
The servers say any message of their kind in any order, as long as the bytes
under way stay within a bound, and hang up when they like, which may cost the
end of what they sent.  `due` is what they have said and no handler has seen,
`clean` whether the buffer was empty when the connection was made (and no
message of unknown length has come), `rested` whether there was a pause since
the account server was called; these three are history.

## 3. What the runs check

| Run | Instance | Shows |
|---|---|---|
| `tasks_fixed_mutexes` | 4 tasks, 2 mutexes, two names; t2 and t4 defer their stop | ActiveDoNotConflict in every state, StatusContracts of every step, StoppedIsLetGo and HighestRuns under fairness, and ImplementsScheduling: TaskManager implements TaskScheduling |
| `tasks_one_changing` | 3 tasks, one of which calls setMutexes up to twice, also after it has stopped | with one such task the gray loop still ends (IterateReturns) |
| `tasks_gray` | 3 tasks, two change mutexes twice, one announces them in activate(), one of the changing tasks defers its stop; no state after a second report of one end | LockInv, the inductive invariant behind the assertions of checkValidity, also in the corrupted gray set; whoever lacks a lock at rest is in the gray list, but for a second change (ActiveOwnUnlessGray); a gray task has its reschedule, but for one that changed in activate() (GrayIsRescheduled); counts and reports are exact until the loop hangs (TasksAreAccountedFor) |
| `tasks_stale_gray` | 2 tasks, one changing | a violation, see below |
| `callbacks` | 4 callbacks that may add and remove callbacks, 3 of them with an object that may die | IDsFindItems, NobodyElseIsRemoved, AllCalled |
| `hooks` | 4 hooks that add, delete and call, two calls deep | ListInStep, HandleFindsEntry, NotCalledAnymore, AllCalled |
| `http_readers` | a program with one object of each kind, on both platforms, 2 mirrors, 2 pieces of data, with and without a time limit | Lifetime, DataInOrder, NoReaderLost, and under fairness NothingHangs: destructors return and limited searches end |
| `osl` | one socket, its buffered stream of size 1 or 2 and its thread-safe stream, two threads, 2 bytes, both platforms, detached and joined | UsedAreAlive, NothingLeaks, BytesInOrder |
| `dense_hash` | 4 keys, three of which collide, 4 to 8 buckets | EveryKeyIsFound, WalkMissesNone, and ImplementsMap: the table implements HashMap |
| `algorithms` | every field of 3 by 3 and then a larger one in the same session; every sorted table of up to eight messages, the empty and headless ones too, tables out of order or cut off, and a 4-bit unsigned int; two packets of up to three keys | RoutesAreCheapest, DistancesAreExact, LookupsFindMessages, KeysComeBack |
| `wire` | all nine sizes of key and block, texts of one to three blocks, all modes; up to two buffers to hash; a toy cipher for the stream; two keys and two blocks for each block cipher | CiphersAreStandard, CiphersComeBack, StreamArrives |
| | in the same run, next to the ciphers: three servers with five to seven messages each, up to 5 bytes under way, or 7 with a greeting of four, two settings | MessagesAreWhole, SparesAccountServer, and under fairness TriesAgain |
| `console` | two calling threads, 3 messages, 2 lines or ends of input | MessagesInOrder, WaitedForAll, and under fairness CallsReturn |

The bounds.  Three tasks are the fewest with which a task can be displaced by
one and wait for another, four with which a displaced task could wrongly keep
waiting; two mutexes are needed for a task to hold one and lose the other.
Two setMutexes calls per task are what the stale index of the gray set takes
to show.  `FewReports`, the constraint of the gray instance, cuts off what follows
a second report of the same end: only a reschedule that hangs on an ended task
makes one, and then goes on making them for ever.  Four callbacks or hooks let one be before, one at and two behind the
place where a list changes under a walk, so that a wrong index hits somebody
else; two nested calls let the inner walk's hooks change the list under the
outer.  Two mirrors let the first be given up while the second is tried, and
two pieces let one be pulled before the other arrives.  A buffer of one byte
passes each write on, one of two fills up in the middle of a write.  Three
colliding keys fill a probe sequence past a deleted bucket, and four keys make
a table of four grow.  Fields of three by three contain every kind of corner; the
larger field has a wide and a narrow way, so that the cheapest route is not the
shortest.  A hash of 512 bits in 3 calls crosses every border of the buffer.
The values of the ciphers do not matter beyond being irregular: both ways of
computing them are the code's.  Three messages let one overtake another that has
become the prompt.  Five bytes under way (`MaxBytes`) are two messages, one of them
of two bytes, and seven (`MaxGreeted`) a greeting of four and a message, so that
every message can be split at every byte and be followed by the beginning of the
next; where the buffer holds something old, and nothing is promised, three are
enough to get every handler called (`MaxStale`).  Payloads are cut down to a byte or two; the switches, which
of them state their length, and the messages 0081 and 00B3 of three bytes are
those of `tables/recvpackets.txt`.  The proofs of section 5 need no bound.

An unsigned int of four bits (`Uint = 16`) makes the largest table, of eight messages,
as large as FilesAssumption allows, so that the sum of `low` and `high` comes within one of
its range; and it keeps the searches that leave their table few.

The constants of the ciphers are smaller than the code's in two places: Turtle
has words of 3 bits (`TurtleBits`; its boxes have 8 entries then, not 256), and
the time limit of a search for routes is read every 2 passes instead of 50.

### The violation

`tasks_stale_gray`: `shift @{$grayTasks}` (TaskManager.pm:152) leaves the task
in the index of the set; when it changes its mutexes again, the `add` in line
400 does nothing.  The task has lost its locks, is never gray again, and another
task with the same mutex becomes active: ActiveDoNotConflict is violated,
against the comment in line 124 and the warning of `Utils/Set.pm:42`.

### Where else the code does less than one would wish

These came up while modelling.  The properties above except them explicitly,
so that what is left is checked:

- TaskManager.pm:146: two tasks ask for the same mutex in one pass; the stale
  index makes `remove` delete the wrong item, and the loop of lines 131-154
  never ends.  IterateReturns is checked with one changing task.
  A hang on a task that has ended reports its end, and takes it off the count, in
  each turn; TasksAreAccountedFor excepts exactly that (ReportsForEver).
- TaskManager.pm:152: the key that the shift leaves behind makes the next change
  of the same task go unnoticed, and removing the key of another task takes an
  item that is not its own.  ActiveOwnUnlessGray excepts an active task without its locks
  that has such a key, and only if there was a second change by somebody.
- TaskManager.pm:219: a task that turns gray in activate() during reschedule
  loses the flag it has set.  GrayIsRescheduled excepts these tasks and no others.
- TaskManager.pm:163: a task stopped while waiting is dropped without being
  uncounted.  Its name stays counted, and TasksAreAccountedFor says so: the count of a name is
  exactly the number of its tasks that were added and not reported, and whoever of
  these is in no set was stopped.
- TaskManager.pm:475: a task that restores mutexes after setStopped keeps a
  lock when it is gone.  LockInv assumes there is none (and there is none in the
  repository today).
- Plugins.pm:433 and CallbackList.pm:195: a hook or callback that deletes itself
  makes the next one be skipped, although `ObjectList.pm:271` calls removal
  during iteration safe.  AllCalled excepts what happens behind the loop.
- win32/http-reader.cpp:302: if no thread can be made the reader says that it is
  connecting for ever; NothingHangs is for searches with a time limit.
- win32/http-reader.cpp:306: the constructor may free a message its thread has
  just set.
- std-http-reader.cpp: `download` never sets the size it promises; no
  property speaks of it.
- OSL: a destructor that throws, as the last `unref` of a socket may make it,
  ends the program (Object.cpp:40 declares `throw()`); a detached Thread that
  was never started leaks its Runnable (Thread.cpp:89); a flush that fails loses
  its bytes (BufferedOutputStream.cpp:61); on Win32 closing the output stream
  shuts down the other direction (Net/Win32/Socket.cpp:106).
- rijndael-api-fst.c:355: padDecrypt in ECB mode refuses the full block of
  padding that padEncrypt adds to whole blocks.  TextComesBack excepts it;
  `aes-cfb.c`, the only caller in the program, does not pad.
- MessageTokenizer.pm:123-139: while the mark stands a message of two or three bytes
  (0081 `errors` has three) is held back until more arrives, because it might be
  the beginning of an account ID.  MessagesAreWhole excepts it.
- MessageTokenizer.pm:62 and DirectConnection.pm:322, 514, 558, 595: clear() leaves
  the mark standing, and only the call of the account server clears the buffer.
  What a server sent after the message that made the client leave is read as the
  beginning of what the next server says.  MessagesAreWhole is promised of
  connections that find the buffer empty.
- MessageTokenizer.pm:156: a message that states the length 0 is never taken off
  the buffer, and nothing behind it is read.
- DirectConnection.pm:493: state 1.5, which a 099D list of three
  or more characters sets (ServerType0.pm:3862), has no timeout, and a connection lost in it is
  made again without a pause.  SparesAccountServer and TriesAgain except it.
- DirectConnection.pm:504, 546, 555 and 569: with no server named, or no character
  chosen, the client neither calls nor times out: when the server falls silent
  or hangs up before one is chosen it stays as it is for ever.  TriesAgain
  excepts this (Unchosen) and nothing else of these states.
- translator.cpp:74: `high` wraps around for an empty table, and for a message before the
  first of a table that does not begin with the empty one; the search then reads
  outside the table and may find there what is none, end the program, or not end.
  A table that is cut off is read beyond its end.  LookupsFindMessages is promised
  of whole tables and messages not before the first; of the other searches,
  which the run makes, it claims nothing.
- DirectConnection.pm:483: `dcOnMaxReconnections` is looked at when a login times
  out, not when the server answers with an error.
- unix/consoleui.cpp:109 and 254: once the input has ended the console thread
  reads the end for ever or leaves, and who waits for its messages then waits
  for ever.  CallsReturn excepts it.
- PaddedPackets/typedefs.h:21: a dword has 8 bytes where `unsigned long` has;
  CAST-128 would not decrypt there.  The models have dwords of 32 bits, as the
  comment at that line says.

### Fairness

`FairSpec` of TaskManager adds weak fairness of the manager's own steps: the
main loop calls iterate() in every pass, the loops inside it run on, and a
task's iterate() returns (tasks are cooperative; none blocks).  Nothing is
assumed of the actions that task code and users take, so that a task may run
for ever.  HighestRuns therefore speaks only of a task above all others: one
that is not can wait for ever behind an active task that never ends.

`FairSpec` of HttpClient: the threads run and the clock goes on, and a program
that has begun a destructor ends it.  Nothing is assumed of the network, which
may never answer, nor that the program ever pulls or closes.

`ConnFairness` of Connection: the main loop goes on with its passes, a pause ends,
and a pass that may find its timeout run out again and again finds it so at some
time (strong fairness of TimesOut: the timeout is running all the while, but the
pass is in other places in between).  A server that keeps talking would restart
`timeout{play}`; TriesAgain promises nothing there, so that the assumption does no
harm.  Nothing is assumed of the servers, which may
be silent or talk for ever, nor of the user.  A user who answers the menu for
an unknown server says something, as far as TriesAgain goes: one who names
unknown servers for ever is asked for ever.

`Fairness` of ConsoleUI: the system runs every thread that can run, the console
thread and the callers in the middle of a call.  Nobody has to type or print.

## 4. The abstract specifications

`TaskScheduling` has three sets, submitted, waiting and running, and one
step, Choose, that replaces the running tasks: only stopped tasks get lost,
the chosen do not compete, who was running loses its place only to a waiting task
of a higher rank, and nobody is left waiting but for a rival of at least its rank.
The rival need not run in the end.  The choice is made in one pass and, as
TaskManager.pm:127-128 says, need not be the best one: with the priorities 1, 2, 3
and 1 and the mutexes {m1}, {m1, m2}, {m2} and {m1} for t1 to t4, the second takes
m1 from the first and loses m2 to the third, so that m1 may be left to t4 while t1,
who had been running, waits.  (An earlier form of Choose said that the rival runs in
the end; the instance was too small to refute it, the proof attempt did.)
The mapping shows the sets as they were when
reschedule began (`oldActive`, `oldInactive`) until it ends, so that the many
steps of reschedule are one step of the abstract scheduler.  It holds for
tasks whose mutexes do not change, by `tasks_plain` for four tasks and by the
theorem SchedulingImplemented for any; mutating the priority comparison breaks it.

`HashMap` is a function from keys to values and the answer of the last call.
ImplementsMap says that growing, shrinking, marking, reusing and copying are
invisible: each step of the table is a step of the map or none.

`CipherStandard` and the second half of `Whirlpool` are the reference
definitions of the ciphers and the hash; `ExactDistance` and `Cheapest` those of
the distance map and of routes.

## 5. What is proved

For all sets of tasks and mutexes, all priorities and all lists of mutexes:

| Theorem | States | Under |
|---|---|---|
| TypeCorrect | `Spec => []TypeOK` | ConstantsAssumption, which only types the constants |
| SetsStayDisjoint | `Spec => []SetsDisjoint` | the same |
| LockDiscipline | `Spec => []LockInv` | no task restores mutexes after setStopped |
| OwnersStayActive, ActiveOwnTheirMutexes, GrayStayActive | the assertions of checkValidity | the same |
| MutualExclusion | `Spec => []ActiveDoNotConflict` | no task changes its mutexes |
| GrayGetRescheduled | `Spec => []GrayIsRescheduled` | none |
| BooksAreRight | `Spec => []TasksAreAccountedFor` | no task restores mutexes after setStopped |
| ContractsKept, StatusesFitTheSets | `Spec => StatusContracts`, the contracts of Task.pm, and what checkValidity asserts of statuses | no task restores mutexes after setStopped |
| SchedulingImplemented | `Spec => ImplementsScheduling`, the refinement of TaskScheduling | no task changes its mutexes |
| CallbackListProofs: TypeCorrect, IDsAlwaysFindItems, OnlyTheRemoved, NobodyCalledTwice, EveryoneElseIsCalled | TypeOK, IDsFindItems, NobodyElseIsRemoved, CalledOnce, AllCalled of CallbackList, for any callbacks | CallbacksAssumption: undef is no integer |
| ComponentProofs: BytesArrive | `CfbSpec => []StreamArrives`, for any block cipher, block length, texts and lengths of calls | BlocksAssumption and XorAssumption: the cipher maps blocks to blocks, exclusive or undoes itself |
| ConsoleUIProofs: ConsoleInvariant, NoMessageLost, WaitsForEverything | the invariant, MessagesInOrder and WaitedForAll, for any threads, messages and lines | none |
| ComponentProofs: TypeCorrect, AccountServerIsSpared | ConnTypeOK and SparesAccountServer, for any table of lengths, any messages and settings | TokenizerAssumption and ConnectionAssumption, which type the table, the messages and the settings |
| ComponentProofs: LookupsFindTheirMessages | `LookupSpec => []LookupsFindMessages`, for any files, in order or not, with and without a header, and any width of an unsigned int | FilesAssumption: a file holds at most half as many entries as an unsigned int has values (eight bytes each in a file whose size is one), and its header counts at least these |
| ComponentProofs: MessagesStayWhole | `ConnSpec => []MessagesAreWhole`, for any table of lengths and any messages, in pieces of any size | TokenizerAssumption, ConnectionAssumption, and MessagesAssumption: a message is as long as the tables or its length field say, and none agrees with the account's number as far as it goes |
| ComponentProofs: KeysReadBack | `PacketSpec => []KeysComeBack`, for any ciphers, sync values, accounts, packet ids, targets and skills, and any buffer that three keys fit into | PacketsAssumption: dwords of 32 bits, hashes are integers |
| DenseHashProofs: TrianglesCover, TableSound, KeysFound, WalksMissNone, TableIsMap | the inductive invariant, EveryKeyIsFound, WalkMissesNone and ImplementsMap (`Spec => HashMap's Spec` under the mapping), for any keys, values, hash function, and any least size 2^i | HashAssumption, which types the constants and keeps the deleted key from being stored |
| HttpClientProofs: ReadersLiveOnce, DataComesInOrder, NoReaderGetsLost | Lifetime, DataInOrder and NoReaderLost, for any URLs and list of mirrors, any number of pieces, on both platforms and for all three kinds of object | ReaderAssumption and MirrorsAssumption, which type the constants and ask for at least one mirror |
| OSLProofs: OSLTypes, NothingUsedAfterFree, EverythingIsDeleted, BytesStayInOrder | the types, UsedAreAlive, NothingLeaks and BytesInOrder of OSL, for any sizes, any number of bytes, on both platforms | OSLAssumption: the two threads are two, neither is the name for nobody, and sizes are positive |
| ComponentProofs: HooksTypeCorrect, ArraysStayInStep, HandlesFindEntries, DeletedAreNotCalled, NobodyCalledTwice, EveryoneElseIsCalled | TypeOK, ListInStep, HandleFindsEntry, NotCalledAnymore, CalledOnce, AllCalled of Hooks, for any number of hooks and any depth of nesting | EntriesAssumption: undef is no index |

The argument.  SetsDisjoint is inductive with one addition: in every state in
which a task is neither active nor inactive and could be added, it is unknown
to `events` (SetsInv).  Lemmas on `IndexedSet`, at the
beginning of the module, supply what add and remove preserve: as long as the index gives each item its place, they do what their
names say and keep it so.

For the locks the invariant has to describe the gray set after a shift, which
no longer satisfies that: its keys are off by the number of items shifted.
`GrayInOrder(n)` says that the items follow their index with an offset of n,
and `GrayStuck` describes the one way out of that order, a head that has been
deactivated and cannot be removed.  LockInv then says: whoever owns a mutex is
active and declares it; an active task owns all it declares unless it is gray
or is just taking them; a gray one owns nothing.  The step that makes this
more than bookkeeping is GrayConflict from an order with n > 0: `remove`
deletes at the stale place and the set becomes stuck, but no lock gets lost.
From LockInv mutual exclusion follows when nothing is gray: two active tasks
with a common mutex would both be its owner.

For the statuses the sets say too little while reschedule moves tasks between
them and lets the statuses lag behind.  StatusInv has two forms.  Outside of
reschedule the active tasks run and the inactive ones wait.  Inside (Lagging) a
task's status is that of the set it was in at the start, unless the loop over it,
which goes by index, has passed it; who is inactive and was not before had been
running, and so has not yet been interrupted.  ContractsKept then follows step by step.

The refinement needs to know at the end of reschedule what has happened to
everyone since its start.  ChoiceInv says it for the pass in between: every task
before the index of the loop is active or has a rival of at least its rank, who
was taken from had been running and lost to a waiting task of a higher rank, and
once something is active something stays active.  The step from a steal to that
is that tasks active at the start do not compete, so that who steals from one
of them had been waiting.

LockInv tells only that an active task without its locks has a key in the index of
the gray set, and the shift of TaskManager.pm:152 leaves keys behind.  FirstInv,
which ActiveOwnTheirMutexes adds, follows the first change of mutexes, in
iterate() or in activate(): as long as it is the only one, its task is in the
gray list or holds what it wants, whatever loop is running.

BooksAreRight counts: each change of a set changes the cardinality of the tasks of
one name that are added and not reported by one, or not, and the count with it.
The one state out of which an end can be reported twice is GrayStuck with an ended
head; HangGoesOn shows that the manager never leaves it, so that the disjunction
ReportsForEver \/ Books is inductive.  GrayGetRescheduled needs that the gray list
is empty after the first loop, so that only activate() can fill it before the flag is reset.

The assumptions are needed: a LateRestoring task can take a lock with it when it
goes, and with Changing tasks ActiveDoNotConflict is violated
(`tasks_stale_gray`).  So are the exceptions inside the properties: in the gray
instance TLC refutes each of ActiveOwnUnlessGray, GrayIsRescheduled and
TasksAreAccountedFor when its exception is taken away.

For the callbacks IDsFindItems needs its converse (CellsExact: a cell with an
index finds its own callback there), because the purge starts from cells noted
earlier.  CalledBehind and DueAhead then split the callbacks by where they lie
from the loop: who was called has no cell or lies before it, who is due has
been called or lies ahead.  A removal before the loop is the one step that
breaks DueAhead, and it sets `moved`.

For the hooks the heart is in two lemmas on ObjectList.  AddInStep: up to the
first hole the arrays agree index by index (Prefix, by the least index at
which they would not), so that splicing at the hole's index puts the item
where its index belongs.  RemoveInStep: the two searches of remove find the
one index and the one place of the item.  The invariant adds to HandleFindsEntry
its converse, EntriesHaveHandles, so that whoever is in the array still has
its handle; and WalkOK says of every walk that, unless `shifted`, nobody ahead
has been called and, unless `cut`, whoever is due was called or is ahead.  The
entry of a deleted handle is in neither array: that is NotCalledAnymore.

For the HTTP readers the invariant has three parts.  ReadersOK says what the
reference count is: one for an owner who has not let go and one for a thread that
has not.  It follows that whoever takes it to zero is the last, and it remembers
that the other has gone, so that the deletion that comes after the unlock is alone.
Buffered says that the buffer holds the last pieces sent; with `Len(got) +
Len(buffer) = sent` (StreamOK) a pull goes on where the last one ended, and after
the status `done`, which only a thread without further writes can have set, an
empty buffer is the end.  SearchOK walks with the mirror thread: the mirrors
before the one it tries are deleted, the one it tries is the only one in use, and
the step that hands it to the program finds a program that has got nothing yet.
Two notions keep the proof short: a Calm step leaves what was taken of every
reader's data alone, a Steady one leaves its owner; every step of a reader's thread
is both, and the program's steps break one of them for one reader.

For OSL, what a thread still has to do is a list of operations that replace each
other: an `unref` becomes a destructor, this an `unref` of the next object.
`First` and `Last` give each operation its place and the last place of what may
come in its stead; that the list is in the order of these places (TodoOK) says that
no operation is there twice and what stands before what, without going through the
lists one by one.  On top of it Alive counts.  RefsCounted: each reference
is held by a thread or a whole object, or is about to be given up by an `unref` in
somebody's list.  WholeWhenReferred: an object that has been made and is not being
deleted has references, and no other has.  FreedOnce: one thread at most is about to
delete it.  CallsOK and ClosingOK: who works with the stream is in a call, with the mutex
and a reference that keeps the stream alive, or is the one that is deleting it.  From
these UsedAreAlive follows operation by operation, and NothingLeaks object by
object, from the Thread down to the streams of the socket, as nobody holds anything
and no operation is left.  StreamOK says that `sent`, what a thread is in the
middle of sending, and `buffer`, one after the other, are bytes in the order in
which they were written, and all of them unless a send failed.  An exception that
leaves a destructor ends the program (`aborted`), in the middle of whatever the
threads were doing.  Nothing is counted from then on, so that OSLInv keeps only
UsedAreAlive there.

For the stream, CfbInv follows the sender: `trail[i]` is its handle before byte
i.  TrailOK says that each cipher byte was made from the handle there and that
the next handle is that one fed with it; FollowOK that the receiver, once it has
done i bytes, is equal to `trail[i + 1]`, whatever it was before it was given key
and salt.  The step that carries it is that both sides feed the same cipher
byte, so that the one exclusive or undoes the other.  HandlesOK covers the time
between: who has set the salt, and has done nothing since, starts at it.

For the console, ConsoleInv is QueuesOK (types), LockOK (the output lock is held
exactly while the thread prints, and there is no prompt while messages are still
left to print), DueOK (who waits does so for messages that were printed) and
NumbersOK, which splits MessagesInOrder over screen, prompt and queue, so that
moving a message from one to the next keeps it.  WaitedForAll follows from it and
the guard of Check: an empty queue without a lock holder means that everything
is shown.

For the connection, ConnTypeOK goes through the tokenizer: whatever readNext cuts
off is a sequence of bytes, and so is what it leaves.  AccountServerIsSpared needs
the invariant Rested: a client in state 1 that is not trying and may connect has
started a pause since the last call; and so has one in state 4 that is trying or
connected, because its timeout goes back to state 1 without starting a pause of its
own.  A call of the account server counts as a try, so that only a step
that ends the try can make another call possible; all of those start a pause, but
for the exceptions the property names.

For MessagesAreWhole the invariant WholeInv follows `due`, what was said and not
handled.  It is a row of messages of which the first may be the account's number
(DueOK), and then `mightBe` is set; the buffer and what is on the wire, one after the
other, are the beginning of the whole row, and all of it as long as the server is
there (Heard); after a pass the buffer has less than the first of them, or at most
three bytes with the mark (NoneLeft).  The step that carries it is readNext: a buffer
that begins like a message is cut at its end or not at all (ReadIs), because the
switch, and the length field of a message of variable length, are there before the
rest is (LengthTold), and what is cut off in front can be cut off on both sides
(CutAway).  MessagesAssumption is needed: readNext takes four bytes equal to the
account's number away while it may be due, whatever they belong to.  Messages that
only share its first bytes are allowed.

For the hash table, everything rests on the walk of a key: the i-th bucket is the
hash plus i(i+1)/2, modulo 2^n.  TrianglesCover says that this meets each bucket
once.  If it met one twice, at i and j, 2^(n+1) would divide (j - i)(i + j + 1), of
which one factor is odd and the other is smaller than 2^(n+1); so the walk is one to
one, and on a finite set onto.  IInv is Good and Walk.  Good says that a key is
stored once and that no empty bucket is before it on its way (Reaches), that
`num_elements` counts what is not empty and `num_deleted` the marks, and that a
bucket is empty, so that every search ends.  A mark is not empty and keeps the ways
of others open; an element is put at the first mark or empty bucket of its way, after
the search has come to an empty one; copying starts from nothing and meets each
element once, so that the copy has the elements and no marks (its `copied` and the
`after` of InsertRange are recursive functions, by induction over the bucket and the
element).  The counters keep the table from filling up because `resize_delta` makes
room before each insertion.  Walk says that who is due is at or ahead of the
iterator; only insertion moves anything, and insertion ends the walk.  For the
refinement the live entries are a function (Good again), and each operation's
effect on them is the map's.

Induction over numbers is done by the least counterexample (LeastElement): a set of
numbers at which a claim fails, if it is not empty, has a least one, whose
predecessor is not in it.  Recursive functions, of which the prover knows only that
they are some function with their equation if there is one, are first shown to
exist and to be unique in this way (FlattensToExist, PowersUpToAgree and the like).

For the lookup, LookupInv keeps `high` at 0 or more although it is an unsigned
number from which 1 is subtracted, in a whole table and for a message that is not
before its first: then the middle is not the first place when the search goes
on below.  The sum of `low` and `high` stays below the range of the numbers
because an entry takes eight bytes.  Of other searches nothing is claimed but their types.

KeysComeBack of the padded packets: PacketsInv says that the last packet can be read
with its own hash and that the engine is ready for the next one - its input block
empty, its output block with room for five dwords, so that neither grows and loses
a key.  A packet has two or three keys, so the loops of encode and decode are unrolled:
EndsApart places the ends of the keys at 8 to 46, and each 4 to 42 behind the one
before, whatever the hash; so a key that is stored leaves the earlier ones alone
(StoredIs), the header, in the first three bytes, none of them (HeaderIs), and what
the first five of the six times wrote does not matter (WrittenOverIs).

## 6. What is only model-checked

Liveness (IterateReturns, StoppedIsLetGo, HighestRuns, NothingHangs, TriesAgain,
CallsReturn) needs ENABLED, which the prover does not handle.  Path finding, the
distance map and the ciphers (RoutesAreCheapest, DistancesAreExact,
CiphersAreStandard, CiphersComeBack) are compared with their references on the
bounded inputs of the runs: most of their definitions are recursive operators, in
modules that the prover has no arithmetic for.

## 7. What is not modelled, and why

State 1.3 of the connection is only set by a plugin that is not in the repository;
the branch that sends an encoded password moves no state; both are left out, as
are the hooks by which plugins may replace a connection, and the proxy modes.

Packet formats, file formats and tables are computations on data without
interacting state.  The four ciphers of the padded packets that only mix in one
direction (Snefru, RIPEMD-128, Tiger, SEAL) are left to the constant `Funcs`:
nothing depends on what they return.  AI heuristics, the user interfaces and the
macro language are large and are seen by the models only through what they call.
XKore and the Windows parts depend on code injection.  Vendored modules
(`src/src/deps`) are not part of the program.

## 8. Plan

In this order:

1. `ActorList` and `InventoryList` over `ObjectList`: the ID map and the name
   index that change events keep up to date; clear; a proof that the views of
   the list agree.
2. `WithSubtask` with Chained, ErrorReport and Timeout, a parent and its
   subtask, composed with the scheduler's calls; proofs of the status and
   mutex relations between the two.
3. Task state machines: Wait and SitStand with interruption times, Raise,
   UseSkill; their timeouts against the connection, which clears them.
4. The AI queue.
5. More proofs: for each of these modules, the types and the invariants.
