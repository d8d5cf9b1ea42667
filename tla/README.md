# A TLA+ model of prosperity's kernel and host threads

prosperity runs PS4 and PS5 titles on a host machine. The guest's code runs on
host threads; what the guest takes for its kernel is `delta/kern`: one emulated
process, its address space, and a system-call layer (`lv2/`) written against
FreeBSD 9 and Sony's extensions. Around the guest run threads of the emulator:
the vblank pump, the display thread, the PS4 render thread and the presenter, the
PS5 label publisher, and the launcher with the user interface, which pause and
stop all others. Titles depend on these parts for every thread they synchronise,
every page they map and every frame they show, and what is hard to get right in
them is exactly what a unit test hardly reaches: a userland compare-and-swap
between the kernel's load and its swap, a signal between the release of one
bucket lock and the next, a session stop in the middle of a wait, a mapping
replaced while its physical pages are released, a label reset before anybody
looked at it.

This directory holds TLA+ modules for those parts, TLC runs on small instances
and TLAPS proofs for every size.

## 1. Inventory

| component | state | operations | what is hard | what makes it correct |
|---|---|---|---|---|
| umtx wait queues, `sys_thread.cc` | per address: FIFO of `SimpleWaiter` | WAIT, WAKE, NWAKE (ops 2, 11, 15, 3, 16, 21) | waiters on the stack, wake against deadline, words stored without a wake, counts narrowed to int | a queue links exactly the live waiters; wakes go in arrival order; a spent wake is reported as one |
| umutex | word (owner, CONTESTED), `mutex_waiters`, `gen` | ops 4, 5, 6, 17, 18, 23 | userland swaps without the bucket lock; the kernel's load and swap are two steps | exclusion; exact count; a sleeper is always announced or told |
| ucond | `c_has_waiters`, `waiters`, `signals`, tickets and cutoff, `gen` | ops 8, 9, 10, 22 | two buckets, never both locked; signals are counts, not messages | flag up before the mutex drops; a signal reaches a sleeper it was sent to |
| urwlock | state word, blocked counts | ops 12, 13, 14 | waiter bits shared with userland | exclusion; no stale WRITE_WAITERS; progress |
| usem | `_has_waiters`, `_count`, `gen` | ops 19, 20 | userland posts between flag and sleep | nobody sleeps while there is a unit and no post on its way |
| event flag, `sys_event_flag.cc` | bits, queue of `Waiter`; registry of names | wait, trywait, set, clear, cancel; create, open, delete, close | set commits waits before their threads run; the host sets by name without a reference | no missed wake; a commit is final; a cleared bit is taken once; a name leads to a live flag |
| osem, `sys_semaphore.cc` | registry of names; count, ceiling, waiters | create, open, delete, close, wait, trywait, post, cancel | int overflow, competing needs, delete against calls in flight | count in range; names lead to live handles; sleepers served |
| ksem, `sys_ksem.cc` | registry id and name to object, values | init, open, unlink, post, wait, timedwait, trywait, getvalue, destroy | pointers used outside the registry lock | no use after free; names resolve |
| object table | handles, reference counts | add, get, release, reset | growth by realloc, close against use | no dangling handle |
| pipes, `pipe_dev.cc` | bytes, two ends, O_NONBLOCK | read, write, close, fcntl | an end destroyed by the last call on it; small writes whole | bytes in order; end of file final; no call blocked on what is there |
| event queues, `sys_event.cc` | knotes, registry, end-of-pipe and flip counts | kqueue, kevent, close; pump, interrupts, flips, socket watcher | trigger against re-registration; three nested locks | the registry names live queues; Gnm events follow the GPU; waiters come back |
| memory map, `vm_map.cc`, `sys_mem.cc` | disjoint `PageInfo` list, host pages | mmap, munmap, mprotect, release of direct memory | list and host pages change in different critical sections | disjoint; behaves as a page table; stale pointers detached |
| direct memory, `ps4/dev/dma_dev.cc` | sorted reservations | allocate, free, largest hole | alignment, windows, exact fits, splits | sorted and disjoint; first fit; reported hole can be had |
| session, `shared/guest/session.*`, launcher | `g_stopping`, `g_live`, thread handles | begin, request stop, spawn, join, resets | threads that make threads while joined; stops from three sides | every handle joined; nothing reset under a thread; waits end after a stop |
| pause gate, `shared/guest/pause.cc` | `g_paused`, registered threads | gates, SIGUSR2, SetPaused, PollPause, the menu | a signal that finds a thread between gate and guest; futex against stop | no thread runs under the menu; a stop reaches every thread |
| display, `shared/guest/display.cc`, `dce_dev.cc` | queue of flips, rate, last flip, counts | submit, complete, wait, set rate | completion against stop; counts taken back | pending exact; no late write to a stack; one flip per vblank; calls return |
| PS4 render queue and presenter | ring, draw slots, pending writes, lent frames | push, drain, read back, present, stop | untimed sleep; slots reused; loan across threads | commands in order; the walk reads what it wrote; lent buffers left alone; nothing hangs |
| PS5 completion labels | held writes, batches, parked waits | publish, wait, park, poll | a wait for a label held behind the waiter's own batch | labels in order, after their bytes; waits end |
| AIO, audio, logger | queues | submit, poll | completion order | planned |
| loader, VFS, IPMI, devices, CPU, formats, shaders, UI drawing | images, tables, translations | parsing, translation, I/O | mostly data | out of scope, see section 8 |

How they interact. Guest threads call the system calls concurrently. The umtx
operations on one address share a hashed bucket (a mutex and a condition
variable); a mutex, condition variable, semaphore or rwlock word lives in guest
memory and libthr, which is guest code and not part of the repository, changes it
by compare-and-swap without any kernel lock. CV_WAIT releases a umutex on its way
to sleep. `DmemFree` calls `VmMap::RemoveDirect` under the allocator's lock, and
`sys_mmap` asks the device for the host pages and then tells `VmMap`. A walk of
PS4 commands pushes to the render thread, which lends finished frames to the
presenter; a walk of PS5 commands issues labels that its publisher writes and
other queues and the title's CPU wait for. Flips completed by the display thread,
interrupts and the pump trigger knotes. The presenter runs the user interface,
which pauses the guest and asks the main thread to stop the session. Every
blocking loop of the kernel polls `guest::Stopping()`.

`PROJECT.json` lists every component, the hazards at their source lines, and
for each definition the lines it models.

## 2. Modules

| module | models | composes |
|---|---|---|
| `UmtxQueue` | simple WAIT, WAKE, NWAKE | |
| `Umutex` | the six umutex operations and libthr's half | |
| `Ucond` | the condition-variable operations | extends all of `Umutex` |
| `Urwlock` | reader/writer lock and libthr's half | |
| `Usem` | semaphore words and libthr's half | |
| `EventFlag` | one event flag | |
| `ObjectTable` | handles, their table and reference counts | |
| `FlagRegistry` | names and handles of event flags | extends `ObjectTable` |
| `Semaphore` | the osem calls, their registry, int arithmetic | extends `ObjectTable` |
| `KSem` | the ksem registry and its semaphores | |
| `Pipe` | both ends of a pipe | |
| `Equeue` | event queues, the threads that trigger them, their locks | |
| `VmMap` | interval list, host backing, system calls | instance of `PageTable` as its abstract specification |
| `PageTable` | what the guest may assume of its address space | |
| `Dmem` | direct-memory allocator | instance of `FramePool` as its abstract specification |
| `FramePool` | what a title may assume of direct memory | |
| `Session` | threads, pause gate, launcher, pause menu | |
| `Display` | paced flips of both consoles | |
| `Presenter` | the thread that shows frames | |
| `RenderQueue` | the PS4 walk, its render thread, stop and restart | extends `Presenter` |
| `AgcLabels` | PS5 labels, their publisher, the waits of the queues | |
| `UmtxWords` | | sum of `UmtxQueue`, `Umutex`, `Urwlock`, `Usem` |
| `Sessions` | | sum of `Session`, `Semaphore`, `FlagRegistry`, `KSem` |
| `FlagPipe` | | sum of `EventFlag` and `Pipe` |
| `Memory` | | sum of `VmMap` and `Dmem` |
| `Events` | | sum of `Equeue` and `Display` |
| `Gpu` | | sum of `AgcLabels` and `RenderQueue` |
| `Ucond_proofs` | theorems about `Umutex` and `Ucond` | extends `Ucond` |
| `AgcLabels_proofs` | theorems | extends `AgcLabels` |
| `UmtxWords_proofs`, `Sessions_proofs`, `FlagPipe_proofs`, `Memory_proofs`, `Events_proofs`, `Gpu_proofs` | theorems about the parts and about the sum | each extends its sum |
| `MC*` | constants for TLC | |

`UmtxWords`, `Sessions`, `FlagPipe`, `Memory`, `Events` and `Gpu` are sums:
components that share no state but the stop, and a variable (`used` or
`console`) that is chosen in the initial state, never changes, and says whose
behaviour it is. A sum has exactly the behaviours of its parts. Where it joins
their fairness conditions in one formula, this is the same assumption: a
behaviour enables only steps of its own part, and where a thread is in its call
decides which of its actions can be enabled.

Each `X_Suffix` operator next to a definition `X` is a mutant: the definition as
a plausible mistake would have written it. `PROJECT.json` names, for every
property of a passing run, the mutant that violates it. Nothing else uses them.

### Granularity

A section of code under one mutex is one action, because nothing else touches
the state that mutex protects. It is split where that is not so: ops 17 and 18
load a word and swap it later while userland may swap in between (the model
keeps the bucket locked across both actions); op 18 and op 17 look at the word
before they lock; CV_WAIT drops one bucket lock to take the other; a ksem call
looks its pointer up under one lock and uses it under another; `sys_mmap` and
`sys_munmap` change the host pages and the list one after the other; in `Equeue`
a section that takes a second lock keeps the first in a variable; in `Session`
every test and store of the two flags is a step of its own, and so is the futex
call. Compare-and-swap loops that retry until decision and word agree (ops 5, 12,
13, 14) are one action: the retry is a stutter.

A condition variable's `WaitFor` returns when notified or when its tick is over.
In `Umutex`, `Ucond`, `Urwlock` and `Usem` a NotifyAll is recorded per sleeper, so
that what the tick hides can be seen: progress is stated without it. The render
thread's sleep has no tick and is modelled with its lock. In the other modules
a sleeper may look again at any time.

### State and code, module by module

* `UmtxQueue`. `queue[a]` is `simple_head..simple_tail` of the channel of `a`,
  `selected` the flag of the `SimpleWaiter` on the caller's stack. `WaitBegin`
  queues and tests; `WaitAgain` and `WaitTimeout` are the two exits, in the
  order of the code: the loop condition first, the deadline only if it holds.
  `Budget` is the narrowing of WAKE's u64 count to int.
* `Umutex`. The word is owner and CONTESTED. `gen` is compared only with
  a snapshot of itself and is kept as one flag per sleeper (`moved`).
  `protocol`, chosen at the start, is the way libthr uses the mutex: `normal` (contested release
  leaves CONTESTED, then op 18), `unlock2` (PS5: the release leaves 0, then op
  23), `pi` (contested lock and unlock in the kernel, ops 4, 5, 6). libthr never
  calls op 5 on a mutex it owns, nor op 6 on one it does not own, so the
  recursion and EPERM answers do not occur.
* `Ucond`. A ticket is compared only with the cutoff and is kept as
  `covered[t]`, `my_ticket < signal_cutoff`: a signal that is counted moves the
  cutoff past everybody who has a ticket by then. `use`, chosen at the start,
  says whether ucond and umutex share a bucket and which wakes the guest uses.
  A stopped waiter returns EINTR and stays counted, as in the code.
* `Urwlock`. `st` is the state word by fields; `prefer`, chosen at the start, is
  URWLOCK_PREFER_READER. A thread back from its sleep
  first leaves its blocked count, then looks at the word.
* `EventFlag`. Patterns are sets of bit numbers. `Commit` is the loop of `Set`
  over the queue (`CommitLoop`): each waiter sees what the ones before it left.
  `TryWait` and `Grace` are the poll that turns into a bounded wait when the
  polling thread made the last set. `HostSet` and `HostClear` are the set and
  clear by name that host subsystems use. `out` is what the last step returned.
* `ObjectTable`. `table` is `table_`, a function on the slots below `cap`. A handle
  is kept as its slot. `Add` is `Add` with `FindSlot` and `Resize`: the probe goes
  round the table from `last_free_entry_` and leaves slot 0 out, a full table
  doubles. `Reset` runs when the threads are joined, so that the table's
  references are the last ones.
* `Semaphore`. A call is `FromId` (the reference is taken), the operation under
  `m_`, and `Drop`; the last reference goes on to `Destroy`. Create is two
  steps, because the object is in the table before its name is registered; open
  looks the name up in a section of its own; delete takes the name away first
  and the handle next. The int fields have `2 * IntHalf` values and `Plus` wraps the
  way the compiled addition does. `NextSession` is what `Launcher::Stop` does to
  registry and table. Two assumptions about the guest: it uses an id after the
  call that made it has returned (`FromId`), and it deletes a semaphore once
  (`SoleDeleter`). Without the second, a late delete of a stale id releases
  whatever object took the slot; nothing in the code prevents it.
* `KSem`. Ids are never reused, so an id stands for its heap object. `FromId`
  hands the pointer to the caller; the next action uses it. `ksem_close` changes
  nothing and has no action.
* `FlagRegistry`. `byName` is `g_ef_by_name`, a map from names to raw pointers.
  Create and open put the flag into the table and register its name in two
  sections; delete erases the name and then the handle; `HostSet` reads the map
  under its lock and uses the pointer there. `SoleDeleter` as in `Semaphore`.
* `Usem`. SEM_WAIT's flag and its test of the count are one action: a post
  between them sees the flag raised and wakes, so it may as well come before.
* `Pipe`. Bytes are numbered in the order they are written. `Holders` of an end
  are the calls under way on it; the last of them, or the close, destroys it.
* `Equeue`. A knote is its kind, whether it is active, its number and the
  end-of-pipe count it has accounted for. `job[s]` is what triggering thread `s`
  has still to walk the registry for, one trigger at a time; `out[t]` is the set of
  events a call took out. EV_DELETE erases the first knote of its pair. Interrupts count first and walk later, so
  a completion may be delivered by the re-arm and again by the walk, and the pump
  may post an older flip index than the flip thread; both are in the model.
* `VmMap`. `entries` is `rt_pages_` as a set, `host[v]` what the host has at
  page `v`: a frame of the shared backing file, a private page or nothing.
  `MmapPlace` is `sys_mmap` up to the host mapping, `MmapAdd` its `Add` or
  `AddDirect`; `MunmapFree` and `MunmapRemove` are `sys_munmap`; `ReleaseDirect`
  is `RemoveDirect`. Two guest threads that map or unmap the same pages at once,
  or release frames while another maps them, race in the guest and are left
  out (`NoRival`, `NoneMapping`). A MAP_VOID reservation is a private range of
  protection 0.
* `Dmem`. `regions` is `g_dmem_regions`. A loop over it is a recursive function on
  the number of regions it has passed (`FirstFitLoop`, `HighestLoop`, `HoleLoop`,
  `FreeLoop`), whose step is the body of the loop. `Position` is where the new
  reservation is inserted. Offsets and lengths are numbers that do not wrap: a
  title's offset plus its length stays far below 2^64.
* `Session`. `pc` says where a worker is: in guest code, in a call, at a gate, in
  PausePoint, on its way out. `to` is where PausePoint returns to, which also
  tells a park by signal ("guest") from one at a gate. A signal is delivered at
  any time and does something only in guest code. The main thread and the
  interface (the presenter's thread, or the one of the exit animation) are
  processes of their own. Only the native back end on Linux is modelled;
  `Process::Create` failing in the guest's main thread is left out.
* `Display`. Vblank counts are kept relative to the current one. `hand[t]` are the
  flips a call has still to queue, one on most paths and several in
  `DceCompleteGpuFlips`. `label[t]` is the label on the stack of a PS5 caller: it
  is cleared when the call returns.
* `Presenter`, `RenderQueue`. `w` is the walk, `r` the render thread, `lpc` the
  launcher. The walk's operations (draw, copy, dispatch, end of frame, read back)
  become lists of commands to push and one wait. A "begin" command is two steps
  of the render thread, because BeginFrame waits for the presenter's loan. The versions in `mem`, `dirty`
  and `issued` stand for the contents of a guest range. A session is stopped and
  started at any moment; `option` freezes whether dispatches run on the render
  thread, and the session's budget.
* `AgcLabels`. `held` is the publisher's queue, `walker` the holder of `g_mutex`.
  `landed` and `issued` number the label writes; `need` is the batch a label must
  not overtake. `CpuReset` is the title's processor, which clears a label it has
  seen.

## 3. Runs

| run | size | shows |
|---|---|---|
| `umtx_words` | wait queues: 3 threads, 2 words, 3-bit ints, 1 store; mutexes: 3 threads, all three protocols; rwlocks: 4 threads, 2 readers at most, with and without reader preference; semaphores: 3 threads, 2 units | `WaitQueueInv`, `WakeDiscipline`; `MutexInv`, `Progress`; `RwInv`; `UsemInv`; `WordWaitersLeave` for queues, rwlocks and semaphores |
| `ucond` | 3 threads, a kernel-arbitrated mutex; one bucket with signals, two buckets with signals and broadcasts | `CvInv`, `WakesReachSleepers` |
| `sessions` | threads: 2, with pausing, the menu and a closed window; osem and flags: 2 threads, 2 objects, 1 name, first table of one usable slot, 4-bit ints; ksem: 3 threads, 2 ids, 1 name | `SessionInv`, `GuestObeys`; `OsemInv`, `NameOutlivesOthers`; `FlagNamesInv`; `KsemInv`; `EverySleeperServed` for both semaphores |
| `flag_pipe` | flag: 2 threads and the host, 2 bits, all six modes; pipe: 2 threads, capacity 3, atomic writes up to 2 | `QueueInv`, `WaitsReturnTheirCommit`, `ClearedBitTakenOnce`, `WaitsEnd`; `PipeInv`, `WritesWhole`, `BlockedCallsEnd` |
| `memory` | map: 2 threads, 3 pages, 2 frames; pool of 5 pages | `MapInv`, `StalePointerDetached`, `KeepsPageTable`; `DmemInv`, `KeepsFramePool` |
| `events` | queues: 2 threads, 1 queue, knotes of every kind; flips: 2 threads, both consoles, rates 0 and 1 | `EqueueInv`, `GnmFollowsGpu`; `FlipInv`, `FlipsPaced`; `CallsComeBack` for both |
| `gpu` | labels: graphics and one ring queue, 1 label, 2 writes, 1 batch; render queue: ring of 2, 1 draw slot, 1 range | `LabelInv`, `ParkedSeesWrite`, `WaitsEnd`; `RingInv`, `ReadsCurrent`, `BorrowSafe`, `NothingHangs` |
| `ucond_lost_signal`, `vm_map_remap`, `equeue_locks`, `gpu_label_reset`, `stop_paused` | as above, or smaller | end in a violation, see section 6 |

An invariant `...Inv` is a conjunction of named parts, stated and commented in the
component's module: its type invariant and the facts that relate its pieces of
state. What they add up to:

* `WaitQueueInv`, `QueueInv`: no queue links a record whose thread has left, none
  misses one that waits, no satisfied wait is left asleep. `MutexInv`: one owner,
  exact count, contested words announced. `CvInv`: `c_has_waiters`, `waiters` and
  the mutex follow the sleepers, a pending signal has a taker. `RwInv`: exclusion,
  published waiter bits, none stale. `UsemInv`: whoever sleeps with a unit there
  has been notified or is about to be.
* `OsemInv`: counts in range, `waiters_`, references, handles and names exact.
  `FlagNamesInv`, `KsemInv`: names lead to live objects, no call uses a freed one.
* `PipeInv`: a bounded FIFO, ends alive while used, end of file final. `EqueueInv`:
  the registry is the set of live queues, no walk follows a dead one, no event for
  a flip that has not happened.
* `MapInv`: entries well formed and disjoint. `DmemInv`: reservations sorted and
  disjoint, first fit, the largest hole can be had.
* `SessionInv`: handles kept until joined, `g_live` exact, resets run alone, nobody
  asleep on a lowered flag. `FlipInv`: `pending` and the flip status exact, labels
  written only under their caller.
* `RingInv`: commands run in order from intact slots, at most a frame ahead, one
  owner of the renderer. `LabelInv`: labels land in order, after their bytes.

The liveness properties have the form `[]<>~(stuck)`: since every part that is
stuck would stay so, this says that nobody is stuck for ever. `GuestObeys` has two
parts. While the menu is up no thread stays in guest code. And once a stop is
being joined no thread stays anywhere but in the futex sleep of section 6, as long
as the pause flag stays up.

Bounds, and why they are enough. Three threads give an owner, a sleeper and a
thread that comes in between, which the scenarios of section 1 need. The rwlock
has four, so that readers at the limit and a writer can meet; an event flag's
second actor is the host, so two threads can both be queued when a set comes.
The semaphores have two threads, one of them asleep, half-way through a delete or
in a constructor while the other does anything; two objects and one name let one
take the other's name, and a first table of one usable slot (`InitCap` = 2) makes
the second object grow it. The name is the one opened with a single permit: with
the default ceiling the counts multiply the states and show nothing else.
`MaxStores` bounds the guest's plain stores: one store already distinguishes
a waiter that re-reads its word from one that does not. `MaxCount` bounds the units
posted ahead on a semaphore word. Int widths of 3 and 4 bits put overflow within
reach of small counts. `MaxIds` and `MaxValue` bound ksem ids and values,
`MaxDebt` how far below zero a stop may take a value (ids run out, and a stopped
session may be stuck as section 6 says, so deadlock is not checked in `sessions`;
nor in `events`, where interrupts and flips run out). `MaxWaiters` bounds the
waiter count that stops leave behind.
A pipe of capacity 3 with writes of 2 and 3 bytes has room for part of a write and
not for all of it; `MaxBytes` = 7 fills it twice. Three pages are the smallest
address space in which an entry can be split in two; five pages of pool leave room
for two reservations, a hole between them and an unaligned end. `MapEnd` bounds
the offsets titles map; a direct mapping is therefore at most two pages long in
`memory`, and a direct mapping split in the middle is covered by the theorems
alone. `MaxEop` and `MaxFlips` are 1: what distinguishes orders is whether the
one came before or after a registration. A PS4 title has up to `MaxSubmits` = 3
flips outstanding, one more than the queue takes; two flip rates let a change
come between two flips. Two workers let one make another while it is joined. The
render ring of two commands and one draw slot is full and reused in every
session; six commands are three frames, one more than there are slots; three
commands with two writes put a write, a read and a write-back in every order. One
ring queue and the graphics queue, one batch and two writes of one label give
every order of release, reset, wait and submission; with `MaxWaits` = 2 no address
is given up after three misses, which is not modelled.

Symmetry over threads is used in `memory`, which checks safety only.

## 4. Fairness

A host thread that can run is scheduled: weak fairness of the steps inside a
call and of libthr's retry loop. The owner of a mutex or rwlock releases it,
without which no lock makes progress. A notified sleeper wakes up. In `Ucond`
the release of the mutex and the wakeup compete for bucket mutexes that others
take again and again; a host mutex does not starve a waiter, hence strong
fairness. The same holds for calls and the pump in `Equeue`, for a walk's `g_mutex`
in `AgcLabels`, and for the room in the flip queue in `Display`. The re-poll tick
(2 ms, at most 20 ms, `UmtxTimeout`; 20 ms in `guest::Wait` and `guest::WaitFor`;
5 ms in a pipe) brings every sleeper back to its loop condition: `UmtxQueue`,
`EventFlag`, `Semaphore`, `KSem`, `Pipe`, `Equeue` and `Display` rely on it, which
the code intends ("some guest code publishes its predicate with a plain store and
no wake syscall"). `Umutex`, `Ucond`, `Urwlock` and `Usem` assume nothing of the
tick: their progress properties show that the notifications alone suffice.
Deadlines are never assumed to be urgent; `Semaphore`, `Equeue` and `AgcLabels`
assume that they come in the end.

In `Session` signals are delivered and the interface draws a frame every 16 ms;
neither guest code nor a call is assumed to come back while the session runs. Once
it stops, calls return (the other modules show that their waits end) and guest
code still running makes calls. In `RenderQueue` the four threads are scheduled
and a walk ends; the title need not submit anything. In `Display` time passes; the
title need not flip.

## 5. Proofs

TLC checks instances; the theorems hold for every value of the constants. Where a
component is an instance of a sum, its theorem has two halves: the component's own
specification has the property, and so has the sum that the run checks. The
components' assumptions about their constants are assumptions of the sums, which
TLC evaluates in the runs.

Every invariant the passing runs check is proved, and every action property and
refinement. Hardly any of the invariants is inductive as it stands; for each
theorem below, what the inductive invariant adds and why.

### Words of `sys_umtx_op` (`Ucond_proofs`, `UmtxWords_proofs`)

Mutexes: any finite set of threads, each protocol (`ThreadsAssumption`,
`ProtocolAssumption`, `FreeAssumption`).

* `MutexTyped`: `Spec => []TypeOK`
* `MutexExcludes`: `Spec => []MutualExclusion`
* `MutexCountsWaiters`: `Spec => []WaiterCountExact`
* `MutexChain`: `Spec => []ContestedChain`, which speaks of the protocols other
  than `unlock2`
* `MutexSafe`: `Spec => []MutexInv`, all of them

The inductive invariant is `Typed /\ Owned /\ QueuedIsParked /\ WaiterCountExact`;
`Owned` is exclusion. `TypeOK` by itself is not inductive: `mwaiters \in Nat`
survives a decrement only because the count is exact and the leaving thread is
parked, and the exit of op 5 counts down only if `queued`, which must mean
parked in op 5. So `Typed` leaves the count's range out and `TypeOK` follows.
The count itself goes through the cardinality of the set of sleepers with one
thread more or less. `MutexChain` adds `Announced`: behind an owner, a sleeper
without the CONTESTED bit has had its generation moved, has been notified, or
a notifier is about to. The release that clears the bit does so only with at
most one sleeper left, and moves the generation in the same critical section.
With the PS5 release a sleeper need not be announced (section 6), so
`ContestedChain` and `Progress` leave that protocol out; the other three theorems
cover it.

Condition variables: any finite set of threads.

* `CvSafe`: `CvSpec => []CvInv`
* `SignalReleasesOneUnlessBroadcast`: on a ucond that the guest never broadcasts,
  each CV_SIGNAL sent while somebody sleeps leaves a sleeper that may go. This is
  `SignalReleasesOne`, which the run `ucond_lost_signal` refutes for a ucond that
  is broadcast, with the condition under which the code keeps the promise.

CV_WAIT is a mutex operation as well, so the inductive invariant `CvIInv` contains
the one of the mutex, whose lemmas are stated for the labels of both modules
(`Places`, and `Owned` for exclusion over them). `CondInv` adds `HasWaitersUp`,
`CvWaitersExact`, `PendingSignalHasTaker` and `NoBroadcastSeen`: the generation of
the channel moves only in a broadcast. Without that last part a waiter might leave
without the signal that was counted for it, and the takers of pending signals
could not be counted.

Reader/writer locks, semaphore words and wait queues: any threads (finitely many at
a lock), any limits and int widths.

* `RwSafe` (`RwInv`). What a release leaves in the word depends on
  `rw_blocked_readers` and `rw_blocked_writers`, so they must count the parked
  threads (`BlockedExact`); who may enter depends on the word, so it must account
  for everybody inside, also for a thread on its way to op 14 (`Accounted`). A stop
  makes op 14 leave the word alone: it may then show more readers than there are,
  never fewer, and exclusion survives.
* `UsemSafe` (`UsemInv`). A thread that posts decides by `_has_waiters` whether to go
  to the kernel, so the invariant adds that the flag is raised whenever anybody
  sleeps (`SleepersAnnounced`).
* `WaitQueueSafe` (`WaitQueueInv`). The invariant adds that a thread in WAIT waits
  on an address (`Watches`) and that the `SimpleWaiter` of a thread outside WAIT is not
  selected (`Fresh`). The work is in lemmas about queues in which nobody is
  twice: what Append, RemoveSimple and the prefix WakeSimple releases make of them.
* `WakesInOrder` (`WakeDiscipline`), an action property, from the same invariant.

### Event flags and pipes (`FlagPipe_proofs`)

Any threads, patterns, modes, lengths and capacity.

* `FlagQueueSafe` (`QueueInv`), `WaitsReturnCommit` (`WaitsReturnTheirCommit`),
  `ClearedOnce` (`ClearedBitTakenOnce`). The invariant adds that a committed result
  matches its pattern (`CommittedMatch`). What the loop of `EventFlag::Set` has done
  after `i` waiters (`LoopState`: who is committed, what they took, what is left) is
  shown by induction on `i`. That nobody sleeps on bits that satisfy it is proved for
  flags without pre-asserted bits: a take on a system flag asserts bits again that
  `evf_clear` had removed, and the loop may already have passed a waiter for them. The
  rest of `QueueInv` and the two action properties hold of every flag.
* `PipeSafe` (`PipeInv`), `WritesAreWhole` (`WritesWhole`). That end of file is final
  needs `WriterGone`: a read that has decided on it has seen the writing end gone,
  and by `EndHeld` neither a descriptor nor a call can bring a byte any more.

### Sessions and named objects (`Sessions_proofs`)

Any threads, workers, names and bounds.

* `SessionSafe` (`SessionInv`). The conjunction is inductive; the resets run alone
  because the handles kept, and so the threads, are exactly those made and not joined.
* `OsemSafe` (`OsemInv`), `NamesOutlive` (`NameOutlivesOthers`). First lemmas about
  `ObjectTable`: a slot and the object in it lead to each other, also when the
  table grows and wherever `FindSlot` starts. A reference count is exact only if an
  address is given out when nobody has it, so the object of a call that is making or
  destroying a semaphore is that call's alone (`Private`); a deletion releases the
  handle it was given some steps before, so until then that handle means its object
  and no name (`Leaving`). `CountInRange` adds that a semaphore starts, and is set
  back, within its ceiling (`Sound`), with the arithmetic of `Plus`.
* `FlagNamesSafe` (`FlagNamesInv`), over the same table lemmas: a registered flag
  carries its name, and the host, which has no reference, finds none that is freed.
* `KsemSafe` (`KsemInv`). The invariant adds `Unreachable`: a semaphore is in the
  maps, about to be deleted by exactly one thread, or gone, and a thread has
  a pointer exactly while it is in a call. That is what the two critical sections of
  `ksem_destroy` need: between them no `FromId` can find the semaphore again.

### Memory (`Memory_proofs`)

The map, for any number of pages, frames and threads and any protections
(`SizesAreNat`, `ProtNone`):

* `EntriesWellFormed`: `Spec => []TypeOK`
* `EntriesDisjoint`: `Spec => []Disjoint`
* `MapSafe`: `Spec => []MapInv`, the two together
* `ImplementsPageTable`: `Spec => KeepsPageTable`
* `StalePagesDetached`: `Spec => []StalePointerDetached`

The inductive invariant is `TypeOK /\ Disjoint`. Disjointness needs the type
part, because a piece of an entry lies inside it only when the entry is not
empty. The core lemmas say what `Cut` leaves of one entry: pieces inside the
entry, outside the hole, disjoint from each other, reading as the entry did.
From them the punched list is disjoint, and read as translations it is the old
reading without the pages of the hole. `RemoveDirect` needs disjointness a
second time: the ranges it punches are computed entry by entry and must not cut
a neighbour. The refinement maps `entries` to the set of pairs of page and
frame; every action is a step of `PageTable` or changes nothing. For the stale
pointers the invariant adds that calls under way are on pages of their own
(`CallsApart`, from `NoRival`) and that under a `sys_mmap` on its way to the list
the host already has what the entry will say (`PendingBacked`).

The allocator, for a pool of any size and any lengths, alignments, windows and
memory types (`PoolAssumption`):

* `DmemSafe` (`DmemInv`)
* `ImplementsFramePool` (`KeepsFramePool`)

The inductive invariant is only that the list is typed, sorted and disjoint
(`Listed`). What the searches answer follows from it in each state: for each loop
a lemma says what its state means after `i` regions. The first fit search has passed
no offset on the grid that would do (`NoneBelow`); the walk for the largest hole
remembers a free stretch, and nothing larger starts below its candidate (`Walked`).
So the search for the highest hole, which runs when the first fit has failed above
`kDmemBase`, never finds one, and an answer of DmemLargestHole can be had. Insertion
and release are described by the pages they hold (`Inserted`, `FreeIs`), which gives
both the invariant and the steps of `FramePool`.

### Event queues and flips (`Events_proofs`)

Any threads, queues, argument sizes, interrupts and flips, both consoles.

* `EqueueSafe` (`EqueueInv`), `GnmFollows` (`GnmFollowsGpu`). The inductive invariant
  has seven parts. The registry is exact because a queue is in it while it is open
  or some call holds it (`Registered`), because the destructor inside `sys_close`
  runs with the last reference (`CallsHold`), and because a thread with queues left
  to visit holds `g_eq_reg_m` (`WalkHolds`), which the destructor takes. Flip events
  are never ahead of the flips because no knote, no collected event and no trigger
  on its way is (`NotesGood`, `OutDone`, `JobsFit`). `NotesGood` also says that a pair
  has one knote, which Erase and Register keep through lemmas about lists of knotes
  that are mapped, appended to and shortened. A Gnm knote that a step makes active was
  reached by a trigger of the GPU's, or was behind the count when a call re-armed it.
* `FlipsCounted` (`FlipInv`), `FlipsArePaced` (`FlipsPaced`). The counts need what the
  display thread and the calls have in hand at each place (`AtWork`, `Hands`).
  A label is safe because the flip a call waits for is its only one and is told when
  the call gives up (`Told`). Flips are paced although a flip of mode 2 sets the last
  vblank back, because the queue takes two: a flip of mode 1 still to come is then
  the newest one in it (`Newest`).

### The GPU's threads (`Gpu_proofs`, `AgcLabels_proofs`)

* `RingSafe` (`RingInv`), `ReadsAreCurrent` (`ReadsCurrent`), `LoanSafe` (`BorrowSafe`):
  any ring, draw slots, ranges and budgets. The invariant has two halves. `Control`
  holds always: where each thread is and what that says of the counters. `Live` is
  what the waits keep (the ring holds the commands from `tail_` to `head_` in their
  places, draw slots are kept until their draw has run, "begin" and "end" alternate,
  a pending write has a command that has not run, a lent buffer is nobody's target).
  A stop cuts the waits short, so `Live` is claimed while the session is not stopping,
  and SessionReset, which finds the queue empty, establishes it again. Positions in
  the ring are compared through a lemma about remainders.
* `LabelsSafe` (`LabelInv`), `NoWriteMissed` (`ParkedSeesWrite`): any labels, rings and
  bounds (`BoundsAssumption`). The order of the labels rests on one count, `Numbered`:
  the writes issued and not landed are those held plus the one a walk has in hand less
  the one the publisher has just stored. It needs `OneWriter`: a walk has a write in
  hand only while none is held. `BytesAwaited` carries the wait for a batch from the
  moment a write is held to the moment it is made. For the parked rings, `NotMissed`
  says for each point of a ring's check what is known of a label that reads 1, and
  `LastWrite` that only a reset comes between a held write and the end of its turn.

### How loops are proved

The loops of `EventFlag` and `Dmem` are recursive functions on the number of
elements passed. The induction theorems of the library take an operator as
a parameter and cannot be used here. Instead `UpTo` shows by a least counterexample
(`WFMin`, over the well-founded order of the numbers) that a set of numbers which has
0 and is closed under successor has every number up to `n`, and each induction
states its claim as membership in a set. That the recursive function exists at all is
proved the same way (`Iterates`).

### What stays with TLC

Liveness under fairness and anything with ENABLED: `Progress`, `WordWaitersLeave`,
`WakesReachSleepers`, `EverySleeperServed`, `WaitsEnd`, `BlockedCallsEnd`,
`CallsComeBack`, `NothingHangs` and `GuestObeys`. And, being sentences the code does
not keep, the properties of section 6. For a system flag with pre-asserted bits
`NoMissedWake` is not claimed by a theorem.

## 6. Where comments and code part ways

| run | sentence | what happens |
|---|---|---|
| `ucond_lost_signal` | "release one waiter" (`sys_thread.cc:1156`) | a broadcast leaves a counted signal behind, which makes the next signal a no-op |
| `vm_map_remap` | "every VA mapping a physical offset maps this fd there" (`ps4/dev/dma_dev.cc:84`) | a release between the host mapping and its record puts private pages over the new mapping |
| `equeue_locks` | "a synthetic 60 Hz tick keeps them from blocking forever" (`sys_event.cc:55`) | kevent on a socket, close of another queue and the pump wait for each other's locks, and the tick stops |
| `gpu_label_reset` | "a write that satisfies a parked wait is remembered for it" (`ps5/cmd_processor.cc:178`) | the label is read again after the write; a CPU reset in between hides it |
| `stop_paused` | `StopsPausedGuestAndStartsAnotherSession` (`cpu/tests/guest_pause_test.cc:205`) | a stop between PausePoint's test and its FUTEX_WAIT wakes nobody; the thread sleeps and JoinThreads never returns |

Also met while modelling, and not kept as runs:

* "A blocked waiter holds s->m" (`sys_ksem.cc:205`). It does not: the condition
  variable released it, so `ksem_destroy` deletes a semaphore under its sleeper.
  With `DestroyInUse` set TLC finds `BlockedWaiterKeepsSemaphore` violated;
  `sessions` has guests that destroy only idle semaphores.
* "Let its entry gate observe stop" (`session.cc:66`). When the window is closed,
  `PumpEvents` lowers the pause flag (`window_sdl.cc:1203`), also after
  `RequestStop` has raised it, from the presenter's thread or from the exit
  animation while `JoinThreads` runs. Gates then let their threads through, and
  a thread that makes no call that fails goes on. `JoinEnds` is violated for
  `UserActs = {"close"}` as well.
* A signal that arrives between a gate and guest code is ignored (`pause.cc:55`).
  Under the menu the next frame sends another one; after a stop nobody does, and
  a thread that then spins without a call is not stopped. The fairness of
  `Session` assumes that guest code makes calls.
* "the word stays CONTESTED while waiters are queued" (`sys_thread.cc`,
  MUTEX_WAKE). The PS5 release stores 0; a thread that takes the word first makes
  op 23 wake nobody, and the sleeper waits for the re-poll tick. Without
  its exception for `unlock2`, `ContestedChain` is violated.
* "A signal releases a sleeper QUEUED WHEN IT WAS SENT" (`sys_thread.cc`,
  `WaitChan`). One cutoff serves all signals: a second signal entitles late
  waiters to the first. It takes four threads.
* "`sticky` bits are re-asserted after every clear" (`sys_event_flag.h:63`). They
  are after a take, not after `evf_clear`.
* "evf_open(name) finds the one evf_create(name) made" (`sys_event_flag.cc:44`).
  Deleting a flag erases its name even when a newer flag of the same name has
  taken it, so a later open makes a third flag. `evf_close` deletes the flag for
  everybody who has it open; two concurrent closes of one handle may release
  whatever took its slot (`SoleDeleter`).
* `osem_post` at the default ceiling 0x7fffffff: the int sum in the ceiling test
  wraps and the test passes. `CountInRange` is stated for ceilings that leave
  room for the amounts; without that condition TLC finds it violated with
  a ceiling of `IntHalf - 1`.
* "creating on first open gives producer+consumer a shared one"
  (`sys_semaphore.cc:168`). Two opens of an unknown name may both miss it; each
  makes a semaphore, and the later registration hides the earlier one.
* "Wake every waiter with EINTR" (`sys_semaphore`, cancel). A waiter the new count
  does not satisfy sleeps on.
* "a knote compares so none is lost" (`sys_event.cc:182`). The comparison is made
  once, when a call that asks for events comes in. A registration that asks for
  none clears the active flag and compares nothing, so a thread already asleep on
  the queue does not hear of the interrupt until the next one: TLC finds
  `NoEopLost` of `Equeue` violated. A user or flip knote that is registered
  again while active loses its event for good.
* "Renderer state belongs to one thread at a time" (`render_queue.h:11`). A Drain
  cut short by the end of the session returns with commands still running;
  `RingInv` makes the claim up to the stop (`OwnExclusive` against `OwnsRenderer`).
  A Claim cut short the same way may overwrite a slot. The ring may then wrap over
  a "begin" that has not run, and its "end" runs without the wait for the loan:
  `BorrowSafe` is claimed up to the stop as well. An attempt to prove it up to the
  presenter's own stop showed the difference; TLC finds the behaviour with a ring
  of 2, one draw slot and 9 pushes.
* "copies out of it, under the lock" (`present.h:52`). The presenter shows a lent
  buffer outside the lock; the loan is what protects it (`BorrowSafe`).
* A wait on a PS5 label that has a held write of unknown data is turned down, and
  a CPU reset before the poller's next look hides the value, as in
  `gpu_label_reset`.
* "serve it from the system band, which is below every window"
  (`ps4/dev/dma_dev.cc`). The search starts at `kDmemBase`, above the band.

## 7. Plan

Done: the synchronisation core with the semaphore words; the object table under
semaphores and event flags; pipes; event queues; the memory map and the
direct-memory allocator with their abstract specifications; sessions with the
pause gate; paced flips; the threads behind the two GPU front ends; theorems about
all of them, for every safety property the runs check.

Next, in this order:

1. The start handshake of `thr_new`.
2. `Dmem` composed with `VmMap`: a frame is never mapped by two reservations.
3. An abstract specification of the object table: a handle resolves to the object
   it was given out for, or to nothing.
4. AIO, the logger's queue, the audio daemon's ring.
5. The inline path of the PS4 renderer, and the stop of the label publisher.

Each comes with its theorem. For the second the invariant would join `Listed` of the
allocator with the one of the map.

## 8. Not modelled

Most of the source by lines is the translation of shaders and GPU commands
(`gpu/gcn`, `gpu/ps5/rdna`, `gpu/render`): pure functions of large bit patterns
into SPIR-V and Vulkan calls. They have no order of steps to get wrong, their
inputs cannot be enumerated in the small, and a model of them would be the code
again. The same goes for file formats, the loader, the virtual file system, IPMI
stand-ins, the CPU back ends, the host layer and the drawing of the user
interface: parsing, tables and I/O. The map therefore covers a small share of the
repository's lines, and a large one of the lines in which threads meet.

Of the modelled components: the start handshake of threads, priorities and
affinity; shared memory objects, names of ranges, the choice of an address for
a hint the host cannot grant, the notices to caches above the kernel, and the u64
wrap of offsets near 2^64; the registry reset of ksem; event ports; `Keep`,
`Purge` and `dup` of the object table; the FEX back end and other hosts than Linux
in `Session`; the PS4 renderer without its thread, device faults and `WaitForFrame`;
the stop of the label publisher and addresses given up after three misses. AIO and
audio are on the plan. `vendor/` is third-party code.

## 9. Running

    tlc -config MCUmtxWords.cfg MCUmtxWords
    tlc -config MCUcond.cfg MCUcond
    tlc -config MCSessions.cfg MCSessions
    tlc -config MCFlagPipe.cfg MCFlagPipe
    tlc -config MCMemory.cfg MCMemory
    tlc -config MCEvents.cfg MCEvents
    tlc -config MCGpu.cfg MCGpu
    tlapm Ucond_proofs.tla
    tlapm UmtxWords_proofs.tla
    tlapm FlagPipe_proofs.tla
    tlapm Sessions_proofs.tla
    tlapm Memory_proofs.tla
    tlapm Events_proofs.tla
    tlapm Gpu_proofs.tla
    tlapm AgcLabels_proofs.tla

and, ending in a counterexample, `MCUcondLostSignal.cfg` of `MCUcond`,
`MCVmMapRemap.cfg` of `MCMemory`, `MCEqueueLocks.cfg` of `MCEqueue`,
`MCGpuLabelReset.cfg` of `MCGpu` and `MCStopPaused.cfg` of `MCStop`.
