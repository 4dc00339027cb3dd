# libshr: a shared-memory queue, specified and checked

libshr (`src/`) is a C library: processes open a queue that lives in a shared
memory file, add items to it and remove them, without any lock. This directory
models its queue in TLA+, checks the models with TLC and proves the most
important results with TLAPS.

    tlc -config Lists.cfg MCShrList          # any row of the table of runs below
    tlapm QueueGatesProofs.tla               # any of the eight proof modules

## 1. The system

A queue is a file mapped by every process that has it open. Its header is an
array of `long`s (`shared_int.h`, `shared_q.h`); behind it follow the index nodes
and data blocks that calls allocate. Everything is changed by single-word atomics
(`AFA`, `AFS`, `CAS`), a double-word CAS (`DWCAS`, cmpxchg16b) and process-shared
POSIX semaphores inside the file.

| part | where | state | operations |
|---|---|---|---|
| lists | `shared_int.c` `add_end`, `remove_front` | HEAD/TAIL and generation of the queue, of the event list and of the pool of free nodes; nodes; `ID_CNTR` | append, take the first, allocate a node |
| memory | `shared_int.c` `expand`, `resize_extent`, `insure_*`, `release_prev_extents` | file length, `SIZE`, `EXPAND_SIZE`, `DATA_ALLOC`; in each process the extents, `current`, `prev`, `accessors` | grow the file, map it again, unmap old mappings |
| data blocks | `shared_int.c` `alloc_data_slots`, `free_data_slots` | one stack of free blocks per size class | allocate, free |
| queue calls | `shared_q.c` `shr_q_add*`, `shr_q_remove*`, `shr_q_clean`, `shr_q_prod` | `ENQ_SEM`, `DEQ_SEM`, `COUNT`, the list, the LIFO stack | add, remove (try, wait, timed), clean, prod |
| options | `shared_q.c` | `FLAGS`, `LEVEL`, limits | discard on expiry, adaptive LIFO, level, CoDel |
| events | `shared_q.c` `add_event`, `shr_q_event`, `shr_q_subscribe` | subscription bits of `FLAGS`, the event list, `EVNT_SEM` | raise, read, subscribe, withdraw |
| signals | `shared_q.c` `signal_event`, `signal_arrival`, `signal_call` | registered process ids, `CALL_BLOCKS`, `CALL_UNBLOCKS` | tell the monitor, the listener, the server of demand |
| delay | `shared_q.c` | `EMPTY_SEC`, `TS_SEC`, `LIMIT_SEC`, `TARGET_SEC`, an item's stamp | CoDel: since when has the queue not been empty, is an item overdue |
| registration | `shared_q.c` `shr_q_monitor`, `shr_q_listen`, `shr_q_call` | a process id and a signal each | register, withdraw |
| lifecycle | both | the file, the tag and version, the semaphores | create, open, close, destroy |
| layout | `shared_q.c` `copy_vector`, `copy_to_buffer` | an item's slots, `BUFFER` | encode, decode scalar and vector items |
| commands | `sharedq/main.c`, `shrq_harness` | none of their own | call the library |

**How they interact.** `shr_q_add` takes a permit of `ENQ_SEM`, allocates a data
block (memory, data blocks) and a node (the pool's list, else new memory), appends the
node to the queue's list, raises `COUNT`, raises events, signals, and posts
`DEQ_SEM`. `shr_q_remove` takes a permit of `DEQ_SEM`, moves the head of the
list, gives the node to the pool and the block to its bucket, lowers `COUNT` and
posts `ENQ_SEM`. Nothing makes two of these steps one.

**What is hard about it.** Any two processes interleave at every memory access; a
process may be killed anywhere and nobody cleans up after it; nodes and blocks are
reused, so that a value read earlier may look unchanged (ABA); words are read in
two loads and compared later; semaphores, counters and lists are changed one after
the other; the file grows while others have a shorter part of it mapped; errors
come from the middle of a call; signals are merged and may come too early.
`PROJECT.json` lists the hazards, each at its line.

**What makes each part correct.**
Lists: no node is lost, shared or in two lists; the list is a queue; every call
returns whoever was killed. Memory: the file is as long as `SIZE` says, and a slot
that was checked is mapped. Blocks: each is queued, free in its own bucket, or with
one call. Queue calls: the places, the rights to items and `COUNT` are accounted for
on every path; waiting removes are served; without LIFO it is a bounded FIFO queue.
Events: a subscription is answered by an event, and none is left unread by a monitor that
was registered. Registration: a process and its signal belong together, and whoever serves blocked removes
hears of each. Lifecycle: a queue is formatted once, and who opened it has a whole header. Layout:
what is read is what was written, and `BUFFER` covers what is queued (a read may need more, section 3). Delay: an item is
discarded by a limit that was in force.

## 2. The modules

| module | models | atomicity |
|---|---|---|
| `AbsQueue` | what a caller may rely on: a first-in-first-out list and a stack, of at most `MaxDepth` items, each given to one taker | one step per call |
| `ShrList` | `add_end`, `remove_front`, `alloc_idx_slots`, `deq`/`fifo_remove` and the gates, for `shr_q_add` and `shr_q_remove`; implements `AbsQueue` | one shared access per step; a double word read without a CAS is two |
| `QueueGates` | all adds and removes, clean, prod, discard, adaptive LIFO; implements `AbsQueue` | one list operation, counter or semaphore per step |
| `QueueEvents` | `add_event` and its callers, `FLAGS`, `EVNT_SEM`, `signal_event`, `signal_arrival`, a monitor and a listener | one access of `FLAGS`, the lists and the semaphores per step |
| `ShrMemory` | extents, growth of the file, size classes, buckets | one shared access per step; a read and the CAS that would fail if it were stale are one |
| `QueueLife` | the name, the files, create (store by store), open, close, destroy, crashes | one look at the name or the file, one store per step |
| `QueueCalls` | registration, `signal_call`, `CALL_BLOCKS`/`CALL_UNBLOCKS`, `shr_q_call_count`, `shr_q_prod`, `sharedq pull`; extends `QueueLife`: on a queue that may be half created, destroyed or replaced | one shared access per step, a list operation is one |
| `ItemData` | the arithmetic of an item's layout, of `shr_q_buffer`, of the idle time | operators |
| `QueueItems` | what a call does to an item's bytes and to the time stamps; the settings of CoDel; extends `ItemData` | one access of `BUFFER`, `COUNT`, a time or a limit per step |
| `MC*` | the instances TLC checks | |
| `ShrListProofs`, `ShrListChains`, `ShrListQueue`, `QueueGatesProofs`, `QueueEventsProofs`, `QueueCallsProofs`, `QueueItemsProofs`, `ShrMemoryProofs` | theorems | |

The layers meet in `AbsQueue`: `ShrList` shows, with one access per step, that a list
operation takes effect at one of its steps (linking, moving the head); this is
what entitles `QueueGates` and `QueueEvents` to make it one step. `ShrMemory` keeps
of the queue only the order of its items. `QueueCalls` needs of the list only its length, `QueueItems`
only its order; both take its operations as one step on the same ground.

### ShrList

A node's first two slots are `word[n]` (`lo` the next node, `hi` the generation), its fourth
is `val[n]`; `head`/`tail` hold the ends of the queue and of the pool. `pc[p]` names the
next access of process `p` and `loc[p]` its C locals. `EndLo`/`EndHi` are the two loads of
`tail_before` (the compiler emits two, on x86-64 with `-O3 -mcx16`), `EndLink` the DWCAS on
the last node, `EndSwing` and `HelpSwing` those on the tail. A failed DWCAS leaves its
expected value alone. `PoolGen`..`Bump` is `alloc_idx_slots`, `DeqHead`..`FifoData`
`deq`, `fifo_remove` and `next_item`. Program and prologue say which calls are made:
the prologue brings a queue, by calls alone, to a state a program reaches.
`Crash` stops a process inside a call. `ID_CNTR` also numbers items in the code;
the only effect here would be gaps in the generations.

### QueueGates

`fifo` and `stack` are the two lists; a call's place is `pc[p]` and the item it
carries `item[p]`. Each form of add and remove has the same labels and differs in what its
gate may do (`EnqGatePass`/`EnqGateLimit`, `DeqGatePass`/`DeqGateEmpty`): *try* gives up
when there is no permit, *wait* does not, *timed* may give up at any time. `Expire(i)`
is time passing the limit of item `i`; `SetOption` switches LIFO or discard at any time.
`DeqBack` is the permit put back when `deq` found nothing, `Dropped` the item that
discard swallows before the remove starts over, `AddFail` the place given back when there is
no memory.

### QueueEvents

The list operations are one step each and are kept as `enqSem`, `deqSem`, `count`. `loc[p].todo` is
the sequence of events a call is still to raise; `RaiseTest`, `RaiseRead` and `RaiseCas` are `add_event`'s two
reads of `FLAGS` (in `event_disabled` and for the exchange) and its CAS, which fails when any bit has changed since the second, and
which succeeds without clearing anything when the second no longer saw the event's bit. `told` and `arrived` are
the pending signals. The monitor is `sharedq_monitor`'s loop, the listener an
application that removes until `SH_ERR_EMPTY`. `subscriptions`, `owed[k]` and `extra[k]` count for the properties: calls of
`shr_q_subscribe` (also bounded), subscriptions not yet answered, and events raised by an exchange that cleared nothing.

### ShrMemory

`fileSize`, `size`, `expandSize` are the length `ftruncate` gave the file, `array[SIZE]` and
`array[EXPAND_SIZE]`; `extents[b]` the sizes a process has mapped, `current[b]`/`prev[b]` indices into
them. `ExpRead` and `Truncate` are the two halves of the `ftruncate` line: reading its
argument, and the call. `Accessing` are the labels at which a thread touches a block, `Reaches` says that the
mapping and the file have the slot; where they do not, `Fault` is the only step and ends the process. `bucket[c]` is the (slot, tag) pair of a size class,
`word[s]` the first two words of the block at `s`, which a free block uses for the link.
`ReleaseHead`..`ReleaseFree` are the accesses of `release_prev_extents` one by one; `Freed` is an extent that was unmapped and freed:
its address may be that of the current extent again (`ReleaseTest`), and its `next` is anything (`ReleaseNext`).
`LookLo`, `LookHi`, `LookNext`, `LookCas` are `lookup_freed_data`; `FreeHi`, `FreeLo`, `FreeCas`
are `free_data_slots`. `blocks`, `free`, `shrunk` and `overtaken` are history, read by properties only: the size of
every block ever allocated, the stack each bucket stands for, whether the file was ever made shorter, and whether an
expansion was ever overtaken (section 3).

### QueueLife

`name` is what `/dev/shm` has under the queue's name, `has[f]` what has been stored in file `f`: `Format` makes the
next store of `CreateOrder`, which is the order of `create_base_object` and
`format_as_queue`. `OpenStat`, `OpenShm`, `OpenMap`, `OpenCheck` are the four looks of `shr_q_open`
(`stat`, `shm_open`, `SIZE`, tag and version); the name may refer to another file at each. The call `attach` is
the open-or-create of the splitter example. `NoQueue` is the error of any call on a queue the process has not open. `sem_init` on a semaphore somebody sleeps on is
undefined; `Format` lets any of the sleepers never wake (`"lost"`).

### QueueCalls

`registered[f]` holds the process and the signal of `shr_q_call`; `RegRead`, `RegCas` and `RegStore` are its three
accesses (and those of `shr_q_monitor` and `shr_q_listen`, which differ in the words they use). `Look` reads one of the
four words that `is_call_monitored` and `signal_call` read before they
use the pair a third time. `RemoveBlocks`..`Unblock` is `deq_gate_blk`/`deq_gate_tm`. The call `pull` is
`sharedq_pull` from a terminal: register, `CallCount`, `Prod`, then `Serve` one signal after the other.
`history` is read by `PairTogether` only.

### ItemData and QueueItems

An item is the sequence of its entries' lengths; a block is the number of its slots, and the operators say
at which slot the writer puts each entry (`WrittenAt`), where the reader looks for it (`Entries`, over the words
`LengthAt` finds there), what a caller's buffer must hold (`Needed`) and what the
queue asks for (`Asked`). `QueueItems` runs the calls on them: `BufferRead`/`BufferCas` is `update_buffer_size`,
`StampClock`..`StampCas` `update_empty_timestamp`, `ClearRead`/`ClearCas` `clear_empty_timestamp`,
`Flag`..`Overdue` `item_exceeds_delay` and `item_exceeds_limit` with each read of a
limit at its own step. `seen` and `outcome` are the history `JudgedByDelay` reads.

## 3. What is checked

| run | result | what it shows |
|---|---|---|
| `Lists` | pass | three processes with one call each, or two with two, one of them killed at any step, nodes running out; and a remove that sleeps while its head node leaves the queue, passes the pool and is the head again: `NodesConserved`, `TailNearEnd`, `ItemsAccounted`, `PermitsConserved`, `AbsQueueSpec` (dropping the generation from the head's comparison breaks it), `EmptyOnlyIfStale` (a remove with a permit misses an item only behind an old head), and `EveryCallReturns` for the living |
| `Gates` | pass | with LIFO, discard and prod switched at any time: every permit (`PermitsAccounted`), `COUNT` and every item (`ItemsDistinct`) accounted for; adds, removes, cleans, discards and failures implement `AbsQueue`; a waiting remove is served |
| `Events` | pass | `SubscriptionsAnswered`, `EventsAccounted`, `EventsDelivered` |
| `Memory` | pass | `SizesFollow`, `BlocksAccounted`, `NoUseAfterUnmap`, `EveryCallReturns` |
| `Calls` | pass | `OneFormatter`, `ReadyWhenUsed`, `PairTogether`, `CallCountCovers`, `PullServes` |
| `Items` | pass | `ItemsReadBack`, `JudgedByDelay`, `MarksForward` |
| `ListFresh` | violated | on a new queue `add_end` can link a node behind the pool's first node after it left the pool |
| `GatesLifo` | violated | two removes that saw the one item on the stack: the second reaches `assert(slot > 0)` |
| `EventsTwice` | violated | one subscription brings two events: `add_event` looks at `FLAGS` twice |
| `EventsListen` | violated | a listener is left asleep with an item on the queue |
| `MemoryShrink` | violated | a late `ftruncate` makes the file shorter than `SIZE` |
| `MemoryRange` | violated | `insure_in_range` returns `SH_OK` for a slot beyond the mapping |

The violated runs each check one sentence of the documentation, a comment or an assertion; the
finding in `PROJECT.json` quotes it. Where a finding's behaviour would disturb every
other property, the passing runs stay outside it, and say so here:

- `ListFresh` needs the pool's first node, primed with generation 0, never to have
  been used. The prologue of `Lists` uses it once, by an add and a remove. Section 4 proves that
  this is enough for any instance, and that nothing else breaks the lists.
- `EventsListen`'s property is about the listener only; `Events` has one too.
- `Events` has the step of `EventsTwice`. `SubscriptionsAnswered` says how far it goes: `extra[k]` counts the calls that raised
  event `k` after a second read of `FLAGS` that no longer had it, and nothing else makes events and subscriptions differ.
  With `extra` left out it would be the promise of the comment (`shared_q.c:552`), and false.
- `NoUseAfterUnmap` leaves out one read: `release_prev_extents` may read `head->next` of an extent that another thread
  has unmapped and freed (`shared_int.c:1306`). What it reads there, or whether it faults, is open in the model
  (`ReleaseNext`); the property says that the exchange after it fails and nothing is unmapped for it.
- Of `SizesFollow`, "the file is as long as `SIZE` says" holds unless the file was made shorter or an expansion
  overtaken (below); the order of `DATA_ALLOC`, `SIZE`, `EXPAND_SIZE` and the mappings holds always.
- Of `BlocksAccounted`, that no two places share a block and no two blocks a slot holds always; that the buckets are
  linked, until the file was made shorter or an expansion overtaken; that no block is lost, until then or until a
  process ended in a fault.

- `CallCountCovers` and `PullServes` are about removes that wait; `PullServes` leaves out a remove that
  does not wait and takes the item that was added for one that does, since it asks for none in return,
  and sleepers lost to `sem_init`. `PairTogether` leaves out registrations that overlap.
- `JudgedByDelay` leaves out a limit that is switched off between the two times `item_exceeds_limit` reads it:
  0 is then the limit, and the item is discarded at any age.

Disagreements with a document, and surprises, that are not a run of their own; the models do as the code does:

- `deq` may compare a head it read with a later tail: when the head has been removed, reused by an add and
  become the tail in between, a remove returns `SH_ERR_EMPTY` although there are items
  (documented: "if q is empty", `shared_q.c:2531`). `EmptyOnlyIfStale` says that nothing else does.
- `set_flag` stops as soon as one of the bits it is given is
  set (`shared_int.c:800`), so `shr_q_subscribe(q, SQ_EVNT_ALL)` does nothing when one event
  is subscribed already (`SetFlag` in `QueueEvents`).
- `shr_q_listen` and `shr_q_call` document `SH_ERR_STATE` for "unregistering and pid does not match"
  (`shared_q.c:1981`, `2034`). The exchange is against the value just read, so any process withdraws or replaces any
  registration (`RegCas`).
- The header is valid before the semaphores and the lists are there: a process that opens the queue
  between the stores of `ENQ_SEM` and of the list and adds reaches slot 0, and aborts (`AddPush`). A
  crash in `shr_q_create` leaves a name that can be neither used nor created again; one that is stopped before it gives the file
  its length lets a process whose `stat` saw an earlier file of that name fault on it (`OpenMap`).
- `shr_q_destroy` unlinks the name, whatever file it refers to by then (`Destroy`).
- There is a second way for `SIZE` to get ahead of the file than the late `ftruncate` of `MemoryShrink`. Process *p*
  passes the test of `expand` that its extent has `SIZE` slots and is delayed before it reads `SIZE` again; *q* expands the file
  meanwhile. *p* then reads the new `SIZE`, wants no more than that, announces nothing, and gives the file the length it has. Now *q* announces
  a further expansion in `EXPAND_SIZE`, and *p*, finding `SIZE` as it was, sets it to that length before the file has it
  (`shared_int.c:655`-`679`). `overtaken` records it.
- `insure_fit` in `realloc_data_slots` never expands the file: a freed block lies below `SIZE` (theorem `ReuseNeverExpands`).
- The permit of `shr_q_prod` stays: a remove it wakes puts it back (`DeqBack`).
- `post_process_deq` overwrites the status: when memory for the copy runs out, `shr_q_remove` returns
  `SH_OK` without a value (`CopyFails`). When the item cannot be mapped it is gone, and `COUNT` and its place stay
  taken (`MapFails`). A vector with a bad entry is refused after its block was allocated (`Alloc`).
- The stamp of the last add may be lost or go back (`LastCas`); `EMPTY_SEC` may be missing while there are items
  (`ClearCas` after another add's `StampCas`).
- `shr_q_exceeds_idle_time` may say yes up to a second early when the limit has nanoseconds (theorem `IdleTime`).
- `shr_q_buffer` may be less than a read needs, because it is the sum of the lengths and a remove copies the
  whole block, which may be of a larger class; the buffer grows then (`Copy`).
- `pull_from_file` adds an item for each blocked remove it finds; only the form from a terminal prods them.

### Bounds, and why they are enough

- `Lists`: two processes with two calls, or three with one, reach every pair of steps of the
  two lists, a third process that helps a dead one's append, and a pool that
  runs dry (`MaxNodes = 4`). Two of these slips were checked to need just these calls: storing the
  tail instead of swapping it, and waiting for the owner instead of helping. In the last program a remove sleeps
  beside eight calls of another process, after which its head node has been through the pool and is the head again.
  584,201 states.
- `Gates`: three processes (an adder, a remover, one that does everything), two
  items, depth 2: full and empty queues, two calls at every gate at once. `MaxProds`
  and the items bound the state. *timed* is *try* or
  *wait* at each step, and is left to the proofs, where every mode is allowed.
- `Events`: depth 1, `Level` 1, so that an add crosses the level and a remove empties the queue, and the calls of two processes
  overlap; two subscriptions, so that one is renewed while the first is being answered, or the flags of two events change below
  each other's exchange (`MaxSubscriptions`). 578,856 states. `EventsTwice` needs depth 2: two adds that find the queue at its level.
- `Calls`: three processes in five scenes (two that create or open, destroy and create again below others, two that pull,
  one that withdraws a registration, two that wait), two files, depth 2, one of the three killed anywhere. A third file or call repeats what these do.
- `Items`: ten scenes of up to three processes. Entries of 1, 3, 4, 7, 8, 9, 16, 17 and 25 bytes are every remainder that
  the arithmetic tells apart, below, at and above one slot and as first and last entry; blocks of 8, 16 and 32
  slots. The clock ends at 1 to 4, limits are 0 to 2, and one process changes them below a remove.
- `Memory`: two processes, one with two threads; four size classes (4 to 32 slots; 48 in the code), of which a search looks at
  three; the prologue frees two blocks of one class, which is what reuse of a block under a sleeping allocation needs.
  `PageSlots` is 16 instead of 512 and the header 4 slots, so that a block or two fill a page. `MaxPages = 7` bounds the file:
  enough for one process to expand twice and begin a third expansion while the other is delayed in its first, which the last of the five
  programs does. 139,698 states. They include a head of `release_prev_extents` that another
  thread has freed, at `ReleaseTest`, at `ReleaseNext` and at an exchange that fails.

Deadlock is checked in `Lists` and `Memory` (`Done` stutters when all calls have returned).
The gates and events may really stop: everybody waiting to add to a full queue, or nobody calling. So may `Calls` (a remove
that waits, a server without signals, a crash) and `Items` (all programs are at their end).

### Fairness

`ShrList` and `ShrMemory` assume `WF(Step(p))` for each process: the scheduler runs every
process that was not killed. No call in these two waits for another, so more is not needed,
and with less nothing would happen. `QueueGates` and `QueueEvents` assume it for calls that have begun; nobody has
to make a call, subscribe, or switch an option. `sem_wait` promises no order, so
only weak fairness is assumed of a waiting remove, in `QueueGates` and in `QueueCalls` (`WF(Work(p))`: a process that was not killed
goes on; neither `Crash` nor the end of a server's input has to happen). Programs are finite there, so a waiter competes with finitely
many calls. `QueueItems` has no liveness and no fairness. `WaitersServed` says that an item and a waiter do not
both stay for ever, unless somebody cleans for ever (a clean borrows the permit).

## 4. What is proved

For every number of processes, calls, items, nodes and crashes, from the
named assumptions on the constants (all evaluated by TLC as well):

| theorem | statement |
|---|---|
| `ShrListProofs!TypeCorrect` | `Spec => [](TypeOK /\ LocalsOK)`: every list step reads and writes nodes that exist |
| `ShrListProofs!Permits` | `Spec => []PermitsConserved`: each permit is in a semaphore or with one call in progress, wherever processes are killed |
| `ShrListQueue!WarmLists` | `WarmStart => (Spec => [](NodesConserved /\ TailNearEnd) /\ [](ItemsAccounted /\ EmptyOnlyIfStale) /\ AbsQueueSpec)`: after one add and one remove, with three nodes or more, no node is lost or shared, the tails stay near the ends, no item is lost or returned twice, and the lists are the bounded FIFO queue |
| `ShrListQueue!Conserved`, `TailStays`, `Accounting`, `EmptyIsStale`, `ListImplemented` | the same five one by one, of any instance, as long as `FreshAgain` does not occur (`Spec /\ []~FreshAgain => ...`) |
| `ShrListQueue!NeverFresh` | `WarmStart => (Spec => [](QueueInv /\ ~FreshAgain))`: what makes `WarmLists` of them |
| `QueueGatesProofs!Accounting` | `Spec => [](TypeOK /\ PermitsAccounted /\ CountAccounted)`: the queue never exceeds `max_depth`, each queued item can be taken, `COUNT` is exact at rest |
| `QueueGatesProofs!TypesHold`, `CountHolds` | its first and last conjunct for themselves |
| `QueueGatesProofs!DistinctHolds` | `Spec => []ItemsDistinct`: an item is on one list once, or with one call, whoever pushes, pops, cleans and discards |
| `QueueGatesProofs!QueueImplemented` | `Spec => AbsQueueSpec`: the calls are the bounded queue of `AbsQueue`, whatever options are switched when |
| `QueueGatesProofs!FifoQueue` | `"lifo" \notin Options => (Spec => AbsQueueSpec /\ [](stack = <<>>))`: without LIFO it is a bounded FIFO queue |
| `QueueEventsProofs!AnsweredOnce` | `Spec => []SubscriptionsAnswered`: a subscription is in `FLAGS`, with one call or one event on the list, whatever is subscribed, withdrawn and raised meanwhile; every other event is one of `extra` |
| `QueueEventsProofs!EventsCounted` | `Spec => []EventsAccounted`: a reader that passes `EVNT_SEM` finds an event |
| `QueueEventsProofs!EventsTyped` | `Spec => []TypeOK`: `COUNT` and the semaphores stay within `0..max_depth` |
| `QueueCallsProofs!FormattedOnce` | `Spec => []OneFormatter`: however many create a queue at a time, one formats the file |
| `QueueCallsProofs!HeaderFirst` | `Spec => []ReadyWhenUsed`: an open queue has its header, and nobody gets past `ENQ_SEM` before the pool is there |
| `QueueCallsProofs!PairsKept` | `Spec => []PairTogether`: registrations that do not overlap leave one call's process and signal |
| `QueueCallsProofs!CountCovers` | `Spec => CallCountCovers`: `shr_q_call_count` never returns less than the removes that are blocked |
| `QueueCallsProofs!CallsTyped` | `Spec => []TypeOK`: no semaphore, counter or result goes below 0, in `QueueLife` and `QueueCalls` |
| `QueueItemsProofs!MarksMoveForward` | `Spec => MarksForward`: `BUFFER` never shrinks, `EMPTY_SEC` goes to a later time or to none |
| `QueueItemsProofs!DelayJudged` | `Spec => []JudgedByDelay`: what is discarded, or returned by a queue that discards, is decided by a limit that was in force |
| `QueueItemsProofs!ReadBack` | `Spec => []ItemsReadBack`: for vectors of any length with entries of any length, an item ends inside its block, `BUFFER` covers what is queued, and a remove finds each entry where it was stored |
| `QueueItemsProofs!ItemsTyped` | `Spec => []TypeOK`: no time stamp is ahead of the clock, no age is negative |
| `QueueItemsProofs!EntriesHaveRoom`, `StridesAgree` | for every length: an entry fits in the room set aside for it, and the reader goes on where the writer did |
| `QueueItemsProofs!IdleTime` | `shr_q_exceeds_idle_time` never says no too late, and says yes less than a second too early |
| `ShrMemoryProofs!SizesHold` | `Spec => []SizesFollow`: no slot beyond `SIZE`, no mapping larger than `SIZE`, the file behind both |
| `ShrMemoryProofs!BlocksHold` | `Spec => []BlocksAccounted`: no block is given to two adds, none is lost, the buckets are linked stacks |
| `ShrMemoryProofs!UnmapSafe` | `Spec => []NoUseAfterUnmap`: no thread works in an extent that another has unmapped, a stale head is one behind and its exchange fails, no extent is unmapped twice |
| `ShrMemoryProofs!ReuseNeverExpands` | the labels of an expansion are reached from an allocation of new slots only |
| `ShrMemoryProofs!MemoryTyped` | `Spec => []TypeOK`: references are places of blocks, extents in use exist, `accessors` counts the calls |

*TypeCorrect.* `TypeOK` is not inductive: a step writes `word[loc[p].slot]`, which is typed only when
that local refers to a node. `LocalsOK` says for each label which locals do. One
lemma per group of actions, then PTL.

*Permits.* Counts the processes that are not idle; a step moves one process in, out, or leaves it
there (`PermitsStep`). `FS_*` facts on finite sets give the change of the cardinality.

*ShrListChains, ShrListQueue.* `ShrList` states its lists as walks along references, and the walks say nothing of a
step in the middle of a list. The invariant says instead that there is a pair of sequences of nodes, a chain for the
queue and one for the pool, which explains the memory (`ChainInv(c)`): each starts at the head, each node refers to the
next and the last to itself, and every allocated node is on one chain, or in the hands of one call, killed or
not (`Separate`). The rest is what makes the exchanges safe. `Generations`: a generation that a last node or a tail has,
or that a process has read in a tail, is in nobody's hands to be stored again, and unless it is 0 the only node that may
still refer to itself with it is the last one; so the pair (slot, generation) that an append has read and finds again at
its link has not changed meanwhile. `Tails`: a tail is the last node of its chain or the one before it, the latter only between
the link and the swing. `Filled`, `Fronts` and `Swings` say what a process knows between its reads and its exchange. Each
step keeps `ChainInv`, of the same chains, of a chain with a node more (the link) or with its first gone
(the move of a head); the step of `ListFresh` is the only one that does not, and `FreshAgain` is the state it starts from: a process about to
link behind a node of generation 0 that another is appending again. `NeverFresh` shows that the prologue rules this out:
the pool's first node gets a generation, and from then on nobody reads a tail without (`NoZero`). The hypothesis of the
other theorems is therefore met, and not met by `ListFresh`, whose prologue is shorter. `QueueInv` adds the accounts of semaphores
and `COUNT` over the length of the queue's chain (`Accounts`) and the items along it (`ItemsOK`); a walk of `ShrList` is shown to be the chain it walks by
looking at the least place where they differ. For `AbsQueueSpec` the step that links is `Put`, the one that
moves the queue's head is `Get`, the end of a remove `Return`, all others stutter.

*QueueGatesProofs!Accounting.* The invariant counts processes by label. Lemma `Moves`: when one process goes from label to
label, the number of processes in a set of labels changes by the difference of its memberships;
`Balance` puts this with the change of the lists' lengths and the semaphores. Then one
lemma for adds, removes, cleans, calls and the rest. `CountAccounted` and
`PermitsAccounted` are inductive together with `TypeOK`.

*DistinctHolds.* `ItemsDistinct` counts, which is not inductive. `Apart` says it with the lists themselves: neither has an item twice, they
have none in common, and what a call owns is in neither and not another's. A call owns its item from `EnqItem` (where the caller brings one
that is not in use) until it is pushed, and from the list until it is returned. Lemma `Distinctly` turns a list without
repetitions into a number.

*QueueImplemented, FifoQueue.* The mapping is `queue <- fifo`, `stack <- stack`, and `given` the item held by a call that
took it. An add's `PushFifo` or `PushLifo` is `Put` or `PutTop`,
taking the first item of either is `Get` or `GetTop`, leaving the labels that hold it is `Return`,
every other step stutters. Without LIFO the stack stays empty (`NoLifo`).

*QueueEventsProofs.* `LocalsOK` says that a call between the second read of `FLAGS` and the post of `EVNT_SEM` still has its event at the
head of `todo`. A successful exchange either clears the flag, and takes one subscription, or had none in what it read, and adds one to `extra`.
`Sums` is `SubscriptionsAnswered` with each set replaced by its number; a step moves one caller (`CountsMove`), and the subscription goes from `FLAGS` to that
caller to the list. `Balanced`, the accounts of the two semaphores and `COUNT`, is there for the types alone:
`COUNT` is bounded because of all calls in progress.

*QueueCallsProofs.* None of the properties is inductive. `Holding` says which file and queue a call works on and that files are
numbered as they are created, so a new file is nobody's; `Formats` that a file being formatted holds
exactly the stores before the next one, and that no other process formats it; `OrderOfStores` turns that into
"header before tag, pool before `ENQ_SEM`"; `Gates` that whoever is past `ENQ_SEM`, and every item, came after it was
initialized. `Counters` is the equation behind `CallCountCovers`: blocks minus unblocks is the number of removes between
their two counters, killed or lost ones too; the first counter read is at most `unblocks` from then on. `Pairs` adds to
`PairTogether` who is halfway. A step on an open queue moves one process and no file (`CallsMove`); a step of create, open,
close or destroy disturbs nobody's call on an open queue, except that a sleeper may be lost (`LifeTyped`, `AsideKeeps`);
each part of the invariant then has one lemma for either kind of step.

*MarksMoveForward.* The exchange compares with `old[p]`, which was smaller when it was read: `Ahead` says that at
`bufferCas` and `stampCas` what will be stored is larger than `old[p]`. `Shapes` keeps the few types this needs.

*DelayJudged.* `Decides` follows a decision from label to label: the limit and the target in force are among those the call has seen; it goes by
the target only if that was set when it looked; at `overdue` there is a limit the item exceeds, or one was switched off. `Noticed` adds a new
setting to what all who decide have seen; `Compare` and `Overdue` turn it into the outcome.

*ShrMemoryProofs.* The five theorems are parts of one inductive invariant, `Inv`.
`Calling` and `Places` say where a thread is and what it found out on the way (a subroutine returns where it was called from; who links an extent
has one that is larger than its process's last). `SizesAgree` is the argument of `expand`: as long as `SIZE` is the one an expansion saw, and no expansion was
overtaken, what it announced is still in `EXPAND_SIZE` and is what it gave the file, so its exchange of `SIZE` stores what the file has.
`SizesFollow` was first stated without `overtaken` and held in the runs of that time; the proof failed at this exchange, and
the failing step is the overtaken expansion of section 3, which the fifth program of `Memory` now makes. `Alone` has two parts. `AloneOK`: from
the moment a thread has found `accessors` to be 1 until it has freed its head, no other thread of its process is in that part; whoever
enters later takes `current`, which is after the head, or reads a head that is not older. `HeadOK`: a head is at `prev` or one before it, because
only one thread at a time moves `prev` and the others of the process hold `accessors` above 1 when it tests again; a head that is equal to `prev` at the exchange was not freed
when its `next` was read. Without the second part the exchange of a thread that was overtaken could not be shown to fail.
`Stacks` puts a block's first word at the position of the block in its bucket; `Held` says what a thread knows in the middle of an allocation or a free.
Its center is the tag: `LookNext` may read a link out of a block that others have taken, used and freed again meanwhile. The tag of a bucket only
grows, so if the bucket is still what it was before (`Unchanged`) nobody has touched it since, and the word read was the link. The steps are treated in four layers, for each action `X`: `XMoves` (what it
does to its own thread), `XMine` and `XKept` (a part of the invariant, for that thread and for the state), `XRest` (the other threads).
All parts but `Calling` were checked by TLC as invariants before they were proved.

*ReadBack, ItemsTyped.* `StridesAgree` and `EntriesHaveRoom` are about one entry, by cases on the remainder. `WrittenAt`, `RoomFor` and
`Entries` add them up by functions defined by recursion: `SumsExist` and `SumsSame` show that there is exactly one such function, `SumsGrow`
that it grows, `SumsOrder` that the larger terms give the larger sum, all by looking at the least place where the claim fails. So
the writer stays inside of what was asked for (`WrittenInside`), each entry is found by its place (`LengthFound`), and the reader
meets every entry (`EntriesFound`). The invariant `LayoutInv` follows an item from the caller to the block, the list and the reader
(`CallInv`, `FileInv`): `BUFFER` covers it before it is linked, and never shrinks (`MarksMoveForward`).

**Only model-checked:**

- everything under fairness (`EveryCallReturns`, `WaitersServed`, `EventsDelivered`, `PullServes`), which is out of the prover's reach;
- the results on `ShrList` for a queue whose pool was never used, with the exception of what `ListFresh` shows: the theorems on its
  lists have `WarmStart` or the absence of `FreshAgain` for a hypothesis.

Every other property of a passing run is a theorem. What a function defined by recursion computes is shown without induction over
data, by the well-founded order of the numbers.

## 5. What is not modelled

- A time as two words: `EMPTY_SEC` and the limits are read by two loads each, a mixture of two times is left out.
- `calloc` and `mmap` that fail outside of a remove's copy, semaphores interrupted by a signal, system calls that fail for want of
  permissions or descriptors, a full queue of signals, and a second reader of the event list (`next_event` does not test the
  successor it reads, `shared_q.c:1331`).
- How long a timed call takes: `shr_q_remove_timedwait` computes a new deadline for each expired item it discards. The
  models let a timed wait end at any time.
- The stack of adaptive LIFO one access at a time: `lifo_add` and `lifo_remove` are one step each in `QueueGates`, but for the two reads
  of `STACK_HEAD` that `GatesLifo` is about.
- Whether `item_exceeds_delay` picks the right one of target and limit: `JudgedByDelay` asks for one that was in force.
- Widths: `alloc_data_slots` rounds up with a shift of an `int` (`shared_int.c:1273`), wrong from 2^30 slots on; the counters
  and generations are 64 bits wide.
- The string checks of names, `shared.c`'s tables of messages, the `sharedq` command apart from
  its three loops, `shrq_harness`, the examples and the tests: no state of the queue is theirs.
- Memory order: x86-64 and locked instructions; each access is taken as sequentially consistent.

## 6. Plan

Order by importance; 1 to 8 are done, but for what is said there.

1. `AbsQueue`, `ShrList`: the lists and the two main calls. Theorems on types and permits.
2. `QueueGates`: all calls over the gates. Accounting and refinement proved.
3. `QueueEvents`: events, subscriptions, signals. The accounts of subscriptions and of `EVNT_SEM` proved.
4. `ShrMemory`: memory and data blocks. Sizes, blocks, unmapping proved.
5. `QueueLife`: create, open, close, destroy, a crash in the middle.
6. `QueueCalls`: registration and the pull model, on top of 5. Formatting, header, pair and count proved.
7. `ItemData`, `QueueItems`: layout, buffers, CoDel. Marks, strides and idle time proved.
8. Proofs of `JudgedByDelay` and `ItemsReadBack` (`QueueItems`), the invariants of `ShrMemory`, `ItemsDistinct`
   (`QueueGates`), the lists of `ShrList` as chains and their refinement of `AbsQueue`: done.
9. A second reader in `QueueEvents`, over the steps of the event list; deadlines of the timed calls.
