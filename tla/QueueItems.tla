----------------------------- MODULE QueueItems -----------------------------
(***************************************************************************)
(* What becomes of an item besides its place in the queue: enq and enqv    *)
(* record the largest buffer size, copy the item with its time stamp and   *)
(* leave the two time stamps of the queue; deq copies it out, takes COUNT  *)
(* down and decides with item_exceeds_delay (CoDel) whether to discard it; *)
(* shr_q_timelimit, shr_q_target_delay and shr_q_discard change what it    *)
(* decides by.                                                             *)
(*                                                                         *)
(* The list is a sequence, without stack (ShrList, QueueGates), blocks are *)
(* found free by themselves (ShrMemory), events and gates are left out     *)
(* (QueueEvents, QueueGates).  A time is one number, although the file     *)
(* holds two words that are read one after the other; 0 is no time and no  *)
(* limit.  Memory may run out where the code asks for it.                  *)
(***************************************************************************)
EXTENDS ItemData, FiniteSets

CONSTANTS
    Procs,
    Scenarios,  \* the settings and the clock's end, and the calls each process makes
    BlockSizes  \* the size classes of blocks

CallSet == [op : {"add"}, lens : Seq(Nat) \ {<<>>}] \cup [op : {"remove", "discard", "keep"}]
             \cup [op : {"timelimit", "target"}, to : Nat]

ASSUME ItemsAssumption ==
    /\ BlockSizes \subseteq Nat
    /\ \A s \in Scenarios :
          /\ s.limit \in Nat /\ s.target \in Nat /\ s.discard \in BOOLEAN /\ s.end \in Nat
          /\ s.program \in [Procs -> Seq(CallSet)]

VARIABLES
    clock, end,
    buffer,                 \* array[ BUFFER ]
    count,                  \* array[ COUNT ]
    empty,                  \* array[ EMPTY_SEC ]
    lastAdd,                \* array[ TS_SEC ]
    limit, target, discard, \* array[ LIMIT_SEC ], array[ TARGET_SEC ], FLAG_DISCARD_EXPIRED
    queue,                  \* the items from head to tail
    pc, todo,
    item,                   \* the item a call adds or removes
    now, old,               \* locals: the time, the word read for an exchange
    by,                     \* local of item_exceeds_delay: the limit that counts
    size,                   \* the size of the caller's buffer
    got,                    \* the entries the last remove found in it
    seen, outcome           \* history: the limits in force during a decision, and its end

fileVars == <<buffer, count, empty, lastAdd, queue>>
settings == <<limit, target, discard>>
locals   == <<item, now, old, by, size, got, seen, outcome>>
vars == <<clock, end, fileVars, settings, pc, todo, locals>>

NoItem == [lens |-> <<>>, stamp |-> 0, slots |-> 0]
Nothing == [status |-> "none", age |-> 0]

Init ==
    /\ \E s \in Scenarios :
          /\ limit = s.limit /\ target = s.target /\ discard = s.discard
          /\ end = s.end /\ todo = s.program
    /\ clock = 1
    /\ buffer = 0 /\ count = 0 /\ empty = 0 /\ lastAdd = 0
    /\ queue = <<>>
    /\ pc = [p \in Procs |-> "idle"]
    /\ item = [p \in Procs |-> NoItem]
    /\ now = [p \in Procs |-> 0] /\ old = [p \in Procs |-> 0]
    /\ by = [p \in Procs |-> "limit"]
    /\ size = [p \in Procs |-> 0]
    /\ got = [p \in Procs |-> <<>>]
    /\ seen = [p \in Procs |-> {}]
    /\ outcome = [p \in Procs |-> Nothing]

-----------------------------------------------------------------------------

At(p, label) == pc[p] = label
Goto(p, label) == pc' = [pc EXCEPT ![p] = label] /\ UNCHANGED todo
Calling(p, op) == At(p, "idle") /\ todo[p] # <<>> /\ Head(todo[p]).op = op
Finish(p) == pc' = [pc EXCEPT ![p] = "idle"] /\ todo' = [todo EXCEPT ![p] = Tail(@)]

\* the call is over, and so are its locals
Forget(p) ==
    /\ item' = [item EXCEPT ![p] = NoItem]
    /\ now' = [now EXCEPT ![p] = 0] /\ old' = [old EXCEPT ![p] = 0]
    /\ by' = [by EXCEPT ![p] = "limit"]
    /\ got' = [got EXCEPT ![p] = <<>>]

(* enq and enqv, copy_value and copy_vector *)

BadEntry(lens) == \E i \in 1..Len(lens) : lens[i] = 0

\* SH_ERR_ARG for an empty value
AddRefused(p) ==
    /\ Calling(p, "add")
    /\ Head(todo[p]).lens = <<0>>
    /\ Finish(p)
    /\ UNCHANGED <<clock, end, fileVars, settings, locals>>

AddClock(p) ==
    /\ Calling(p, "add")
    /\ Head(todo[p]).lens # <<0>>
    /\ Goto(p, "bufferRead")
    /\ item' = [item EXCEPT ![p] = [lens |-> Head(todo[p]).lens, stamp |-> clock, slots |-> 0]]
    /\ UNCHANGED <<clock, end, fileVars, settings, now, old, by, size, got, seen, outcome>>

\* update_buffer_size
BufferRead(p) ==
    /\ At(p, "bufferRead")
    /\ IF Asked(item[p].lens) > buffer
         THEN Goto(p, "bufferCas") /\ old' = [old EXCEPT ![p] = buffer]
         ELSE Goto(p, "alloc") /\ UNCHANGED old
    /\ UNCHANGED <<clock, end, fileVars, settings, item, now, by, size, got, seen, outcome>>

\* slip: a plain store
BufferStore(p) ==
    /\ At(p, "bufferCas")
    /\ Goto(p, "alloc")
    /\ buffer' = Asked(item[p].lens)
    /\ UNCHANGED <<clock, end, count, empty, lastAdd, queue, settings, locals>>

BufferCas(p) ==
    /\ At(p, "bufferCas")
    /\ IF buffer = old[p]
         THEN Goto(p, "alloc") /\ buffer' = Asked(item[p].lens)
         ELSE Goto(p, "bufferRead") /\ UNCHANGED buffer
    /\ UNCHANGED <<clock, end, count, empty, lastAdd, queue, settings, locals>>

\* any block that is large enough; SH_ERR_ARG for a bad entry, and the block is lost
Alloc(p) ==
    /\ At(p, "alloc")
    /\ \E slots \in BlockSizes :
          /\ slots >= Space(item[p].lens)
          /\ IF BadEntry(item[p].lens)
               THEN Finish(p) /\ Forget(p)
               ELSE /\ Goto(p, "link")
                    /\ item' = [item EXCEPT ![p].slots = slots]
                    /\ UNCHANGED <<now, old, by, got>>
    /\ UNCHANGED <<clock, end, fileVars, settings, size, seen, outcome>>

\* SH_ERR_NOMEM: neither block nor node for the item
NoMemory(p) ==
    /\ At(p, "alloc")
    /\ Finish(p) /\ Forget(p)
    /\ UNCHANGED <<clock, end, fileVars, settings, size, seen, outcome>>

Link(p) ==
    /\ At(p, "link")
    /\ Goto(p, "count")
    /\ queue' = Append(queue, item[p])
    /\ UNCHANGED <<clock, end, buffer, count, empty, lastAdd, settings, locals>>

Count(p) ==
    /\ At(p, "count")
    /\ count' = count + 1
    /\ Goto(p, IF count = 0 THEN "stampClock" ELSE "lastRead")
    /\ UNCHANGED <<clock, end, buffer, empty, lastAdd, queue, settings, locals>>

\* update_empty_timestamp
StampClock(p) ==
    /\ At(p, "stampClock")
    /\ Goto(p, "stampRead")
    /\ now' = [now EXCEPT ![p] = clock]
    /\ UNCHANGED <<clock, end, fileVars, settings, item, old, by, size, got, seen, outcome>>

StampRead(p) ==
    /\ At(p, "stampRead")
    /\ IF now[p] > empty
         THEN Goto(p, "stampCas") /\ old' = [old EXCEPT ![p] = empty]
         ELSE Goto(p, "lastRead") /\ UNCHANGED old
    /\ UNCHANGED <<clock, end, fileVars, settings, item, now, by, size, got, seen, outcome>>

StampCas(p) ==
    /\ At(p, "stampCas")
    /\ IF empty = old[p]
         THEN Goto(p, "lastRead") /\ empty' = now[p]
         ELSE Goto(p, "stampRead") /\ UNCHANGED empty
    /\ UNCHANGED <<clock, end, buffer, count, lastAdd, queue, settings, locals>>

\* the time of the last add: one exchange, which may fail or go back
LastRead(p) ==
    /\ At(p, "lastRead")
    /\ Goto(p, "lastCas")
    /\ old' = [old EXCEPT ![p] = lastAdd]
    /\ UNCHANGED <<clock, end, fileVars, settings, item, now, by, size, got, seen, outcome>>

LastCas(p) ==
    /\ At(p, "lastCas")
    /\ lastAdd' = IF lastAdd = old[p] THEN item[p].stamp ELSE lastAdd
    /\ Finish(p) /\ Forget(p)
    /\ UNCHANGED <<clock, end, buffer, count, empty, queue, settings, size, seen, outcome>>

Add(p) ==
    \/ AddRefused(p) \/ AddClock(p) \/ BufferRead(p) \/ BufferCas(p) \/ Alloc(p)
    \/ NoMemory(p) \/ Link(p) \/ Count(p) \/ StampClock(p) \/ StampRead(p) \/ StampCas(p)
    \/ LastRead(p) \/ LastCas(p)

-----------------------------------------------------------------------------
(* deq *)

Empty(p) ==
    /\ Calling(p, "remove")
    /\ queue = <<>>
    /\ Finish(p)
    /\ UNCHANGED <<clock, end, fileVars, settings, locals>>

Take(p) ==
    /\ Calling(p, "remove")
    /\ queue # <<>>
    /\ Goto(p, "copy")
    /\ item' = [item EXCEPT ![p] = Head(queue)]
    /\ queue' = Tail(queue)
    /\ UNCHANGED <<clock, end, buffer, count, empty, lastAdd, settings, now, old, by, size, got,
                   seen, outcome>>

\* resize_buffer and copy_to_buffer
Copy(p) ==
    LET needed == Needed(item[p].slots, item[p].lens)
    IN /\ At(p, "copy")
       /\ Goto(p, "uncount")
       /\ size' = [size EXCEPT ![p] = IF @ < needed THEN needed ELSE @]
       /\ got' = [got EXCEPT ![p] = Entries(item[p].lens)]
       /\ UNCHANGED <<clock, end, fileVars, settings, item, now, old, by, seen, outcome>>

\* no memory for the buffer, and the old one is gone: the status is overwritten, the item lost
CopyFails(p) ==
    /\ At(p, "copy")
    /\ size[p] < Needed(item[p].slots, item[p].lens)
    /\ Goto(p, "uncount")
    /\ size' = [size EXCEPT ![p] = 0]
    /\ got' = [got EXCEPT ![p] = <<>>]
    /\ UNCHANGED <<clock, end, fileVars, settings, item, now, old, by, seen, outcome>>

\* the extent of the block cannot be mapped: COUNT stays as it is
MapFails(p) ==
    /\ At(p, "copy")
    /\ Finish(p) /\ Forget(p)
    /\ UNCHANGED <<clock, end, fileVars, settings, size, seen, outcome>>

CoDelActive == limit # 0 /\ target # 0

Uncount(p) ==
    /\ At(p, "uncount")
    /\ count' = count - 1
    /\ Goto(p, IF CoDelActive /\ count = 1 THEN "clearRead" ELSE "flag")
    /\ got' = [got EXCEPT ![p] = <<>>]
    /\ UNCHANGED <<clock, end, buffer, empty, lastAdd, queue, settings, item, now, old, by, size,
                   seen, outcome>>

\* clear_empty_timestamp
ClearRead(p) ==
    /\ At(p, "clearRead")
    /\ Goto(p, "clearCas")
    /\ old' = [old EXCEPT ![p] = empty]
    /\ UNCHANGED <<clock, end, fileVars, settings, item, now, by, size, got, seen, outcome>>

ClearCas(p) ==
    /\ At(p, "clearCas")
    /\ IF empty = old[p]
         THEN Goto(p, "flag") /\ empty' = 0
         ELSE Goto(p, "clearRead") /\ UNCHANGED empty
    /\ UNCHANGED <<clock, end, buffer, count, lastAdd, queue, settings, locals>>

\* the item is returned
Returned(p, status, age) ==
    /\ Finish(p) /\ Forget(p)
    /\ outcome' = [outcome EXCEPT ![p] = [status |-> status, age |-> age]]

\* slip: swapped
AgeSwapped(p) == item[p].stamp - now[p]

Age(p) == now[p] - item[p].stamp

\* is_discard_on_expire; item_exceeds_delay reads the clock
Flag(p) ==
    /\ At(p, "flag")
    /\ IF discard
         THEN /\ Goto(p, "judge")
              /\ now' = [now EXCEPT ![p] = clock]
              /\ seen' = [seen EXCEPT ![p] = {limit} \cup ({target} \ {0})]
              /\ outcome' = [outcome EXCEPT ![p] = Nothing]
              /\ UNCHANGED <<item, old, by, got>>
         ELSE Returned(p, "kept", 0) /\ UNCHANGED seen
    /\ UNCHANGED <<clock, end, fileVars, settings, size>>

\* slip: without a time stamp nothing is overdue
JudgeStampOnly(p) ==
    /\ At(p, "judge")
    /\ IF CoDelActive /\ empty # 0
         THEN /\ Goto(p, "interval")
              /\ old' = [old EXCEPT ![p] = empty]
              /\ UNCHANGED <<item, now, by, got, outcome>>
         ELSE Returned(p, "SH_OK", Age(p))
    /\ UNCHANGED <<clock, end, fileVars, settings, size, seen>>

Judge(p) ==
    /\ At(p, "judge")
    /\ IF CoDelActive /\ empty # 0
         THEN Goto(p, "interval") /\ old' = [old EXCEPT ![p] = empty]
         ELSE Goto(p, "zero") /\ UNCHANGED old
    /\ UNCHANGED <<clock, end, fileVars, settings, item, now, by, size, got, seen, outcome>>

\* the queue has not been empty for the length of the limit: the target counts
Interval(p) ==
    /\ At(p, "interval")
    /\ Goto(p, "zero")
    /\ by' = [by EXCEPT ![p] = IF old[p] < now[p] - limit THEN "target" ELSE "limit"]
    /\ UNCHANGED <<clock, end, fileVars, settings, item, now, old, size, got, seen, outcome>>

Delay(p) == IF by[p] = "target" THEN target ELSE limit

\* item_exceeds_limit, which reads the limit twice
Zero(p) ==
    /\ At(p, "zero")
    /\ IF Delay(p) = 0
         THEN Returned(p, "SH_OK", Age(p))
         ELSE Goto(p, "compare") /\ UNCHANGED <<item, now, old, by, got, outcome>>
    /\ UNCHANGED <<clock, end, fileVars, settings, size, seen>>

Compare(p) ==
    /\ At(p, "compare")
    /\ IF Age(p) > Delay(p)
         THEN Goto(p, "overdue") /\ UNCHANGED <<item, now, old, by, got, outcome>>
         ELSE Returned(p, "SH_OK", Age(p))
    /\ UNCHANGED <<clock, end, fileVars, settings, size, seen>>

\* the flag is read again; SH_ERR_EXIST when the item is discarded
Overdue(p) ==
    /\ At(p, "overdue")
    /\ IF discard THEN Returned(p, "SH_ERR_EXIST", Age(p)) ELSE Returned(p, "kept", 0)
    /\ UNCHANGED <<clock, end, fileVars, settings, size, seen>>

Remove(p) ==
    \/ Empty(p) \/ Take(p) \/ Copy(p) \/ CopyFails(p) \/ MapFails(p) \/ Uncount(p)
    \/ ClearRead(p) \/ ClearCas(p) \/ Flag(p) \/ Judge(p) \/ Interval(p)
    \/ Zero(p) \/ Compare(p) \/ Overdue(p)

-----------------------------------------------------------------------------
(* The settings: exchanges that are repeated until one is made *)

Judging == {"judge", "interval", "zero", "compare"}
Noticed(new) == seen' = [q \in Procs |-> IF pc[q] \in Judging THEN seen[q] \cup {new} ELSE seen[q]]

TimeLimit(p) ==
    /\ Calling(p, "timelimit")
    /\ Finish(p)
    /\ limit' = Head(todo[p]).to
    /\ Noticed(limit')
    /\ UNCHANGED <<clock, end, fileVars, target, discard, item, now, old, by, size, got, outcome>>

\* stores the target and goes on as shr_q_discard
TargetDelay(p) ==
    /\ Calling(p, "target")
    /\ pc' = pc /\ todo' = [todo EXCEPT ![p] = <<[op |-> "discard"]>> \o Tail(@)]
    /\ target' = Head(todo[p]).to
    /\ Noticed(target')
    /\ UNCHANGED <<clock, end, fileVars, limit, discard, item, now, old, by, size, got, outcome>>

\* shr_q_discard
Discard(p) ==
    /\ Calling(p, "discard") \/ Calling(p, "keep")
    /\ Finish(p)
    /\ discard' = (Head(todo[p]).op = "discard")
    /\ UNCHANGED <<clock, end, fileVars, limit, target, locals>>

Tick ==
    /\ clock < end
    /\ clock' = clock + 1
    /\ UNCHANGED <<end, fileVars, settings, pc, todo, locals>>

Next ==
    \/ \E p \in Procs : Add(p) \/ Remove(p) \/ TimeLimit(p) \/ TargetDelay(p) \/ Discard(p)
    \/ Tick

Spec == Init /\ [][Next]_vars

-----------------------------------------------------------------------------

Labels == {"idle", "bufferRead", "bufferCas", "alloc", "link", "count", "stampClock", "stampRead",
           "stampCas", "lastRead", "lastCas", "copy", "uncount", "clearRead", "clearCas", "flag",
           "judge", "interval", "zero", "compare", "overdue"}

Items == [lens : Seq(Nat), stamp : Nat, slots : Nat]

TypeOK ==
    /\ clock \in Nat /\ end \in Nat
    /\ buffer \in Nat /\ count \in Int
    /\ empty \in 0..clock /\ lastAdd \in 0..clock
    /\ limit \in Nat /\ target \in Nat /\ discard \in BOOLEAN
    /\ queue \in Seq(Items)
    /\ pc \in [Procs -> Labels] /\ todo \in [Procs -> Seq(CallSet)]
    /\ item \in [Procs -> Items]
    /\ now \in [Procs -> 0..clock] /\ old \in [Procs -> Nat]
    /\ by \in [Procs -> {"limit", "target"}]
    /\ size \in [Procs -> Nat]
    /\ got \in [Procs -> Seq([base : Nat, len : Nat])]
    /\ seen \in [Procs -> SUBSET Nat]
    /\ outcome \in [Procs -> [status : {"none", "kept", "SH_OK", "SH_ERR_EXIST"}, age : Nat]]

(***************************************************************************)
(* Writer and reader agree on the layout, which each of them works out for *)
(* itself: an item's last entry ends inside its block, BUFFER ("max size   *)
(* needed to read items from queue") is at least what was asked for every  *)
(* item on the queue, and a remove finds the entries that were added,      *)
(* where they were stored, inside what it copied and below its own table   *)
(* of entries, in a buffer that holds both.                                *)
(***************************************************************************)
Ends(lens) ==
    LET n == Len(lens)
    IN IF n = 1 THEN DATA_HDR + Slots(lens[1]) ELSE WrittenAt(lens)[n] + WriterStride(lens[n])

Fits(i) == Ends(i.lens) <= i.slots /\ Asked(i.lens) <= buffer

Read(p) ==
    LET i == item[p]
        written(n) == WrittenAt(i.lens)[n] + (IF Len(i.lens) = 1 THEN 0 ELSE 2)
    IN /\ Len(got[p]) = Len(i.lens)
       /\ \A n \in 1..Len(i.lens) :
             /\ got[p][n].len = i.lens[n]
             /\ got[p][n].base + 1 = written(n)
             /\ SLOT * got[p][n].base + got[p][n].len <= Copied(i.slots)
       /\ size[p] >= Needed(i.slots, i.lens)

ItemsReadBack ==
    /\ \A n \in 1..Len(queue) : Fits(queue[n])
    /\ \A p \in Procs : (pc[p] = "uncount" /\ got[p] # <<>>) => Read(p)

(***************************************************************************)
(* BUFFER only grows, and EMPTY_SEC is replaced only by a later time or by *)
(* none: of calls that raise the same word at the same time the one with   *)
(* the smaller value gives way.                                            *)
(***************************************************************************)
MarksForward ==
    [][ /\ buffer' = buffer \/ buffer' > buffer
        /\ empty' = empty \/ empty' > empty \/ empty' = 0 ]_vars

(***************************************************************************)
(* Whether an item is discarded "that exceed[s] expiration time limit" is  *)
(* decided by a limit, time or target, that was in force during the        *)
(* decision, however the time stamp of the queue, the limits and the flag  *)
(* change meanwhile: a discarded item is older than one of them, and of a  *)
(* queue that discards no item is returned that is older than all of them. *)
(* It is excluded that a limit is switched off in the middle: 0 passes for *)
(* a limit if item_exceeds_limit has just found it set.                    *)
(***************************************************************************)
JudgedByDelay ==
    \A p \in Procs :
        LET o == outcome[p] IN
        0 \notin seen[p] =>
            /\ o.status = "SH_ERR_EXIST" => \E d \in seen[p] : o.age > d
            /\ o.status = "SH_OK" => \E d \in seen[p] : o.age <= d

=============================================================================
