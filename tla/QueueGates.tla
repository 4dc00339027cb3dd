---------------------------- MODULE QueueGates ----------------------------
(***************************************************************************)
(* The calls of shared_q.c that pass the two semaphores of a queue: every  *)
(* form of shr_q_add (add, addv; try, wait, timed), every form of          *)
(* shr_q_remove, shr_q_clean, shr_q_prod, and the options that change what *)
(* they do: adaptive LIFO, discard of expired items.                       *)
(*                                                                         *)
(* ENQ_SEM counts the free places, DEQ_SEM the items that may be taken.  A *)
(* call takes a permit of one, works on the lists, adjusts COUNT and posts *)
(* to the other; between any two of these steps another process may run.   *)
(* An operation on a list is one step here: ShrList shows how it is done   *)
(* without a lock.  A call refused for its arguments or for the mode the   *)
(* queue was opened in changes nothing and is left out.                    *)
(*                                                                         *)
(* Out of scope: a process that cannot map a part of the file (it gets     *)
(* SH_ERR_NOMEM from the middle of a call), a process that is killed (see  *)
(* ShrList), sem_wait interrupted by a signal, and events (QueueEvents).   *)
(***************************************************************************)
EXTENDS Integers, Sequences, FiniteSets, Functions

CONSTANTS
    Procs,      \* processes and threads that have the queue open
    Items,      \* the parts of the file that can hold an item
    NoItem,
    May,        \* the calls each of them may make
    Modes,      \* the forms of add and remove each of them uses
    Options,    \* the options that may be switched: "lifo", "discard"
    Level,      \* array[ LEVEL ]: the depth at which "lifo" takes effect
    MaxDepth,   \* the initial value of ENQ_SEM
    MaxProds    \* bound on the calls of shr_q_prod

ASSUME GatesAssumption ==
    /\ IsFiniteSet(Procs)
    /\ NoItem \notin Items
    /\ May \in [Procs -> SUBSET {"add", "remove", "clean", "prod"}]
    /\ Modes \in [Procs -> SUBSET {"try", "wait", "timed"}]
    /\ Options \subseteq {"lifo", "discard"}
    /\ Level \in Nat
    /\ MaxDepth \in Nat \ {0}
    /\ MaxProds \in Nat

VARIABLES
    fifo,       \* the queue's list, first item first
    stack,      \* the list of STACK_HEAD, top first
    enqSem, deqSem, count,
    flags,      \* the options that are on
    old,        \* the items older than the time limit
    prods,      \* calls of shr_q_prod so far
    pc, mode, item

queueVars == <<fifo, stack, enqSem, deqSem, count>>
vars == <<queueVars, flags, old, prods, pc, mode, item>>

AddLabels    == {"enqGate", "enqItem", "pushFifo", "pushLifo", "incCount", "addDone", "addFail"}
RemoveLabels == {"deqGate", "deq", "fifo", "lifo", "taken", "dropped", "removeDone",
                 "deqBack", "abort"}
CleanLabels  == {"cleanGate", "cleanLook", "cleanTake", "cleanCount", "cleanPost", "cleanBack"}
Labels       == {"idle"} \cup AddLabels \cup RemoveLabels \cup CleanLabels

\* a place of the queue is with a call at these labels, the right to an item at those
EnqLabels == {"enqItem", "pushFifo", "pushLifo", "addFail", "taken", "dropped", "removeDone",
              "cleanCount", "cleanPost"}
DeqLabels == {"incCount", "addDone", "deq", "fifo", "lifo", "deqBack", "abort",
              "cleanLook", "cleanTake", "cleanBack"}
\* the item has left the lists with this call
HeldLabels == {"taken", "dropped", "removeDone", "cleanCount", "cleanPost"}

Init ==
    /\ fifo = <<>> /\ stack = <<>>
    /\ enqSem = MaxDepth /\ deqSem = 0 /\ count = 0
    /\ flags = {} /\ old = {} /\ prods = 0
    /\ pc = [p \in Procs |-> "idle"]
    /\ mode = [p \in Procs |-> "try"]
    /\ item = [p \in Procs |-> NoItem]

-----------------------------------------------------------------------------

Goto(p, label) == pc' = [pc EXCEPT ![p] = label]

Go(p, from, to) == pc[p] = from /\ Goto(p, to)

Hold(p, i) == item' = [item EXCEPT ![p] = i]

\* the call returns
Return(p) == Goto(p, "idle") /\ Hold(p, NoItem)

Queued == Range(fifo) \cup Range(stack)
InUse  == Queued \cup Range(item)

(* shr_q_add and shr_q_addv *)

CallAdd(p) ==
    /\ "add" \in May[p]
    /\ Go(p, "idle", "enqGate")
    /\ mode' \in {[mode EXCEPT ![p] = m] : m \in Modes[p]}
    /\ UNCHANGED <<queueVars, flags, old, prods, item>>

\* slip: what the semaphore says is not looked at
EnqGateForced(p) ==
    /\ Go(p, "enqGate", "enqItem")
    /\ enqSem' = enqSem - 1
    /\ UNCHANGED <<fifo, stack, deqSem, count, flags, old, prods, mode, item>>

\* sem_trywait, sem_wait or sem_timedwait
EnqGatePass(p) ==
    /\ Go(p, "enqGate", "enqItem")
    /\ enqSem > 0
    /\ enqSem' = enqSem - 1
    /\ UNCHANGED <<fifo, stack, deqSem, count, flags, old, prods, mode, item>>

\* SH_ERR_LIMIT: at once when not waiting, later when the time is over
EnqGateLimit(p) ==
    /\ pc[p] = "enqGate"
    /\ enqSem = 0 /\ mode[p] # "wait"
    /\ Return(p)
    /\ UNCHANGED <<queueVars, flags, old, prods, mode>>

\* enq_data: the value is copied to slots nobody uses, the flag and COUNT are read,
\* then the item is pushed
EnqToLifo == "lifo" \in flags /\ count >= Level

EnqItem(p) ==
    /\ Go(p, "enqItem", IF EnqToLifo THEN "pushLifo" ELSE "pushFifo")
    /\ \E i \in Items \ InUse : Hold(p, i)
    /\ UNCHANGED <<queueVars, flags, old, prods, mode>>

\* no memory for the item or its node
EnqNoMem(p) ==
    /\ Go(p, "enqItem", "addFail")
    /\ UNCHANGED <<queueVars, flags, old, prods, mode, item>>

\* slip: the place is not given back
AddFailKeeps(p) ==
    /\ pc[p] = "addFail"
    /\ Return(p)
    /\ UNCHANGED <<queueVars, flags, old, prods, mode>>

AddFail(p) ==
    /\ pc[p] = "addFail"
    /\ enqSem' = enqSem + 1
    /\ Return(p)
    /\ UNCHANGED <<fifo, stack, deqSem, count, flags, old, prods, mode>>

PushFifo(p) ==
    /\ Go(p, "pushFifo", "incCount")
    /\ fifo' = Append(fifo, item[p])
    /\ UNCHANGED <<stack, enqSem, deqSem, count, flags, old, prods, mode, item>>

\* slip: an item on the stack is not counted
PushLifoUncounted(p) ==
    /\ Go(p, "pushLifo", "addDone")
    /\ stack' = <<item[p]>> \o stack
    /\ Hold(p, NoItem)
    /\ UNCHANGED <<fifo, enqSem, deqSem, count, flags, old, prods, mode>>

PushLifo(p) ==
    /\ Go(p, "pushLifo", "incCount")
    /\ stack' = <<item[p]>> \o stack
    /\ UNCHANGED <<fifo, enqSem, deqSem, count, flags, old, prods, mode, item>>

IncCount(p) ==
    /\ Go(p, "incCount", "addDone")
    /\ count' = count + 1
    /\ Hold(p, NoItem)
    /\ UNCHANGED <<fifo, stack, enqSem, deqSem, flags, old, prods, mode>>

AddDone(p) ==
    /\ pc[p] = "addDone"
    /\ deqSem' = deqSem + 1
    /\ Return(p)
    /\ UNCHANGED <<fifo, stack, enqSem, count, flags, old, prods, mode>>

Add(p) ==
    \/ EnqGatePass(p) \/ EnqGateLimit(p) \/ EnqItem(p) \/ EnqNoMem(p) \/ AddFail(p)
    \/ PushFifo(p) \/ PushLifo(p) \/ IncCount(p) \/ AddDone(p)

-----------------------------------------------------------------------------
(* shr_q_remove *)

CallRemove(p) ==
    /\ "remove" \in May[p]
    /\ Go(p, "idle", "deqGate")
    /\ mode' \in {[mode EXCEPT ![p] = m] : m \in Modes[p]}
    /\ UNCHANGED <<queueVars, flags, old, prods, item>>

DeqGatePass(p) ==
    /\ Go(p, "deqGate", "deq")
    /\ deqSem > 0
    /\ deqSem' = deqSem - 1
    /\ UNCHANGED <<fifo, stack, enqSem, count, flags, old, prods, mode, item>>

DeqGateEmpty(p) ==
    /\ pc[p] = "deqGate"
    /\ deqSem = 0 /\ mode[p] # "wait"
    /\ Return(p)
    /\ UNCHANGED <<queueVars, flags, old, prods, mode>>

\* deq: which list to take from, or SH_ERR_EMPTY
Deq(p) ==
    /\ Go(p, "deq", IF stack # <<>> THEN "lifo" ELSE IF fifo # <<>> THEN "fifo" ELSE "deqBack")
    /\ UNCHANGED <<queueVars, flags, old, prods, mode, item>>

\* fifo_remove; when the list has been emptied meanwhile, deq starts over
FifoRemove(p) ==
    /\ IF fifo = <<>>
         THEN Go(p, "fifo", "deq") /\ UNCHANGED <<fifo, item>>
         ELSE /\ Go(p, "fifo", "taken")
              /\ Hold(p, Head(fifo))
              /\ fifo' = Tail(fifo)
    /\ UNCHANGED <<stack, enqSem, deqSem, count, flags, old, prods, mode>>

\* lifo_remove; when the stack has been emptied meanwhile, insure_in_range( 0 ) aborts
LifoRemove(p) ==
    /\ IF stack = <<>>
         THEN Go(p, "lifo", "abort") /\ UNCHANGED <<stack, item>>
         ELSE /\ Go(p, "lifo", "taken")
              /\ Hold(p, Head(stack))
              /\ stack' = Tail(stack)
    /\ UNCHANGED <<fifo, enqSem, deqSem, count, flags, old, prods, mode>>

\* post_process_deq: SH_ERR_EXIST for an expired item that is to be discarded
Expired(p) == "discard" \in flags /\ item[p] \in old

PostProcessDeq(p) ==
    /\ Go(p, "taken", IF Expired(p) THEN "dropped" ELSE "removeDone")
    /\ count' = count - 1
    /\ UNCHANGED <<fifo, stack, enqSem, deqSem, flags, old, prods, mode, item>>

Forget(p) == old' = old \ {item[p]}

RemoveDone(p) ==
    /\ pc[p] = "removeDone"
    /\ enqSem' = enqSem + 1
    /\ Return(p) /\ Forget(p)
    /\ UNCHANGED <<fifo, stack, deqSem, count, flags, prods, mode>>

\* the next item is tried, through the gate
Dropped(p) ==
    /\ Go(p, "dropped", "deqGate")
    /\ enqSem' = enqSem + 1
    /\ Hold(p, NoItem) /\ Forget(p)
    /\ UNCHANGED <<fifo, stack, deqSem, count, flags, prods, mode>>

\* SH_ERR_EMPTY: the permit is put back
DeqBack(p) ==
    /\ pc[p] = "deqBack"
    /\ deqSem' = deqSem + 1
    /\ Return(p)
    /\ UNCHANGED <<fifo, stack, enqSem, count, flags, old, prods, mode>>

Remove(p) ==
    \/ DeqGatePass(p) \/ DeqGateEmpty(p) \/ Deq(p) \/ FifoRemove(p) \/ LifoRemove(p)
    \/ PostProcessDeq(p) \/ RemoveDone(p) \/ Dropped(p) \/ DeqBack(p)

-----------------------------------------------------------------------------
(* shr_q_clean *)

CallClean(p) ==
    /\ "clean" \in May[p]
    /\ Go(p, "idle", "cleanGate")
    /\ UNCHANGED <<queueVars, flags, old, prods, mode, item>>

CleanGate(p) ==
    /\ pc[p] = "cleanGate"
    /\ IF deqSem > 0
         THEN Goto(p, "cleanLook") /\ deqSem' = deqSem - 1 /\ UNCHANGED item
         ELSE Return(p) /\ UNCHANGED deqSem
    /\ UNCHANGED <<fifo, stack, enqSem, count, flags, old, prods, mode>>

\* the first item's age is looked at before the item is taken
CleanLook(p) ==
    /\ pc[p] = "cleanLook"
    /\ IF fifo # <<>> /\ Head(fifo) \in old
         THEN Goto(p, "cleanTake") /\ Hold(p, Head(fifo))
         ELSE Goto(p, "cleanBack") /\ UNCHANGED item
    /\ UNCHANGED <<queueVars, flags, old, prods, mode>>

\* slip: the first item is removed, whether it is the one looked at or not
CleanTakeAny(p) ==
    /\ pc[p] = "cleanTake"
    /\ IF fifo # <<>>
         THEN Goto(p, "cleanCount") /\ fifo' = Tail(fifo) /\ UNCHANGED item
         ELSE Goto(p, "cleanBack") /\ Hold(p, NoItem) /\ UNCHANGED fifo
    /\ UNCHANGED <<stack, enqSem, deqSem, count, flags, old, prods, mode>>

\* remove_front fails when another process has moved the head
CleanTake(p) ==
    /\ pc[p] = "cleanTake"
    /\ IF fifo # <<>> /\ Head(fifo) = item[p]
         THEN Goto(p, "cleanCount") /\ fifo' = Tail(fifo) /\ UNCHANGED item
         ELSE Goto(p, "cleanBack") /\ Hold(p, NoItem) /\ UNCHANGED fifo
    /\ UNCHANGED <<stack, enqSem, deqSem, count, flags, old, prods, mode>>

CleanCount(p) ==
    /\ Go(p, "cleanCount", "cleanPost")
    /\ count' = count - 1
    /\ UNCHANGED <<fifo, stack, enqSem, deqSem, flags, old, prods, mode, item>>

CleanPost(p) ==
    /\ Go(p, "cleanPost", "cleanGate")
    /\ enqSem' = enqSem + 1
    /\ Hold(p, NoItem) /\ Forget(p)
    /\ UNCHANGED <<fifo, stack, deqSem, count, flags, prods, mode>>

\* slip: the permit to look is not put back
CleanKeeps(p) ==
    /\ pc[p] = "cleanBack"
    /\ Return(p)
    /\ UNCHANGED <<queueVars, flags, old, prods, mode>>

CleanBack(p) ==
    /\ pc[p] = "cleanBack"
    /\ deqSem' = deqSem + 1
    /\ Return(p)
    /\ UNCHANGED <<fifo, stack, enqSem, count, flags, old, prods, mode>>

Clean(p) ==
    \/ CleanGate(p) \/ CleanLook(p) \/ CleanTake(p) \/ CleanCount(p)
    \/ CleanPost(p) \/ CleanBack(p)

-----------------------------------------------------------------------------
(* the calls of one step, and time *)

Prod(p) ==
    /\ "prod" \in May[p] /\ pc[p] = "idle"
    /\ prods < MaxProds
    /\ deqSem' = deqSem + 1
    /\ prods' = prods + 1
    /\ UNCHANGED <<fifo, stack, enqSem, count, flags, old, pc, mode, item>>

\* shr_q_limit_lifo and shr_q_discard
SetOption(option, on) ==
    /\ flags' = IF on THEN flags \cup {option} ELSE flags \ {option}
    /\ UNCHANGED <<queueVars, old, prods, pc, mode, item>>

\* a queued item outlives the time limit
Expire(i) ==
    /\ i \in Queued \ old
    /\ old' = old \cup {i}
    /\ UNCHANGED <<queueVars, flags, prods, pc, mode, item>>

Call(p) == CallAdd(p) \/ CallRemove(p) \/ CallClean(p) \/ Prod(p)

Work(p) == Add(p) \/ Remove(p) \/ Clean(p)

Next ==
    \/ \E p \in Procs : Call(p) \/ Work(p)
    \/ \E option \in Options, on \in BOOLEAN : SetOption(option, on)
    \/ \E i \in Items : Expire(i)

\* a call that has begun goes on; nobody has to make another
Spec == Init /\ [][Next]_vars /\ \A p \in Procs : WF_vars(Work(p))

-----------------------------------------------------------------------------

TypeOK ==
    /\ fifo \in Seq(Items) /\ stack \in Seq(Items)
    /\ enqSem \in Nat /\ deqSem \in Nat /\ count \in Int
    /\ flags \subseteq Options /\ old \subseteq Items /\ prods \in 0..MaxProds
    /\ pc \in [Procs -> Labels]
    /\ mode \in [Procs -> {"try", "wait", "timed"}]
    /\ item \in [Procs -> Items \cup {NoItem}]
    /\ \A p \in Procs : pc[p] \in {"pushFifo", "pushLifo"} \cup HeldLabels
                          => item[p] \in Items

Length == Len(fifo) + Len(stack)

In(labels) == Cardinality({p \in Procs : pc[p] \in labels})

(***************************************************************************)
(* A place is in ENQ_SEM, with one call or taken by a queued item; the     *)
(* right to take an item is in DEQ_SEM or with one call, one for each item *)
(* and one more for each prod: whatever the order of adds, removes, cleans *)
(* and discards, on every error path.  So the queue never exceeds the      *)
(* max_depth of shr_q_create, and a queued item can always be taken.       *)
(***************************************************************************)
PermitsAccounted ==
    /\ enqSem + In(EnqLabels) + Length = MaxDepth
    /\ deqSem + In(DeqLabels) = Length + prods

(***************************************************************************)
(* COUNT is the queue's length but for the calls that are between a list   *)
(* and the counter: shr_q_count is exact when no call is in progress, and  *)
(* the events that depend on COUNT are about the queue there is.           *)
(***************************************************************************)
CountAccounted == count = Length - In({"incCount"}) + In({"taken", "cleanCount"})

(***************************************************************************)
(* Nobody gets an item twice and none is in both lists: what the calls     *)
(* hold and what is queued are different items.                            *)
(***************************************************************************)
ItemsDistinct ==
    /\ Cardinality(Queued) = Length
    /\ \A p, q \in Procs :
          (pc[p] \in HeldLabels) =>
              /\ item[p] \notin Queued
              /\ (p # q /\ pc[q] \in HeldLabels) => item[p] # item[q]

(***************************************************************************)
(* The calls implement AbsQueue: an add that fails puts nothing, clean and *)
(* discard take items in order, and whatever the options do meanwhile the  *)
(* list stays a queue, the stack a stack and both together bounded.        *)
(***************************************************************************)
Given == [p \in Procs |-> IF pc[p] \in HeldLabels THEN item[p] ELSE NoItem]
Abs == INSTANCE AbsQueue WITH queue <- fifo, given <- Given, Takers <- Procs
AbsQueueSpec == Abs!AbsSpec

(***************************************************************************)
(* A blocked remove is served: while an item is queued and a remove is     *)
(* waiting, the item gets taken or the waiting ends (shr_q_remove_wait:    *)
(* "block if queue is empty", and only then).  Somebody who calls          *)
(* shr_q_clean for ever is excluded: each call borrows a permit and can be *)
(* quicker to take it back than the waiter.  So is LIFO mode that is never *)
(* left, in which one caller can add and remove above the others' items    *)
(* for ever, and a call that AssertHolds describes, which dies with a      *)
(* permit.                                                                 *)
(***************************************************************************)
Waiting == {p \in Procs : pc[p] = "deqGate" /\ mode[p] = "wait"}
CleaningEnds == <>[](\A p \in Procs : pc[p] \notin CleanLabels)
LifoEnds == <>[]("lifo" \notin flags)
NobodyAborts == [](\A p \in Procs : pc[p] # "abort")
WaitersServed ==
    (CleaningEnds /\ LifoEnds /\ NobodyAborts) =>
        \A i \in Items :
            (i \in Queued /\ Waiting # {}) ~> (i \notin Queued \/ Waiting = {})

(***************************************************************************)
(* "assert(slot > 0)" (insure_in_range): it never fails.                   *)
(***************************************************************************)
AssertHolds == \A p \in Procs : pc[p] # "abort"

=============================================================================
