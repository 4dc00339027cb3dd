------------------------------ MODULE ShrList ------------------------------
(***************************************************************************)
(* The lock-free linked lists of shared_int.c and the queue operations of  *)
(* shared_q.c that run on them: shr_q_add and shr_q_remove, one memory     *)
(* access per step, by processes that share the mapped file.               *)
(*                                                                         *)
(* A node is four slots of the shared array.  Its first two slots, read    *)
(* and swapped together by the double-word CAS, are word[n]: lo is the     *)
(* slot of the next node (the node's own slot at the end of a list), hi    *)
(* the generation.  The fourth slot is val[n].  The head of a list is a    *)
(* dummy: the first item is the value of the head's successor.  Two lists  *)
(* matter here, the queue (HEAD, TAIL of shared_q.h) and the pool of       *)
(* unused nodes (FREE_HEAD, FREE_TAIL of shared_int.h).                    *)
(*                                                                         *)
(* A double word read without a CAS is two loads, which other processes    *)
(* can come between.  A call is what Program says: each process makes its  *)
(* calls in order.  Prologue is a sequence of calls that Opener makes      *)
(* alone before anyone else starts; it takes the queue to a state that a   *)
(* program which uses the queue for a while is in.  The processes of       *)
(* Mortal may stop for good, each at an arbitrary step of a call.          *)
(***************************************************************************)
EXTENDS Integers, Sequences, FiniteSets, Functions

CONSTANTS
    Procs,      \* processes (or threads) that have the queue open
    Opener,     \* the one that makes the prologue's calls
    Programs,   \* the calls each process may make: a set of functions
    Prologue,   \* calls made by Opener before the others start
    MaxCalls,   \* at least the calls one process makes
    MaxNodes,   \* index nodes that fit in the file
    MaxDepth,   \* the initial value of ENQ_SEM
    Mortal      \* those of Procs that may be killed in the middle of a call

Calls == {"add", "remove"}

ASSUME ProcsAssumption == IsFiniteSet(Procs) /\ Opener \in Procs /\ Mortal \subseteq Procs
ASSUME ProgramsAssumption ==
    /\ Programs \subseteq [Procs -> Seq(Calls)]
    /\ Prologue \in Seq(Calls)
    /\ MaxCalls \in Nat
    /\ \A program \in Programs, p \in Procs : Len(Prologue) + Len(program[p]) <= MaxCalls
\* create_base_object and format_as_queue prime the pool and the queue with a node each
ASSUME SizesAssumption ==
    /\ MaxNodes \in Nat /\ MaxNodes >= 2
    /\ MaxDepth \in Nat /\ MaxDepth >= 1

VARIABLES
    word, val,          \* the nodes' first two slots and fourth slot
    head, tail,         \* (slot, generation) of each list's ends
    idCntr,             \* array[ ID_CNTR ]; copy_value takes numbers from it too
    dataAlloc,          \* array[ DATA_ALLOC ]: the next node never used
    enqSem, deqSem,     \* the semaphores ENQ_SEM and DEQ_SEM
    count,              \* array[ COUNT ]
    pc, loc,            \* where each process is, and its local variables
    todo, prologue,     \* the calls left
    dead,               \* processes that stopped
    given               \* the item a remove has taken and not yet returned

memVars  == <<word, val, head, tail, idCntr, dataAlloc>>
gateVars == <<enqSem, deqSem, count>>
callVars == <<todo, prologue, dead>>
vars == <<memVars, gateVars, callVars, pc, loc, given>>

Null     == 0
Nodes    == 1..MaxNodes
Lists    == {"queue", "free"}
NoItem   == <<>>
Items    == Procs \X Nat
Word     == [lo : Nodes \cup {Null}, hi : Nat]
W(lo, hi) == [lo |-> lo, hi |-> hi]
Zero     == W(Null, 0)

Locals == [
    list   : Lists,                     \* the list add_end or remove_front works on
    slot   : Nodes \cup {Null},         \* the node being added
    gen    : Nat,                       \* its generation
    before : Word, after : Word,        \* tail_before and tail_after of add_end
    ref    : Nodes \cup {Null},         \* the head that remove_front expects
    refGen : Nat,
    next   : Nodes \cup {Null},         \* its successor
    data   : Items \cup {NoItem} ]      \* the item found in the successor

NoLocals == [ list |-> "queue", slot |-> Null, gen |-> 0, before |-> Zero,
              after |-> Zero, ref |-> Null, refGen |-> 0, next |-> Null,
              data |-> NoItem ]

Labels == {"idle", "poolGen", "poolHead", "poolTest", "poolClear", "bump", "store",
           "frontTest", "frontNext", "frontCas", "frontZero",
           "endGen", "endStore", "endLo", "endHi", "endTest", "endLink", "endSwing",
           "helpLo", "helpHi", "helpSwing", "incCount", "decCount",
           "postDeq", "postEnq", "deqHead", "deqTest", "fifoGen", "fifoHead",
           "fifoTest", "fifoNext", "fifoData", "abort"}

(***************************************************************************)
(* The state after shr_q_create: node 1 primes the pool with generation 0, *)
(* node 2 the queue with generation 2 (the event list has taken 1).        *)
(***************************************************************************)
Init ==
    /\ word = [n \in Nodes |-> IF n = 1 THEN W(1, 0) ELSE IF n = 2 THEN W(2, 2) ELSE Zero]
    /\ val = [n \in Nodes |-> NoItem]
    /\ head = [l \in Lists |-> IF l = "free" THEN W(1, 0) ELSE W(2, 2)]
    /\ tail = head
    /\ idCntr = 3
    /\ dataAlloc = 3
    /\ enqSem = MaxDepth
    /\ deqSem = 0
    /\ count = 0
    /\ pc = [p \in Procs |-> "idle"]
    /\ loc = [p \in Procs |-> NoLocals]
    /\ todo \in Programs
    /\ prologue = Prologue
    /\ dead = {}
    /\ given = [p \in Procs |-> NoItem]

-----------------------------------------------------------------------------
(* Calls *)

Call(p) == IF prologue # <<>> THEN Head(prologue) ELSE Head(todo[p])

MayCall(p) == IF prologue # <<>> THEN p = Opener ELSE todo[p] # <<>>

\* the item p adds: unlike every other item of the run
NewItem(p) == <<p, Len(prologue) + Len(todo[p])>>

At(p, label) == p \notin dead /\ pc[p] = label

Goto(p, label) == pc' = [pc EXCEPT ![p] = label]

Set(p, l) == loc' = [loc EXCEPT ![p] = l]

\* the call returns
Finish(p) ==
    /\ Goto(p, "idle")
    /\ Set(p, NoLocals)
    /\ given' = [given EXCEPT ![p] = NoItem]
    /\ IF prologue # <<>>
         THEN prologue' = Tail(prologue) /\ UNCHANGED todo
         ELSE todo' = [todo EXCEPT ![p] = Tail(@)] /\ UNCHANGED prologue
    /\ UNCHANGED dead

\* enq_gate_try: SH_ERR_LIMIT when no permit is left
EnqGateTry(p) ==
    /\ At(p, "idle") /\ MayCall(p) /\ Call(p) = "add"
    /\ IF enqSem > 0
         THEN /\ enqSem' = enqSem - 1
              /\ Goto(p, "poolGen")
              /\ UNCHANGED <<loc, callVars, given>>
         ELSE Finish(p) /\ UNCHANGED enqSem
    /\ UNCHANGED <<memVars, deqSem, count>>

\* slip: a failed sem_trywait is not noticed
DeqGateIgnored(p) ==
    /\ At(p, "idle") /\ MayCall(p) /\ Call(p) = "remove"
    /\ deqSem' = IF deqSem > 0 THEN deqSem - 1 ELSE deqSem
    /\ Goto(p, "deqHead")
    /\ UNCHANGED <<memVars, enqSem, count, loc, callVars, given>>

\* deq_gate_try: SH_ERR_EMPTY when no permit is left
DeqGateTry(p) ==
    /\ At(p, "idle") /\ MayCall(p) /\ Call(p) = "remove"
    /\ IF deqSem > 0
         THEN /\ deqSem' = deqSem - 1
              /\ Goto(p, "deqHead")
              /\ UNCHANGED <<loc, callVars, given>>
         ELSE Finish(p) /\ UNCHANGED deqSem
    /\ UNCHANGED <<memVars, enqSem, count>>

\* slip: the permit is posted after an add, but not put back when deq found nothing
PostDeqOnlyAfterAdd(p) ==
    /\ At(p, "postDeq")
    /\ deqSem' = IF Call(p) = "add" THEN deqSem + 1 ELSE deqSem
    /\ Finish(p)
    /\ UNCHANGED <<memVars, enqSem, count>>

\* deq_release_gate: after an add, or when deq found the queue empty
PostDeq(p) ==
    /\ At(p, "postDeq")
    /\ deqSem' = deqSem + 1
    /\ Finish(p)
    /\ UNCHANGED <<memVars, enqSem, count>>

\* enq_release_gate: after a remove, or when the add failed
PostEnq(p) ==
    /\ At(p, "postEnq")
    /\ enqSem' = enqSem + 1
    /\ Finish(p)
    /\ UNCHANGED <<memVars, deqSem, count>>

\* COUNT is raised after the item is linked, lowered after it is taken
IncCount(p) ==
    /\ At(p, "incCount")
    /\ count' = count + 1
    /\ Goto(p, "postDeq")
    /\ UNCHANGED <<memVars, enqSem, deqSem, callVars, loc, given>>

DecCount(p) ==
    /\ At(p, "decCount")
    /\ count' = count - 1
    /\ Goto(p, "postEnq")
    /\ UNCHANGED <<memVars, enqSem, deqSem, callVars, loc, given>>

-----------------------------------------------------------------------------
(* remove_front *)

\* remove_front returns 0: both callers start over
FrontRetry(p) == IF loc[p].list = "free" THEN "poolGen" ELSE "deqHead"

FrontTest(p) ==
    /\ At(p, "frontTest")
    /\ Goto(p, IF loc[p].ref # Null /\ loc[p].ref # tail[loc[p].list].lo
                 THEN "frontNext" ELSE FrontRetry(p))
    /\ UNCHANGED <<memVars, gateVars, callVars, loc, given>>

FrontNext(p) ==
    /\ At(p, "frontNext")
    /\ Set(p, [loc[p] EXCEPT !.next = word[loc[p].ref].lo])
    /\ Goto(p, "frontCas")
    /\ UNCHANGED <<memVars, gateVars, callVars, given>>

\* slip: a plain CAS of the slot, without the generation
HeadSlotUnchanged(p) == head[loc[p].list].lo = loc[p].ref

HeadUnchanged(p) == head[loc[p].list] = W(loc[p].ref, loc[p].refGen)

FrontCas(p) ==
    /\ At(p, "frontCas")
    /\ IF HeadUnchanged(p)
         THEN /\ head' = [head EXCEPT ![loc[p].list] = W(loc[p].next, loc[p].refGen + 1)]
              /\ Set(p, [loc[p] EXCEPT !.slot = loc[p].ref])
              /\ given' = IF loc[p].list = "queue"
                            THEN [given EXCEPT ![p] = loc[p].data] ELSE given
              /\ Goto(p, "frontZero")
         ELSE /\ Goto(p, FrontRetry(p))
              /\ UNCHANGED <<head, loc, given>>
    /\ UNCHANGED <<word, val, tail, idCntr, dataAlloc, gateVars, callVars>>

\* the memset of two slots; a node taken from the queue goes to the pool
FrontZero(p) ==
    /\ At(p, "frontZero")
    /\ word' = [word EXCEPT ![loc[p].slot] = Zero]
    /\ IF loc[p].list = "free"
         THEN Goto(p, "poolClear") /\ UNCHANGED loc
         ELSE Goto(p, "endGen") /\ Set(p, [loc[p] EXCEPT !.list = "free"])
    /\ UNCHANGED <<val, head, tail, idCntr, dataAlloc, gateVars, callVars, given>>

-----------------------------------------------------------------------------
(* alloc_idx_slots: realloc_pooled_mem, then alloc_new_data *)

PoolGen(p) ==
    /\ At(p, "poolGen")
    /\ Set(p, [loc[p] EXCEPT !.list = "free", !.refGen = head["free"].hi])
    /\ Goto(p, "poolHead")
    /\ UNCHANGED <<memVars, gateVars, callVars, given>>

PoolHead(p) ==
    /\ At(p, "poolHead")
    /\ Set(p, [loc[p] EXCEPT !.ref = head["free"].lo])
    /\ Goto(p, "poolTest")
    /\ UNCHANGED <<memVars, gateVars, callVars, given>>

PoolTest(p) ==
    /\ At(p, "poolTest")
    /\ Goto(p, IF loc[p].ref # tail["free"].lo THEN "frontTest" ELSE "bump")
    /\ UNCHANGED <<memVars, gateVars, callVars, loc, given>>

\* the memset of all four slots
PoolClear(p) ==
    /\ At(p, "poolClear")
    /\ word' = [word EXCEPT ![loc[p].slot] = Zero]
    /\ val' = [val EXCEPT ![loc[p].slot] = NoItem]
    /\ Goto(p, "store")
    /\ UNCHANGED <<head, tail, idCntr, dataAlloc, gateVars, callVars, loc, given>>

\* slip: one node too many, and the wrong gate released when there is no memory
BumpPastEnd(p) ==
    /\ At(p, "bump")
    /\ IF dataAlloc <= MaxNodes + 1
         THEN /\ Set(p, [loc[p] EXCEPT !.slot = dataAlloc])
              /\ dataAlloc' = dataAlloc + 1
              /\ Goto(p, "store")
         ELSE /\ Goto(p, "postEnq")
              /\ UNCHANGED <<loc, dataAlloc>>
    /\ UNCHANGED <<word, val, head, tail, idCntr, gateVars, callVars, given>>

BumpPostsDeq(p) ==
    /\ At(p, "bump")
    /\ IF dataAlloc <= MaxNodes
         THEN /\ Set(p, [loc[p] EXCEPT !.slot = dataAlloc])
              /\ dataAlloc' = dataAlloc + 1
              /\ Goto(p, "store")
         ELSE /\ Goto(p, "postDeq")
              /\ UNCHANGED <<loc, dataAlloc>>
    /\ UNCHANGED <<word, val, head, tail, idCntr, gateVars, callVars, given>>

\* the CAS on DATA_ALLOC, retried until it succeeds; SH_ERR_NOMEM at the end of the file
Bump(p) ==
    /\ At(p, "bump")
    /\ IF dataAlloc <= MaxNodes
         THEN /\ Set(p, [loc[p] EXCEPT !.slot = dataAlloc])
              /\ dataAlloc' = dataAlloc + 1
              /\ Goto(p, "store")
         ELSE /\ Goto(p, "postEnq")
              /\ UNCHANGED <<loc, dataAlloc>>
    /\ UNCHANGED <<word, val, head, tail, idCntr, gateVars, callVars, given>>

\* array[ node + VALUE_OFFSET ] = data_slot
Store(p) ==
    /\ At(p, "store")
    /\ val' = [val EXCEPT ![loc[p].slot] = NewItem(p)]
    /\ Set(p, [loc[p] EXCEPT !.list = "queue"])
    /\ Goto(p, "endGen")
    /\ UNCHANGED <<word, head, tail, idCntr, dataAlloc, gateVars, callVars, given>>

-----------------------------------------------------------------------------
(* add_end *)

\* the generation and the first of the two stores: the node refers to itself
EndGen(p) ==
    /\ At(p, "endGen")
    /\ Set(p, [loc[p] EXCEPT !.gen = idCntr])
    /\ idCntr' = idCntr + 1
    /\ word' = [word EXCEPT ![loc[p].slot].lo = loc[p].slot]
    /\ Goto(p, "endStore")
    /\ UNCHANGED <<val, head, tail, dataAlloc, gateVars, callVars, given>>

EndStore(p) ==
    /\ At(p, "endStore")
    /\ word' = [word EXCEPT ![loc[p].slot].hi = loc[p].gen]
    /\ Goto(p, "endLo")
    /\ UNCHANGED <<val, head, tail, idCntr, dataAlloc, gateVars, callVars, loc, given>>

EndLo(p) ==
    /\ At(p, "endLo")
    /\ Set(p, [loc[p] EXCEPT !.before.lo = tail[loc[p].list].lo])
    /\ Goto(p, "endHi")
    /\ UNCHANGED <<memVars, gateVars, callVars, given>>

EndHi(p) ==
    /\ At(p, "endHi")
    /\ Set(p, [loc[p] EXCEPT !.before.hi = tail[loc[p].list].hi])
    /\ Goto(p, "endTest")
    /\ UNCHANGED <<memVars, gateVars, callVars, given>>

\* insure_in_range asserts that the slot is positive
EndTest(p) ==
    /\ At(p, "endTest")
    /\ LET next == loc[p].before.lo
       IN Goto(p, IF next = Null THEN "abort"
                  ELSE IF word[next].lo = next THEN "endLink" ELSE "helpLo")
    /\ UNCHANGED <<memVars, gateVars, callVars, loc, given>>

Linked(p) == W(loc[p].slot, loc[p].gen)

\* slip: linked without comparing, so that the node another process linked is dropped
EndLinkBlindly(p) ==
    /\ At(p, "endLink")
    /\ word' = [word EXCEPT ![loc[p].before.lo] = Linked(p)]
    /\ Goto(p, "endSwing")
    /\ UNCHANGED <<val, head, tail, idCntr, dataAlloc, gateVars, callVars, loc, given>>

EndLink(p) ==
    /\ At(p, "endLink")
    /\ IF word[loc[p].before.lo] = loc[p].before
         THEN /\ word' = [word EXCEPT ![loc[p].before.lo] = Linked(p)]
              /\ Goto(p, "endSwing")
         ELSE Goto(p, "endLo") /\ UNCHANGED word
    /\ UNCHANGED <<val, head, tail, idCntr, dataAlloc, gateVars, callVars, loc, given>>

\* slip: the tail stored rather than swapped
StoreTail(p, after) == tail' = [tail EXCEPT ![loc[p].list] = after]

\* the CAS on the tail; a failure means another process has moved it on
SwingTail(p, after) ==
    tail' = IF tail[loc[p].list] = loc[p].before
              THEN [tail EXCEPT ![loc[p].list] = after] ELSE tail

EndSwing(p) ==
    /\ At(p, "endSwing")
    /\ SwingTail(p, Linked(p))
    /\ Goto(p, IF loc[p].list = "queue" THEN "incCount" ELSE "decCount")
    /\ UNCHANGED <<word, val, head, idCntr, dataAlloc, gateVars, callVars, loc, given>>

HelpLo(p) ==
    /\ At(p, "helpLo")
    /\ Set(p, [loc[p] EXCEPT !.after.lo = word[loc[p].before.lo].lo])
    /\ Goto(p, "helpHi")
    /\ UNCHANGED <<memVars, gateVars, callVars, given>>

HelpHi(p) ==
    /\ At(p, "helpHi")
    /\ Set(p, [loc[p] EXCEPT !.after.hi = word[loc[p].before.lo].hi])
    /\ Goto(p, "helpSwing")
    /\ UNCHANGED <<memVars, gateVars, callVars, given>>

\* slip: the tail that another process left behind is waited for
HelpWait(p) ==
    /\ At(p, "helpSwing")
    /\ Goto(p, "endLo")
    /\ UNCHANGED <<memVars, gateVars, callVars, loc, given>>

HelpSwing(p) ==
    /\ At(p, "helpSwing")
    /\ SwingTail(p, loc[p].after)
    /\ Goto(p, "endLo")
    /\ UNCHANGED <<word, val, head, idCntr, dataAlloc, gateVars, callVars, loc, given>>

-----------------------------------------------------------------------------
(* deq and fifo_remove *)

DeqHead(p) ==
    /\ At(p, "deqHead")
    /\ Set(p, [loc[p] EXCEPT !.list = "queue", !.ref = head["queue"].lo])
    /\ Goto(p, "deqTest")
    /\ UNCHANGED <<memVars, gateVars, callVars, given>>

\* head equal to tail: SH_ERR_EMPTY, and the permit is put back
DeqTest(p) ==
    /\ At(p, "deqTest")
    /\ Goto(p, IF loc[p].ref = tail["queue"].lo THEN "postDeq" ELSE "fifoGen")
    /\ UNCHANGED <<memVars, gateVars, callVars, loc, given>>

FifoGen(p) ==
    /\ At(p, "fifoGen")
    /\ Set(p, [loc[p] EXCEPT !.refGen = head["queue"].hi])
    /\ Goto(p, "fifoHead")
    /\ UNCHANGED <<memVars, gateVars, callVars, given>>

FifoHead(p) ==
    /\ At(p, "fifoHead")
    /\ Set(p, [loc[p] EXCEPT !.ref = head["queue"].lo])
    /\ Goto(p, "fifoTest")
    /\ UNCHANGED <<memVars, gateVars, callVars, given>>

FifoTest(p) ==
    /\ At(p, "fifoTest")
    /\ Goto(p, IF loc[p].ref = tail["queue"].lo THEN "deqHead" ELSE "fifoNext")
    /\ UNCHANGED <<memVars, gateVars, callVars, loc, given>>

\* next_item; it asserts that head is positive and gives up on a zeroed node
FifoNext(p) ==
    /\ At(p, "fifoNext")
    /\ IF loc[p].ref = Null
         THEN Goto(p, "abort") /\ UNCHANGED loc
         ELSE LET next == word[loc[p].ref].lo
              IN /\ Set(p, [loc[p] EXCEPT !.next = next])
                 /\ Goto(p, IF next = Null THEN "deqHead" ELSE "fifoData")
    /\ UNCHANGED <<memVars, gateVars, callVars, given>>

FifoData(p) ==
    /\ At(p, "fifoData")
    /\ LET data == val[loc[p].next]
       IN /\ Set(p, [loc[p] EXCEPT !.data = data])
          /\ Goto(p, IF data = NoItem THEN "deqHead" ELSE "frontTest")
    /\ UNCHANGED <<memVars, gateVars, callVars, given>>

-----------------------------------------------------------------------------

Alloc(p) == PoolGen(p) \/ PoolHead(p) \/ PoolTest(p) \/ PoolClear(p) \/ Bump(p) \/ Store(p)

RemoveFront(p) == FrontTest(p) \/ FrontNext(p) \/ FrontCas(p) \/ FrontZero(p)

AddEnd(p) ==
    \/ EndGen(p) \/ EndStore(p) \/ EndLo(p) \/ EndHi(p) \/ EndTest(p)
    \/ EndLink(p) \/ EndSwing(p) \/ HelpLo(p) \/ HelpHi(p) \/ HelpSwing(p)

FifoRemove(p) ==
    \/ DeqHead(p) \/ DeqTest(p) \/ FifoGen(p) \/ FifoHead(p) \/ FifoTest(p)
    \/ FifoNext(p) \/ FifoData(p)

Gates(p) ==
    \/ EnqGateTry(p) \/ DeqGateTry(p) \/ PostDeq(p) \/ PostEnq(p)
    \/ IncCount(p) \/ DecCount(p)

Step(p) == Gates(p) \/ Alloc(p) \/ RemoveFront(p) \/ AddEnd(p) \/ FifoRemove(p)

\* the process is killed in the middle of a call
Crash(p) ==
    /\ p \in Mortal \ dead /\ pc[p] \notin {"idle", "abort"}
    /\ prologue = <<>>
    /\ dead' = dead \cup {p}
    /\ UNCHANGED <<memVars, gateVars, todo, prologue, pc, loc, given>>

Over(p) == p \in dead \/ (pc[p] = "idle" /\ prologue = <<>> /\ todo[p] = <<>>)

\* every call has returned
Done == (\A p \in Procs : Over(p)) /\ UNCHANGED vars

Next == (\E p \in Procs : Step(p) \/ Crash(p)) \/ Done

\* the operating system runs every process that has not been killed
Spec == Init /\ [][Next]_vars /\ \A p \in Procs : WF_vars(Step(p))
-----------------------------------------------------------------------------
(* What is true of the lists *)

\* the nodes met along the next references; the last one refers to itself
Follow == [n \in Nodes \cup {Null} |-> IF n = Null THEN Null ELSE word[n].lo]

Walk(l) ==
    LET walk[k \in 1..MaxNodes] == IF k = 1 THEN head[l].lo ELSE Follow[walk[k - 1]]
    IN walk

\* the nodes of list l in order: the walk without the repetitions of its end
Chain(l) == SubSeq(Walk(l), 1, Cardinality(Range(Walk(l))))

\* the items in the queue: the values behind the dummy
Queued == LET chain == Chain("queue")
          IN [i \in 1..(Len(chain) - 1) |->
                 IF chain[i + 1] = Null THEN NoItem ELSE val[chain[i + 1]]]

\* where a process owns a node that is in no list
HoldLabels == {"frontZero", "poolClear", "store", "endGen", "endStore", "endLo", "endHi",
               "endTest", "endLink", "helpLo", "helpHi", "helpSwing"}
HoldsNode(p) == pc[p] \in HoldLabels

Held == {loc[p].slot : p \in {q \in Procs : HoldsNode(q)}}

TypeOK ==
    /\ word \in [Nodes -> Word]
    /\ val \in [Nodes -> Items \cup {NoItem}]
    /\ head \in [Lists -> Word]
    /\ tail \in [Lists -> Word]
    /\ idCntr \in Nat
    /\ dataAlloc \in 1..(MaxNodes + 1)
    /\ enqSem \in Nat
    /\ deqSem \in Nat
    /\ count \in Int
    /\ pc \in [Procs -> Labels]
    /\ loc \in [Procs -> Locals]
    /\ todo \in [Procs -> Seq(Calls)]
    /\ prologue \in Seq(Calls)
    /\ dead \subseteq Procs
    /\ given \in [Procs -> Items \cup {NoItem}]

(***************************************************************************)
(* Where a step reads or writes a node through a local variable, that      *)
(* variable refers to a node, and a call in progress is one of the calls   *)
(* left: with TypeOK, an inductive invariant.                              *)
(***************************************************************************)
UsesRef    == {"frontNext", "frontCas"}
UsesSlot   == HoldLabels \cup {"endSwing"}
UsesBefore == {"endLink", "helpLo", "helpHi", "helpSwing"}
RefersToNodes(label, l) ==
    /\ label \in UsesRef => l.ref \in Nodes
    /\ label \in UsesSlot => l.slot \in Nodes
    /\ label \in UsesBefore => l.before.lo \in Nodes
    /\ label = "fifoData" => l.next \in Nodes

LocalsOK ==
    \A p \in Procs :
        /\ RefersToNodes(pc[p], loc[p])
        /\ pc[p] # "idle" => MayCall(p)

(***************************************************************************)
(* Every node that was ever allocated is in exactly one place: once in the *)
(* queue, once in the pool, or with one process (add_end: "memory at slot  *)
(* is appended to last item in list"; remove_front: "memory at ref slot is *)
(* removed from front of list").  No node is lost and none is shared.      *)
(***************************************************************************)
Last(chain) == chain[Len(chain)]

NodesConserved ==
    LET queue == Chain("queue")
        free  == Chain("free")
        inQueue == Range(queue)
        inFree  == Range(free)
    IN /\ \A chain \in {queue, free} : Follow[Last(chain)] = Last(chain) /\ Last(chain) # Null
       /\ inQueue \cap inFree = {}
       /\ (inQueue \cup inFree) \cap Held = {}
       /\ \A p, q \in Procs :
             (p # q /\ HoldsNode(p) /\ HoldsNode(q)) => loc[p].slot # loc[q].slot
       /\ inQueue \cup inFree \cup Held = 1..(dataAlloc - 1)

(***************************************************************************)
(* The tail is the last node or the one before it, so that one round of    *)
(* help in add_end finishes what another process began, and the head never *)
(* passes it (remove_front's test).  Once it is the last node, the tail    *)
(* also has that node's generation: else the CAS that links the next node  *)
(* would fail for ever.                                                    *)
(***************************************************************************)
TailNearEnd ==
    \A l \in Lists :
        LET chain == Chain(l)
            last  == Len(chain)
        IN /\ \E i \in {last - 1, last} \cap DOMAIN chain : tail[l].lo = chain[i]
           /\ tail[l].lo = chain[last] => tail[l] = word[chain[last]]

(***************************************************************************)
(* A call in progress has a permit of one of the semaphores: an add has    *)
(* one of ENQ_SEM until its node is linked, a remove one of DEQ_SEM until  *)
(* it has moved the head.  From then on they hold what they will post.     *)
(***************************************************************************)
PoolLabels  == {"poolGen", "poolHead", "poolTest", "poolClear", "bump", "store"}
FrontLabels == {"frontTest", "frontNext", "frontCas"}
EndLabels   == {"endGen", "endStore", "endLo", "endHi", "endTest", "endLink",
                "helpLo", "helpHi", "helpSwing"}
FifoLabels  == {"deqHead", "deqTest", "fifoGen", "fifoHead", "fifoTest", "fifoNext", "fifoData"}

Unlinked(p) ==      \* an add whose item is not in the queue yet
    \/ pc[p] \in PoolLabels
    \/ pc[p] \in FrontLabels \cup {"frontZero"} /\ loc[p].list = "free"
    \/ pc[p] \in EndLabels /\ loc[p].list = "queue"

Uncounted(p) ==     \* an add whose item is queued and not counted
    pc[p] = "incCount" \/ (pc[p] = "endSwing" /\ loc[p].list = "queue")

Looking(p) ==       \* a remove that has taken nothing yet
    pc[p] \in FifoLabels \/ (pc[p] \in FrontLabels /\ loc[p].list = "queue")

Taken(p) ==         \* a remove whose item is still counted
    \/ pc[p] = "frontZero" /\ loc[p].list = "queue"
    \/ pc[p] \in EndLabels \cup {"endSwing"} /\ loc[p].list = "free"
    \/ pc[p] = "decCount"

Number(Phase(_)) == Cardinality({p \in Procs : Phase(p)})
HoldsEnq(p) == Unlinked(p) \/ Taken(p) \/ pc[p] = "postEnq"
HoldsDeq(p) == Uncounted(p) \/ Looking(p) \/ pc[p] = "postDeq"

(***************************************************************************)
(* The semaphores and COUNT account for every item: ENQ_SEM starts at      *)
(* MaxDepth and bounds the queue; a remove that passed deq_gate_try has an *)
(* item to take; COUNT differs from the queue's length by the calls that   *)
(* are between the list and the counter, and is never below the permits,   *)
(* so post_process_deq never makes it negative.                            *)
(***************************************************************************)
ItemsAccounted ==
    LET length == Len(Queued)
    IN /\ enqSem + Number(HoldsEnq) + length = MaxDepth
       /\ deqSem + Number(HoldsDeq) = length
       /\ count = length - Number(Uncounted) + Number(Taken)
       /\ count >= deqSem

(***************************************************************************)
(* The permits alone: every permit is in a semaphore or with one call.     *)
(***************************************************************************)
Busy == {p \in Procs : pc[p] # "idle"}
PermitsConserved == enqSem + deqSem + Cardinality(Busy) = MaxDepth

(***************************************************************************)
(* "SH_ERR_EMPTY if q is empty" (shr_q_remove): a remove that passed the   *)
(* gate finds the head equal to the tail only when it has read a head that *)
(* another remove has taken since.  The tail that lags behind a linked     *)
(* node never hides an item it has a permit for.                           *)
(***************************************************************************)
EmptyOnlyIfStale ==
    \A p \in Procs :
        (pc[p] = "deqTest" /\ loc[p].ref = tail["queue"].lo) => loc[p].ref # head["queue"].lo

(***************************************************************************)
(* The list is the queue of AbsQueue: an add puts its item when its node   *)
(* is linked, a remove gets the first item when it moves the head.         *)
(***************************************************************************)
Abs == INSTANCE AbsQueue
         WITH queue <- Queued, stack <- <<>>, Takers <- Procs, Items <- Procs \X (1..MaxCalls)
AbsQueueSpec == Abs!AbsSpec

(***************************************************************************)
(* Lock-freedom: whoever is killed wherever, every other call returns.     *)
(***************************************************************************)
EveryCallReturns == <>(\A p \in Procs : Over(p))

=============================================================================
