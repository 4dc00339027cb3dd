----------------------------- MODULE QueueCalls -----------------------------
(***************************************************************************)
(* Registration and the pull model: shr_q_monitor, shr_q_listen and        *)
(* shr_q_call, which store a process and a signal in the file in the same  *)
(* way; the remove calls, which tell the registered process that they find *)
(* the queue empty or may have to wait; shr_q_call_count and shr_q_prod;   *)
(* and "sharedq pull", which registers, wakes those who wait already and   *)
(* adds an item for each signal.                                           *)
(*                                                                         *)
(* Composed with QueueLife: a process may have the queue open while it is  *)
(* still being created, or after its name has been taken away.  A list is  *)
(* the number of its items (ShrList and QueueGates have the rest).  A      *)
(* process registers for a signal of its own; one that another process     *)
(* asked for does nothing to it.  Out of scope: the process cannot be      *)
(* signalled for lack of permission or because its queue of signals is     *)
(* full.                                                                   *)
(***************************************************************************)
EXTENDS QueueLife

CONSTANT None   \* no process, no signal: 0 in the file

ASSUME CallsAssumption ==
    /\ None \notin Procs
    /\ Calls = {"create", "attach", "open", "close", "destroy", "add", "remove", "timed",
                "try", "pull", "unregister"}

VARIABLES
    items,              \* the length of each file's queue
    blocks, unblocks,   \* array[ CALL_BLOCKS ] and array[ CALL_UNBLOCKS ]
    registered,         \* array[ CALL_PID ] and array[ CALL_SIGNAL ]
    history,            \* whether registrations have overlapped, and the last one
    prev,               \* local of shr_q_call: the process read before
    looks, to,          \* locals of signal_call: the words read, the process to signal
    tally,              \* local of shr_q_call_count: the first counter, then the result
    signals             \* signals a pulling process has not read yet

queueVars == <<items, blocks, unblocks, registered, history>>
localVars == <<prev, looks, to, tally, signals>>
callVars  == <<queueVars, localVars>>
vars == <<lifeVars, callVars>>

Nobody == [pid |-> None, signal |-> None]

Init ==
    /\ \E scenario \in Scenarios : InitLife(scenario)
    /\ items = [f \in Files |-> 0]
    /\ blocks = [f \in Files |-> 0] /\ unblocks = [f \in Files |-> 0]
    /\ registered = [f \in Files |-> Nobody]
    /\ history = [f \in Files |-> [overlap |-> FALSE, last |-> Nobody]]
    /\ prev = [p \in Procs |-> None]
    /\ looks = [p \in Procs |-> 1]
    /\ to = [p \in Procs |-> None]
    /\ tally = [p \in Procs |-> 0]
    /\ signals = [p \in Procs |-> 0]

-----------------------------------------------------------------------------
(* Registration.  A process registers to pull, or takes the registration away. *)

Registering(p) == Using(p, "pull") \/ Using(p, "unregister")
Asked(p) == IF Call(p) = "unregister" THEN Nobody ELSE [pid |-> p, signal |-> p]

RegRead(p) ==
    /\ Registering(p)
    /\ Goto(p, "regCas")
    /\ prev' = [prev EXCEPT ![p] = registered[handle[p]].pid]
    /\ UNCHANGED <<fileVars, todo, file, step, handle, dead, queueVars, looks, to, tally, signals>>

\* who is between the two stores of a registration; somebody killed there stays there
Halfway(f) == {q \in Procs : pc[q] = "regStore" /\ handle[q] = f}

\* slip: the signal is stored though the exchange has failed
RegCasIgnored(p) ==
    LET f == handle[p]
    IN /\ At(p, "regCas")
       /\ Goto(p, "regStore")
       /\ IF registered[f].pid = prev[p]
            THEN /\ registered' = [registered EXCEPT ![f].pid = Asked(p).pid]
                 /\ history' = [history EXCEPT ![f].overlap = @ \/ Halfway(f) # {}]
            ELSE UNCHANGED <<registered, history>>
       /\ UNCHANGED <<fileVars, todo, file, step, handle, dead, items, blocks, unblocks, localVars>>

\* SH_ERR_STATE when somebody else has registered since
RegCas(p) ==
    LET f == handle[p]
    IN /\ At(p, "regCas")
       /\ IF registered[f].pid = prev[p]
            THEN /\ Goto(p, "regStore") /\ UNCHANGED todo
                 /\ registered' = [registered EXCEPT ![f].pid = Asked(p).pid]
                 /\ history' = [history EXCEPT ![f].overlap = @ \/ Halfway(f) # {}]
            ELSE Quit(p) /\ UNCHANGED <<registered, history>>
       /\ UNCHANGED <<fileVars, file, step, handle, dead, items, blocks, unblocks, localVars>>

RegStore(p) ==
    LET f == handle[p]
    IN /\ At(p, "regStore")
       /\ registered' = [registered EXCEPT ![f].signal = Asked(p).signal]
       /\ history' = [history EXCEPT ![f].last = Asked(p)]
       /\ IF Call(p) = "pull" THEN Goto(p, "countUnblocks") /\ UNCHANGED todo ELSE Finish(p)
       /\ UNCHANGED <<fileVars, file, step, handle, dead, items, blocks, unblocks, localVars>>

Register(p) == RegRead(p) \/ RegCas(p) \/ RegStore(p)

-----------------------------------------------------------------------------
(* shr_q_add; the pulling process goes back to its signals *)

AddEnds(p) == IF Call(p) = "pull" THEN Goto(p, "serve") /\ UNCHANGED todo ELSE Finish(p)

\* slip: whatever the semaphore says
AddGateForced(p) ==
    LET f == handle[p]
    IN /\ Using(p, "add") \/ At(p, "pullAdd")
       /\ Goto(p, "addPush") /\ UNCHANGED todo
       /\ enqSem' = [enqSem EXCEPT ![f] = @ - 1]
       /\ UNCHANGED <<name, made, has, deqSem, file, step, handle, dead, callVars>>

\* SH_ERR_LIMIT, also while ENQ_SEM is not initialized; "sharedq pull" gives up then
AddGate(p) ==
    LET f == handle[p]
    IN /\ Using(p, "add") \/ At(p, "pullAdd")
       /\ IF enqSem[f] > 0
            THEN /\ Goto(p, "addPush") /\ UNCHANGED todo
                 /\ enqSem' = [enqSem EXCEPT ![f] = @ - 1]
            ELSE Quit(p) /\ UNCHANGED enqSem
       /\ UNCHANGED <<name, made, has, deqSem, file, step, handle, dead, callVars>>

\* the list may still be missing: insure_in_range( 0 ) aborts
AddPush(p) ==
    LET f == handle[p]
    IN /\ At(p, "addPush")
       /\ IF "items" \in has[f]
            THEN Goto(p, "addPost") /\ items' = [items EXCEPT ![f] = @ + 1]
            ELSE Goto(p, "abort") /\ UNCHANGED items
       /\ UNCHANGED <<fileVars, todo, file, step, handle, dead, blocks, unblocks, registered,
                      history, localVars>>

AddPost(p) ==
    /\ At(p, "addPost")
    /\ deqSem' = [deqSem EXCEPT ![handle[p]] = @ + 1]
    /\ AddEnds(p)
    /\ UNCHANGED <<name, made, has, enqSem, file, step, handle, dead, callVars>>

Add(p) == AddGate(p) \/ AddPush(p) \/ AddPost(p)

-----------------------------------------------------------------------------
(* shr_q_remove, shr_q_remove_wait and shr_q_remove_timedwait *)

\* deq_gate_try
RemoveTry(p) ==
    LET f == handle[p]
    IN /\ Using(p, "try")
       /\ IF deqSem[f] > 0
            THEN Goto(p, "deq") /\ deqSem' = [deqSem EXCEPT ![f] = @ - 1]
            ELSE Goto(p, "look") /\ UNCHANGED deqSem
       /\ UNCHANGED <<name, made, has, enqSem, todo, file, step, handle, dead, callVars>>

\* deq_gate_blk and deq_gate_tm
RemoveBlocks(p) ==
    /\ Using(p, "remove") \/ Using(p, "timed")
    /\ Goto(p, "look")
    /\ blocks' = [blocks EXCEPT ![handle[p]] = @ + 1]
    /\ UNCHANGED <<fileVars, todo, file, step, handle, dead, items, unblocks, registered,
                   history, localVars>>

\* is_call_monitored and signal_call: each word is read twice before it is used
Looks == <<"signal", "pid", "pid", "signal">>

Signalled(p) ==
    IF Call(p) = "try" THEN Finish(p) ELSE Goto(p, "deqWait") /\ UNCHANGED todo

Look(p) ==
    LET over == registered[handle[p]][Looks[looks[p]]] = None
    IN /\ At(p, "look")
       /\ looks' = [looks EXCEPT ![p] = IF over \/ @ = 4 THEN 1 ELSE @ + 1]
       /\ IF over THEN Signalled(p)
          ELSE Goto(p, IF looks[p] = 4 THEN "signalPid" ELSE "look") /\ UNCHANGED todo
       /\ UNCHANGED <<fileVars, file, step, handle, dead, queueVars, prev, to, tally, signals>>

SignalPid(p) ==
    /\ At(p, "signalPid")
    /\ Goto(p, "signalSend")
    /\ to' = [to EXCEPT ![p] = registered[handle[p]].pid]
    /\ UNCHANGED <<fileVars, todo, file, step, handle, dead>>
    /\ UNCHANGED <<queueVars, prev, looks, tally, signals>>

\* sigqueue; nothing comes of a signal to nobody, to the dead, or not the receiver's own
SignalSend(p) ==
    LET reaches == to[p] \in Procs \ dead /\ registered[handle[p]].signal = to[p]
    IN /\ At(p, "signalSend")
       /\ signals' = IF reaches THEN [signals EXCEPT ![to[p]] = @ + 1] ELSE signals
       /\ to' = [to EXCEPT ![p] = None]
       /\ Signalled(p)
       /\ UNCHANGED <<fileVars, file, step, handle, dead, queueVars, prev, looks, tally>>

\* sem_wait or sem_timedwait
DeqWait(p) ==
    LET f == handle[p]
    IN /\ At(p, "deqWait")
       /\ deqSem[f] > 0
       /\ Goto(p, "unblock")
       /\ deqSem' = [deqSem EXCEPT ![f] = @ - 1]
       /\ UNCHANGED <<name, made, has, enqSem, todo, file, step, handle, dead, callVars>>

DeqTimeout(p) ==
    /\ At(p, "deqWait")
    /\ Call(p) = "timed" /\ deqSem[handle[p]] = 0
    /\ Goto(p, "timedOut")
    /\ UNCHANGED <<fileVars, todo, file, step, handle, dead, callVars>>

Unblock(p) ==
    /\ \/ At(p, "unblock") /\ Goto(p, "deq") /\ UNCHANGED todo
       \/ At(p, "timedOut") /\ Finish(p)
    /\ unblocks' = [unblocks EXCEPT ![handle[p]] = @ + 1]
    /\ UNCHANGED <<fileVars, file, step, handle, dead, items, blocks, registered, history,
                   localVars>>

\* SH_ERR_EMPTY when there is a permit and no item
Deq(p) ==
    LET f == handle[p]
    IN /\ At(p, "deq")
       /\ IF items[f] > 0
            THEN Goto(p, "postEnq") /\ items' = [items EXCEPT ![f] = @ - 1]
            ELSE Goto(p, "deqBack") /\ UNCHANGED items
       /\ UNCHANGED <<fileVars, todo, file, step, handle, dead, blocks, unblocks, registered,
                      history, localVars>>

PostEnq(p) ==
    /\ At(p, "postEnq")
    /\ enqSem' = [enqSem EXCEPT ![handle[p]] = @ + 1]
    /\ Finish(p)
    /\ UNCHANGED <<name, made, has, deqSem, file, step, handle, dead, callVars>>

DeqBack(p) ==
    /\ At(p, "deqBack")
    /\ deqSem' = [deqSem EXCEPT ![handle[p]] = @ + 1]
    /\ Finish(p)
    /\ UNCHANGED <<name, made, has, enqSem, file, step, handle, dead, callVars>>

Remove(p) ==
    \/ RemoveTry(p) \/ RemoveBlocks(p) \/ Look(p) \/ SignalPid(p) \/ SignalSend(p)
    \/ DeqWait(p) \/ DeqTimeout(p) \/ Unblock(p) \/ Deq(p) \/ PostEnq(p) \/ DeqBack(p)

-----------------------------------------------------------------------------
(* "sharedq pull", once it is registered *)

\* slip: the counters are read in the order in which they are written
CallCountSwapped(p) ==
    LET f == handle[p]
    IN /\ \/ At(p, "countUnblocks") /\ Goto(p, "countBlocks")
             /\ tally' = [tally EXCEPT ![p] = blocks[f]]
          \/ At(p, "countBlocks") /\ Goto(p, "prod")
             /\ tally' = [tally EXCEPT ![p] = @ - unblocks[f]]
       /\ UNCHANGED <<fileVars, todo, file, step, handle, dead>>
       /\ UNCHANGED <<queueVars, prev, looks, to, signals>>

CallCount(p) ==
    LET f == handle[p]
    IN /\ \/ At(p, "countUnblocks") /\ Goto(p, "countBlocks")
             /\ tally' = [tally EXCEPT ![p] = unblocks[f]]
          \/ At(p, "countBlocks") /\ Goto(p, "prod")
             /\ tally' = [tally EXCEPT ![p] = blocks[f] - @]
       /\ UNCHANGED <<fileVars, todo, file, step, handle, dead>>
       /\ UNCHANGED <<queueVars, prev, looks, to, signals>>

\* slip: one too few
ProdOneShort(p) ==
    /\ At(p, "prod")
    /\ IF tally[p] > 1
         THEN /\ deqSem' = [deqSem EXCEPT ![handle[p]] = @ + 1]
              /\ tally' = [tally EXCEPT ![p] = @ - 1]
              /\ UNCHANGED pc
         ELSE /\ Goto(p, "serve")
              /\ tally' = [tally EXCEPT ![p] = 0]
              /\ UNCHANGED deqSem
    /\ UNCHANGED <<name, made, has, enqSem, todo, file, step, handle, dead, queueVars, prev,
                   looks, to, signals>>

\* shr_q_prod for each of them
Prod(p) ==
    /\ At(p, "prod")
    /\ IF tally[p] > 0
         THEN /\ deqSem' = [deqSem EXCEPT ![handle[p]] = @ + 1]
              /\ tally' = [tally EXCEPT ![p] = @ - 1]
              /\ UNCHANGED pc
         ELSE /\ Goto(p, "serve")
              /\ tally' = [tally EXCEPT ![p] = 0]
              /\ UNCHANGED deqSem
    /\ UNCHANGED <<name, made, has, enqSem, todo, file, step, handle, dead, queueVars, prev,
                   looks, to, signals>>

\* a signal is read, an item is added
Serve(p) ==
    /\ At(p, "serve")
    /\ signals[p] > 0
    /\ signals' = [signals EXCEPT ![p] = @ - 1]
    /\ Goto(p, "pullAdd")
    /\ UNCHANGED <<fileVars, todo, file, step, handle, dead, queueVars, prev, looks, to, tally>>

\* its input is at an end: the process exits, and stays registered with the signal unanswered
PullEnds(p) ==
    /\ At(p, "pullAdd")
    /\ Quit(p)
    /\ UNCHANGED <<fileVars, file, step, handle, dead, callVars>>

Pull(p) == CallCount(p) \/ Prod(p) \/ Serve(p)

-----------------------------------------------------------------------------

Work(p) == (Life(p) /\ UNCHANGED callVars) \/ Register(p) \/ Add(p) \/ Remove(p) \/ Pull(p)

Next == \E p \in Procs : Work(p) \/ PullEnds(p) \/ (Crash(p) /\ UNCHANGED callVars)

\* the operating system runs every process that has not been killed
Spec == Init /\ [][Next]_vars /\ \A p \in Procs : WF_vars(Work(p))

-----------------------------------------------------------------------------

Labels == LifeLabels \cup
    {"regCas", "regStore", "addPush", "addPost", "pullAdd", "look", "signalPid", "signalSend",
     "unblock", "timedOut", "deq", "postEnq", "deqBack", "countUnblocks", "countBlocks",
     "prod", "serve", "abort"}

Registration == [pid : Procs \cup {None}, signal : Procs \cup {None}]

TypeOK ==
    /\ LifeTypeOK
    /\ pc \in [Procs -> Labels]
    /\ items \in [Files -> Nat]
    /\ blocks \in [Files -> Nat] /\ unblocks \in [Files -> Nat]
    /\ registered \in [Files -> Registration]
    /\ history \in [Files -> [overlap : BOOLEAN, last : Registration]]
    /\ prev \in [Procs -> Procs \cup {None}]
    /\ looks \in [Procs -> 1..4]
    /\ to \in [Procs -> Procs \cup {None}]
    /\ tally \in [Procs -> Nat]
    /\ signals \in [Procs -> Nat]

(***************************************************************************)
(* "Only a single process can be registered": the process and the signal   *)
(* in the file are those of the registration that ended last, one call's   *)
(* both, unless two registrations were between their exchange and their    *)
(* store at the same time.  Then a process can be signalled with another's *)
(* signal, or not at all.                                                  *)
(***************************************************************************)
PairTogether ==
    \A f \in Files :
        (Halfway(f) = {} /\ ~history[f].overlap) => registered[f] = history[f].last

(***************************************************************************)
(* shr_q_call_count "returns count of blocked remove calls": never fewer   *)
(* than there are when it reads the second counter.  So whoever prods that *)
(* many times wakes all that were blocked before it registered.            *)
(***************************************************************************)
GateLabels == {"look", "signalPid", "signalSend", "deqWait", "lost", "unblock", "timedOut"}
Blocked(f) == {q \in Procs : handle[q] = f /\ pc[q] \in GateLabels /\ Call(q) # "try"}

CallCountCovers ==
    [][ \A p \in Procs :
          (pc[p] = "countBlocks" /\ pc'[p] = "prod")
              => tally'[p] >= Cardinality(Blocked(handle[p])) ]_vars

(***************************************************************************)
(* The pull model works: while a pulling process stays registered and goes *)
(* on, every remove that waits on that queue is woken, by an item or by a  *)
(* prod, whoever pulled before and was killed with signals unread, and     *)
(* whether the remove looked for somebody to signal before or after the    *)
(* registration.  It is excluded that a remove that does not wait takes    *)
(* the item that was added for one that does (it asks for nothing then),   *)
(* and that somebody sleeps on the queue while it is formatted ("lost").   *)
(***************************************************************************)
PullLabels == {"countUnblocks", "countBlocks", "prod", "serve", "pullAdd", "addPush", "addPost"}
Pulled(f) ==
    \E p \in Procs \ dead :
        /\ handle[p] = f /\ pc[p] \in PullLabels /\ Call(p) = "pull"
        /\ registered[f] = [pid |-> p, signal |-> p]

WaitsFor(q) == At(q, "deqWait") /\ Pulled(handle[q])

NoneTaken == \A q \in Procs : pc[q] \in {"deq", "deqBack"} => Call(q) # "try"

PullServes == []NoneTaken => \A q \in Procs : ~<>[]WaitsFor(q)

=============================================================================
