---------------------------- MODULE QueueEvents ----------------------------
(***************************************************************************)
(* The events of a queue and the signals that announce them: add_event and *)
(* its callers in post_process_enq, post_process_deq and                   *)
(* check_for_level_event, the subscriptions kept in FLAGS, the event list  *)
(* with EVNT_SEM, signal_event and signal_arrival.                         *)
(*                                                                         *)
(* Callers add and remove; what they do to the lists is in ShrList and     *)
(* QueueGates, and only the semaphores and COUNT are kept here.  Two more  *)
(* processes are told by signal: the monitor reads events with shr_q_event *)
(* until there is none (sharedq_monitor of the command), the listener      *)
(* removes items with shr_q_remove until it gets SH_ERR_EMPTY.  A signal   *)
(* sent while the same one is pending is merged with it.                   *)
(*                                                                         *)
(* Out of scope: SQ_EVNT_TIME's clock (any item may prove to be expired),  *)
(* the call signal, registering while calls are in progress, and more than *)
(* one process that reads events.                                          *)
(***************************************************************************)
EXTENDS Integers, Sequences, FiniteSets

CONSTANTS
    Callers,            \* processes and threads that add and remove
    MaxDepth,           \* array[ MAX_DEPTH ]
    Level,              \* array[ LEVEL ], 0 when it was never set
    Subscribable,       \* the events somebody may subscribe to, "ALL" among them or not
    MaxSubscriptions,   \* bound on the calls of shr_q_subscribe
    Registered          \* which of "monitor" and "listener" have registered

Kinds == {"INIT", "LIMIT", "TIME", "LEVEL", "EMPTY", "NONEMPTY"}
Flags == Kinds \cup {"ACTIVATED"}

ASSUME EventsAssumption ==
    /\ IsFiniteSet(Callers)
    /\ MaxDepth \in Nat \ {0}
    /\ Level \in Nat
    /\ Subscribable \subseteq Kinds \cup {"ALL"}
    /\ MaxSubscriptions \in Nat
    /\ Registered \subseteq {"monitor", "listener"}

VARIABLES
    enqSem, deqSem, count,
    flags,              \* array[ FLAGS ]
    events, evntSem,    \* the event list, array[ EVNT_SEM ]
    told, arrived,      \* whether a signal is pending for the monitor, the listener
    monitor, listener,  \* what they do
    pc, loc,            \* what each caller does, its local variables
    subscriptions,      \* calls of shr_q_subscribe so far
    owed,               \* subscriptions neither withdrawn nor answered by a read event
    extra               \* events for which no subscription was taken

itemVars   == <<enqSem, deqSem, count>>
eventVars  == <<events, evntSem>>
readerVars == <<told, arrived, monitor, listener>>
ghostVars  == <<subscriptions, owed, extra>>
vars == <<itemVars, flags, eventVars, readerVars, pc, loc, ghostVars>>

Labels == {"idle", "push", "activate", "raise", "read", "cas", "append", "postEvent",
           "signal", "arrival", "postDeq", "level", "take", "postEnq"}

Locals == [
    prev   : Nat,               \* COUNT before the item was counted
    todo   : Seq(Kinds),        \* the calls of add_event still to be made
    saw    : SUBSET Flags,      \* prev of add_event
    signal : BOOLEAN,           \* need_signal
    then   : {"idle", "arrival", "postEnq"} ]

NoLocals == [prev |-> 0, todo |-> <<>>, saw |-> {}, signal |-> FALSE, then |-> "idle"]

\* is_monitored: NOTIFY_PID and NOTIFY_SIGNAL are set; likewise for the arrivals
Notify == "monitor" \in Registered
Listen == "listener" \in Registered

\* the queue is new, and whoever wants to be told of it has registered
Init ==
    /\ enqSem = MaxDepth /\ deqSem = 0 /\ count = 0
    /\ flags = {}
    /\ events = <<>> /\ evntSem = 0
    /\ told = FALSE /\ arrived = FALSE
    /\ monitor = "waits" /\ listener = "waits"
    /\ pc = [p \in Callers |-> "idle"]
    /\ loc = [p \in Callers |-> NoLocals]
    /\ subscriptions = 0
    /\ owed = [k \in Kinds |-> 0] /\ extra = [k \in Kinds |-> 0]

-----------------------------------------------------------------------------

Goto(p, label) == pc' = [pc EXCEPT ![p] = label]
Go(p, from, to) == pc[p] = from /\ Goto(p, to)
Set(p, l) == loc' = [loc EXCEPT ![p] = l]

When(condition, kind) == IF condition THEN <<kind>> ELSE <<>>

(* add_event: its calls are made in the order of loc[p].todo *)

RaiseDone(p) == [loc[p] EXCEPT !.todo = Tail(@), !.saw = {}]

\* slip: need_signal = add_event( ... ) instead of |=
RaiseTestForgets(p) ==
    /\ pc[p] = "raise" /\ loc[p].todo # <<>>
    /\ IF Head(loc[p].todo) \in flags
         THEN Goto(p, "read") /\ UNCHANGED loc
         ELSE Set(p, [RaiseDone(p) EXCEPT !.signal = FALSE]) /\ UNCHANGED pc
    /\ UNCHANGED <<itemVars, flags, eventVars, readerVars, ghostVars>>

\* event_disabled
RaiseTest(p) ==
    /\ pc[p] = "raise" /\ loc[p].todo # <<>>
    /\ IF Head(loc[p].todo) \in flags
         THEN Goto(p, "read") /\ UNCHANGED loc
         ELSE Set(p, RaiseDone(p)) /\ UNCHANGED pc
    /\ UNCHANGED <<itemVars, flags, eventVars, readerVars, ghostVars>>

\* FLAGS is read again: the flag that the test found may be gone
RaiseRead(p) ==
    /\ Go(p, "read", "cas")
    /\ Set(p, [loc[p] EXCEPT !.saw = flags])
    /\ UNCHANGED <<itemVars, flags, eventVars, readerVars, ghostVars>>

\* the event of p is raised without a subscription if prev had none
CountExtra(p) ==
    extra' = IF Head(loc[p].todo) \in loc[p].saw THEN extra
             ELSE [extra EXCEPT ![Head(loc[p].todo)] = @ + 1]

\* slip: FLAGS stored rather than swapped
RaiseStore(p) ==
    /\ Go(p, "cas", "append")
    /\ flags' = loc[p].saw \ {Head(loc[p].todo)}
    /\ CountExtra(p)
    /\ UNCHANGED <<itemVars, eventVars, readerVars, loc, subscriptions, owed>>

\* If any flag has changed since they were read the event is not raised.
\* An exchange that has nothing to clear succeeds like any other.
RaiseCas(p) ==
    /\ pc[p] = "cas"
    /\ IF flags = loc[p].saw
         THEN /\ flags' = flags \ {Head(loc[p].todo)}
              /\ CountExtra(p)
              /\ Goto(p, "append")
              /\ UNCHANGED loc
         ELSE /\ Goto(p, "raise")
              /\ Set(p, RaiseDone(p))
              /\ UNCHANGED <<flags, extra>>
    /\ UNCHANGED <<itemVars, eventVars, readerVars, subscriptions, owed>>

RaiseAppend(p) ==
    /\ Go(p, "append", "postEvent")
    /\ events' = Append(events, Head(loc[p].todo))
    /\ UNCHANGED <<itemVars, flags, evntSem, readerVars, loc, ghostVars>>

\* slip: EVNT_SEM is posted for an event that got no node
RaiseNoMemPosts(p) ==
    /\ Go(p, "append", "postEvent")
    /\ owed' = [owed EXCEPT ![Head(loc[p].todo)] = @ - 1]
    /\ UNCHANGED <<itemVars, flags, eventVars, readerVars, loc, subscriptions, extra>>

\* no node for the event: it is lost
RaiseNoMem(p) ==
    /\ Go(p, "append", "raise")
    /\ owed' = [owed EXCEPT ![Head(loc[p].todo)] = @ - 1]
    /\ Set(p, RaiseDone(p))
    /\ UNCHANGED <<itemVars, flags, eventVars, readerVars, subscriptions, extra>>

RaisePost(p) ==
    /\ Go(p, "postEvent", "raise")
    /\ evntSem' = evntSem + 1
    /\ Set(p, [RaiseDone(p) EXCEPT !.signal = TRUE])
    /\ UNCHANGED <<itemVars, flags, events, readerVars, ghostVars>>

\* signal_event, if an event was raised
Signal(p) ==
    /\ pc[p] = "raise" /\ loc[p].todo = <<>>
    /\ told' = (told \/ (loc[p].signal /\ Notify))
    /\ Goto(p, loc[p].then)
    /\ Set(p, NoLocals)
    /\ UNCHANGED <<itemVars, flags, eventVars, arrived, monitor, listener, ghostVars>>

Raise(p) ==
    \/ RaiseTest(p) \/ RaiseRead(p) \/ RaiseCas(p)
    \/ RaiseAppend(p) \/ RaiseNoMem(p) \/ RaisePost(p)
    \/ Signal(p)

-----------------------------------------------------------------------------
(* shr_q_add: enq_data, post_process_enq, deq_release_gate, check_for_level_event *)

AddGate(p) ==
    /\ Go(p, "idle", "push")
    /\ enqSem > 0
    /\ enqSem' = enqSem - 1
    /\ UNCHANGED <<deqSem, count, flags, eventVars, readerVars, loc, ghostVars>>

Push(p) ==
    /\ Go(p, "push", "activate")
    /\ count' = count + 1
    /\ Set(p, [loc[p] EXCEPT !.prev = count])
    /\ UNCHANGED <<enqSem, deqSem, flags, eventVars, readerVars, ghostVars>>

\* set_flag( FLAG_ACTIVATED ), and which events this add may cause
Activate(p) ==
    /\ Go(p, "activate", "raise")
    /\ flags' = flags \cup {"ACTIVATED"}
    /\ Set(p, [loc[p] EXCEPT
                 !.todo = When("ACTIVATED" \notin flags, "INIT")
                            \o When(loc[p].prev = 0, "NONEMPTY")
                            \o When(loc[p].prev = MaxDepth - 1, "LIMIT"),
                 !.then = "arrival"])
    /\ UNCHANGED <<itemVars, eventVars, readerVars, ghostVars>>

\* signal_arrival: only when no item could be taken before this one
Arrival(p) ==
    /\ Go(p, "arrival", "postDeq")
    /\ arrived' = (arrived \/ (Listen /\ deqSem = 0))
    /\ UNCHANGED <<itemVars, flags, eventVars, told, monitor, listener, loc, ghostVars>>

PostDeq(p) ==
    /\ Go(p, "postDeq", "level")
    /\ deqSem' = deqSem + 1
    /\ UNCHANGED <<enqSem, count, flags, eventVars, readerVars, loc, ghostVars>>

CheckLevel(p) ==
    /\ pc[p] = "level"
    /\ IF Level > 0 /\ "LEVEL" \in flags /\ count >= Level
         THEN Goto(p, "raise") /\ Set(p, [loc[p] EXCEPT !.todo = <<"LEVEL">>])
         ELSE Goto(p, "idle") /\ UNCHANGED loc
    /\ UNCHANGED <<itemVars, flags, eventVars, readerVars, ghostVars>>

Add(p) == AddGate(p) \/ Push(p) \/ Activate(p) \/ Arrival(p) \/ PostDeq(p) \/ CheckLevel(p)

(* shr_q_remove: deq, post_process_deq, enq_release_gate *)

\* slip: what the semaphore says is not looked at
RemoveGateForced(p) ==
    /\ Go(p, "idle", "take")
    /\ deqSem' = deqSem - 1
    /\ UNCHANGED <<enqSem, count, flags, eventVars, readerVars, loc, ghostVars>>

RemoveGate(p) ==
    /\ Go(p, "idle", "take")
    /\ deqSem > 0
    /\ deqSem' = deqSem - 1
    /\ UNCHANGED <<enqSem, count, flags, eventVars, readerVars, loc, ghostVars>>

Take(p) ==
    /\ Go(p, "take", "raise")
    /\ count' = count - 1
    /\ \E expired \in BOOLEAN :
          Set(p, [loc[p] EXCEPT
                    !.todo = When(count = 1, "EMPTY") \o When(expired, "TIME"),
                    !.then = "postEnq"])
    /\ UNCHANGED <<enqSem, deqSem, flags, eventVars, readerVars, ghostVars>>

PostEnq(p) ==
    /\ Go(p, "postEnq", "idle")
    /\ enqSem' = enqSem + 1
    /\ UNCHANGED <<deqSem, count, flags, eventVars, readerVars, loc, ghostVars>>

Remove(p) == RemoveGate(p) \/ Take(p) \/ PostEnq(p)

-----------------------------------------------------------------------------
(* subscriptions *)

\* get_event_flag: the flags that SQ_EVNT_ALL stands for
EventFlags(event) == IF event = "ALL" THEN Kinds ELSE {event}

\* set_flag stops as soon as it finds one of the flags set
SetFlag(indicator) == IF flags \cap indicator = {} THEN flags \cup indicator ELSE flags

Subscribe(event) ==
    /\ subscriptions < MaxSubscriptions
    /\ subscriptions' = subscriptions + 1
    /\ flags' = SetFlag(EventFlags(event))
    /\ owed' = [k \in Kinds |-> IF k \in flags' \ flags THEN owed[k] + 1 ELSE owed[k]]
    /\ UNCHANGED <<itemVars, eventVars, readerVars, pc, loc, extra>>

\* clear_flag
Unsubscribe(event) ==
    /\ flags \cap EventFlags(event) # {}
    /\ flags' = flags \ EventFlags(event)
    /\ owed' = [k \in Kinds |-> IF k \in flags \ flags' THEN owed[k] - 1 ELSE owed[k]]
    /\ UNCHANGED <<itemVars, eventVars, readerVars, pc, loc, subscriptions, extra>>

(* the monitor: sem_wait, then shr_q_event until SQ_EVNT_NONE *)

MonitorWakes ==
    /\ monitor = "waits" /\ told
    /\ told' = FALSE
    /\ monitor' = "reads"
    /\ UNCHANGED <<itemVars, flags, eventVars, arrived, listener, pc, loc, ghostVars>>

EventGate ==
    /\ monitor = "reads"
    /\ IF evntSem > 0
         THEN evntSem' = evntSem - 1 /\ monitor' = "takes"
         ELSE monitor' = "waits" /\ UNCHANGED evntSem
    /\ UNCHANGED <<itemVars, flags, events, told, arrived, listener, pc, loc, ghostVars>>

\* remove_front of the event list; SQ_EVNT_NONE when it is empty
EventTake ==
    /\ monitor = "takes"
    /\ IF events # <<>>
         THEN /\ events' = Tail(events)
              /\ owed' = [owed EXCEPT ![Head(events)] = @ - 1]
              /\ monitor' = "reads"
         ELSE /\ monitor' = "waits"
              /\ UNCHANGED <<events, owed>>
    /\ UNCHANGED <<itemVars, flags, evntSem, told, arrived, listener, pc, loc, subscriptions,
                   extra>>

Monitor == MonitorWakes \/ EventGate \/ EventTake

(* the listener: shr_q_remove until SH_ERR_EMPTY *)

ListenerWakes ==
    /\ listener = "waits" /\ arrived
    /\ arrived' = FALSE
    /\ listener' = "removes"
    /\ UNCHANGED <<itemVars, flags, eventVars, told, monitor, pc, loc, ghostVars>>

\* its removes raise no event here: Callers show what a remove raises
ListenerRemoves ==
    /\ listener = "removes"
    /\ IF deqSem > 0
         THEN /\ deqSem' = deqSem - 1 /\ count' = count - 1 /\ enqSem' = enqSem + 1
              /\ UNCHANGED listener
         ELSE listener' = "waits" /\ UNCHANGED itemVars
    /\ UNCHANGED <<flags, eventVars, told, arrived, monitor, pc, loc, ghostVars>>

Listener == ListenerWakes \/ ListenerRemoves

-----------------------------------------------------------------------------

Work(p) == pc[p] # "idle" /\ (Add(p) \/ Remove(p) \/ Raise(p))

Next ==
    \/ \E p \in Callers : Add(p) \/ Remove(p) \/ Raise(p)
    \/ \E event \in Subscribable : Subscribe(event) \/ Unsubscribe(event)
    \/ Monitor
    \/ Listener

\* a call that has begun goes on, and whoever was told of something looks
Spec ==
    /\ Init /\ [][Next]_vars
    /\ \A p \in Callers : WF_vars(Work(p))
    /\ WF_vars(Monitor) /\ WF_vars(Listener)

-----------------------------------------------------------------------------

TypeOK ==
    /\ enqSem \in 0..MaxDepth /\ deqSem \in 0..MaxDepth /\ count \in 0..MaxDepth
    /\ flags \subseteq Flags
    /\ events \in Seq(Kinds) /\ evntSem \in Nat
    /\ {told, arrived} \subseteq BOOLEAN
    /\ monitor \in {"waits", "reads", "takes"}
    /\ listener \in {"waits", "removes"}
    /\ pc \in [Callers -> Labels]
    /\ loc \in [Callers -> Locals]
    /\ subscriptions \in 0..MaxSubscriptions
    /\ owed \in [Kinds -> Int] /\ extra \in [Kinds -> Nat]

Raising(k) == {p \in Callers : pc[p] = "append" /\ Head(loc[p].todo) = k}
Unread(k)  == {i \in DOMAIN events : events[i] = k}

InHand(k) ==
    Cardinality(flags \cap {k}) + Cardinality(Raising(k)) + Cardinality(Unread(k))

(***************************************************************************)
(* A subscription is in FLAGS, with the one call whose exchange cleared    *)
(* it, or an event on the list, until it is read, withdrawn, or lost for   *)
(* want of memory: neither calls that raise the same event nor the flags   *)
(* that others set or clear meanwhile make it two events or none.  The     *)
(* only other events are those of calls that found the subscription and no *)
(* longer saw it when they read FLAGS for the exchange.                    *)
(***************************************************************************)
SubscriptionsAnswered == \A k \in Kinds : owed[k] + extra[k] = InHand(k)

(***************************************************************************)
(* "insure event is a one shot by clearing subscription atomically"        *)
(* (add_event): whoever raises an event, and however many do, those about  *)
(* to put it on the list and those on it are never more than the calls of  *)
(* shr_q_subscribe so far.                                                 *)
(***************************************************************************)
OneShot ==
    \A k \in Kinds : Cardinality(Raising(k)) + Cardinality(Unread(k)) <= subscriptions

(***************************************************************************)
(* EVNT_SEM counts the events on the list: a reader that passes it finds   *)
(* one, and no event is on the list that nobody will be let through to.    *)
(***************************************************************************)
EventsAccounted ==
    Len(events) = evntSem + Cardinality({p \in Callers : pc[p] = "postEvent"})
                    + (IF monitor = "takes" THEN 1 ELSE 0)

(***************************************************************************)
(* A registered monitor that reads until SQ_EVNT_NONE and then waits for   *)
(* the signal misses no event: need_signal survives the events that are    *)
(* not raised, and the signal comes after the event can be read.  As the   *)
(* subscriptions are bounded, the list does get empty.                     *)
(***************************************************************************)
EventsDelivered == (Notify /\ events # <<>>) ~> (events = <<>>)

(***************************************************************************)
(* shr_q_listen "registers calling process for notification when items     *)
(* arrive on shared queue": when all is quiet, no item is left that a      *)
(* registered listener, which has not been told of anything since it found *)
(* the queue empty, could remove.                                          *)
(***************************************************************************)
ItemsHeardOf ==
    (Listen /\ ~arrived /\ listener = "waits" /\ \A p \in Callers : pc[p] = "idle")
        => deqSem = 0

=============================================================================
