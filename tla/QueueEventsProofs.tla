-------------------------- MODULE QueueEventsProofs --------------------------
(***************************************************************************)
(* What holds of the events of a queue for any number of callers, any      *)
(* depth and level, and any subscriptions: no subscription is lost or taken *)
(* twice, and EVNT_SEM counts the events on the list.                      *)
(*                                                                         *)
(* The events are accounted for by what a caller inside add_event holds    *)
(* (LocalsOK), and the types need the accounts of the two semaphores and COUNT         *)
(* (Balanced): that COUNT stays within 0..MaxDepth is a fact about all     *)
(* calls in progress.                                                      *)
(***************************************************************************)
EXTENDS QueueEvents, FiniteSetTheorems, SequenceTheorems, TLAPS

RaiseLabels == {"raise", "read", "cas", "append", "postEvent"}

\* a call that has passed its first semaphore and not yet posted the other
InCall(p) ==
    \/ pc[p] \in {"push", "activate", "arrival", "postDeq", "take", "postEnq"}
    \/ pc[p] \in RaiseLabels /\ loc[p].then # "idle"

\* a call whose item is in COUNT and not in DEQ_SEM
Counted(p) ==
    \/ pc[p] \in {"activate", "arrival", "postDeq", "take"}
    \/ pc[p] \in RaiseLabels /\ loc[p].then = "arrival"

InCalls == {p \in Callers : InCall(p)}
Counteds == {p \in Callers : Counted(p)}
Posting == {p \in Callers : pc[p] = "postEvent"}

Balanced ==
    /\ enqSem + deqSem + Cardinality(InCalls) = MaxDepth
    /\ count = deqSem + Cardinality(Counteds)

\* what a caller inside add_event has in its local variables
LocalsOK ==
    \A p \in Callers :
        /\ pc[p] \in {"read", "cas", "append", "postEvent"} => loc[p].todo # <<>>
        /\ pc[p] \notin RaiseLabels => loc[p].then = "idle"

Inv == TypeOK /\ LocalsOK /\ Balanced /\ EventsAccounted /\ SubscriptionsAnswered

-----------------------------------------------------------------------------
(* Counting *)

One(b) == IF b THEN 1 ELSE 0

(***************************************************************************)
(* A set of callers to which one may come or from which it may go.         *)
(***************************************************************************)
LEMMA OneMoves ==
    ASSUME NEW S \in SUBSET Callers, NEW T \in SUBSET Callers, NEW p \in Callers,
           \A q \in Callers \ {p} : q \in T <=> q \in S
    PROVE  /\ Cardinality(S) \in Nat /\ Cardinality(T) \in Nat
           /\ Cardinality(T) = Cardinality(S) + One(p \in T) - One(p \in S)
<1>1. /\ IsFiniteSet(S) /\ Cardinality(S) \in Nat /\ IsFiniteSet(T) /\ Cardinality(T) \in Nat
  BY EventsAssumption, FS_Subset, FS_CardinalityType
<1>2. CASE p \in T
  <2>1. T = S \cup {p}
    BY <1>2
  <2>2. Cardinality(T) = IF p \in S THEN Cardinality(S) ELSE Cardinality(S) + 1
    BY <1>1, <2>1, FS_AddElement
  <2> QED
    BY <1>1, <1>2, <2>2 DEF One
<1>3. CASE p \notin T
  <2>1. T = S \ {p}
    BY <1>3
  <2>2. Cardinality(T) = IF p \in S THEN Cardinality(S) - 1 ELSE Cardinality(S)
    BY <1>1, <2>1, FS_RemoveElement
  <2> QED
    BY <1>1, <1>3, <2>2 DEF One
<1> QED
  BY <1>2, <1>3

\* only p moves
Alone(p) == \A q \in Callers \ {p} : pc'[q] = pc[q] /\ loc'[q] = loc[q]

RaisesNow(p, k) == pc[p] = "append" /\ Head(loc[p].todo) = k

(***************************************************************************)
(* The sets of callers the invariant counts, when one caller moves.        *)
(***************************************************************************)
LEMMA CountsMove ==
    ASSUME NEW p \in Callers, Alone(p)
    PROVE  /\ Cardinality(InCalls) \in Nat /\ Cardinality(InCalls)' \in Nat
           /\ Cardinality(InCalls)' = Cardinality(InCalls) + One(InCall(p)') - One(InCall(p))
           /\ Cardinality(Counteds) \in Nat /\ Cardinality(Counteds)' \in Nat
           /\ Cardinality(Counteds)' = Cardinality(Counteds) + One(Counted(p)') - One(Counted(p))
           /\ Cardinality(Posting) \in Nat
           /\ Cardinality(Posting)' =
                Cardinality(Posting) + One(pc'[p] = "postEvent") - One(pc[p] = "postEvent")
           /\ \A k \in Kinds :
                /\ Cardinality(Raising(k)) \in Nat
                /\ Cardinality(Raising(k))' =
                     Cardinality(Raising(k)) + One(RaisesNow(p, k)') - One(RaisesNow(p, k))
<1>1. /\ InCalls \in SUBSET Callers /\ InCalls' \in SUBSET Callers
      /\ \A q \in Callers \ {p} : q \in InCalls' <=> q \in InCalls
      /\ (p \in InCalls' <=> InCall(p)') /\ (p \in InCalls <=> InCall(p))
  BY DEF InCalls, InCall, Alone
<1>2. /\ Counteds \in SUBSET Callers /\ Counteds' \in SUBSET Callers
      /\ \A q \in Callers \ {p} : q \in Counteds' <=> q \in Counteds
      /\ (p \in Counteds' <=> Counted(p)') /\ (p \in Counteds <=> Counted(p))
  BY DEF Counteds, Counted, Alone
<1>3. /\ Posting \in SUBSET Callers /\ Posting' \in SUBSET Callers
      /\ \A q \in Callers \ {p} : q \in Posting' <=> q \in Posting
      /\ (p \in Posting' <=> pc'[p] = "postEvent") /\ (p \in Posting <=> pc[p] = "postEvent")
  BY DEF Posting, Alone
<1>4. ASSUME NEW k \in Kinds
      PROVE  /\ Cardinality(Raising(k)) \in Nat
             /\ Cardinality(Raising(k))' =
                  Cardinality(Raising(k)) + One(RaisesNow(p, k)') - One(RaisesNow(p, k))
  <2>1. /\ Raising(k) \in SUBSET Callers /\ Raising(k)' \in SUBSET Callers
        /\ \A q \in Callers \ {p} : q \in Raising(k)' <=> q \in Raising(k)
        /\ (p \in Raising(k)' <=> RaisesNow(p, k)') /\ (p \in Raising(k) <=> RaisesNow(p, k))
    BY DEF Raising, RaisesNow, Alone
  <2> QED
    BY <2>1, OneMoves DEF One
<1>5. /\ Cardinality(InCalls) \in Nat /\ Cardinality(InCalls)' \in Nat
      /\ Cardinality(InCalls)' = Cardinality(InCalls) + One(InCall(p)') - One(InCall(p))
  BY <1>1, OneMoves DEF One
<1>6. /\ Cardinality(Counteds) \in Nat /\ Cardinality(Counteds)' \in Nat
      /\ Cardinality(Counteds)' = Cardinality(Counteds) + One(Counted(p)') - One(Counted(p))
  BY <1>2, OneMoves DEF One
<1>7. /\ Cardinality(Posting) \in Nat
      /\ Cardinality(Posting)' =
           Cardinality(Posting) + One(pc'[p] = "postEvent") - One(pc[p] = "postEvent")
  BY <1>3, OneMoves DEF One
<1> QED
  BY <1>4, <1>5, <1>6, <1>7

-----------------------------------------------------------------------------
(* A step of a caller *)

CallStep(p) == Add(p) \/ Remove(p) \/ Raise(p)

(***************************************************************************)
(* The local variables of add_event after each of its assignments.         *)
(***************************************************************************)
LEMMA LocalsKept ==
    ASSUME NEW l \in Locals
    PROVE  /\ NoLocals \in Locals
           /\ \A s \in SUBSET Flags : [l EXCEPT !.saw = s] \in Locals
           /\ \A n \in Nat : [l EXCEPT !.prev = n] \in Locals
           /\ \A s \in Seq(Kinds), w \in {"idle", "arrival", "postEnq"} :
                /\ [l EXCEPT !.todo = s] \in Locals
                /\ [l EXCEPT !.todo = s, !.then = w] \in Locals
           /\ l.todo # <<>> =>
                /\ Head(l.todo) \in Kinds
                /\ [l EXCEPT !.todo = Tail(@), !.saw = {}] \in Locals
                /\ [[l EXCEPT !.todo = Tail(@), !.saw = {}] EXCEPT !.signal = TRUE] \in Locals
<1>1. l.todo \in Seq(Kinds) /\ <<>> \in Seq(Kinds)
  BY DEF Locals
<1>2. l.todo # <<>> => Head(l.todo) \in Kinds /\ Tail(l.todo) \in Seq(Kinds)
  BY <1>1, HeadTailProperties
<1> QED
  BY <1>1, <1>2 DEF Locals, NoLocals

(***************************************************************************)
(* The events an add or a remove may cause are put together in the order   *)
(* of the calls of add_event.                                              *)
(***************************************************************************)
LEMMA WhenKinds ==
    ASSUME NEW a \in BOOLEAN, NEW b \in BOOLEAN, NEW c \in BOOLEAN,
           NEW k \in Kinds, NEW l \in Kinds, NEW m \in Kinds
    PROVE  /\ When(a, k) \o When(b, l) \o When(c, m) \in Seq(Kinds)
           /\ When(a, k) \o When(b, l) \in Seq(Kinds)
<1>1. When(a, k) \in Seq(Kinds) /\ When(b, l) \in Seq(Kinds) /\ When(c, m) \in Seq(Kinds)
  BY DEF When
<1> QED
  BY <1>1, ConcatProperties

(***************************************************************************)
(* A caller moves alone, and keeps its local variables in order.           *)
(***************************************************************************)
LEMMA CallersMove ==
    ASSUME TypeOK, LocalsOK, NEW p \in Callers, CallStep(p)
    PROVE  /\ Alone(p) /\ LocalsOK'
           /\ pc' \in [Callers -> Labels] /\ loc' \in [Callers -> Locals]
<1> DEFINE Result == /\ Alone(p) /\ LocalsOK'
                     /\ pc' \in [Callers -> Labels] /\ loc' \in [Callers -> Locals]
<1>0. /\ pc \in [Callers -> Labels] /\ loc \in [Callers -> Locals]
      /\ flags \subseteq Flags /\ count \in Nat
  BY EventsAssumption DEF TypeOK
<1>a. /\ loc[p] \in Locals /\ NoLocals.then = "idle" /\ NoLocals.todo = <<>>
      /\ loc[p].then \in {"idle", "arrival", "postEnq"}
  BY <1>0 DEF NoLocals, Locals
<1>b. ASSUME NEW label \in Labels, NEW l \in Locals,
             pc' = [pc EXCEPT ![p] = label], loc' = [loc EXCEPT ![p] = l],
             label \in {"read", "cas", "append", "postEvent"} => l.todo # <<>>,
             label \notin RaiseLabels => l.then = "idle"
      PROVE  Result
  BY <1>0, <1>b DEF Alone, LocalsOK
<1>c. loc = [loc EXCEPT ![p] = loc[p]] /\ pc = [pc EXCEPT ![p] = pc[p]]
  BY <1>0
<1>d. [loc[p] EXCEPT !.todo = Tail(@), !.saw = {}] = RaiseDone(p)
  BY DEF RaiseDone
<1>1. ASSUME RaiseTest(p) PROVE Result
  <2>1. pc[p] = "raise" /\ loc[p].todo # <<>>
    BY <1>1 DEF RaiseTest
  <2>2. CASE Head(loc[p].todo) \in flags
    <3>1. pc' = [pc EXCEPT ![p] = "read"] /\ loc' = loc
      BY <1>1, <2>2 DEF RaiseTest, Goto
    <3> QED
      BY <1>a, <1>b, <1>c, <2>1, <3>1 DEF Labels, RaiseLabels
  <2>3. CASE Head(loc[p].todo) \notin flags
    <3>1. pc' = pc /\ loc' = [loc EXCEPT ![p] = RaiseDone(p)]
      BY <1>1, <2>3 DEF RaiseTest, Set
    <3>2. RaiseDone(p) \in Locals
      BY <1>a, <1>d, <2>1, LocalsKept
    <3> QED
      BY <1>b, <1>c, <2>1, <3>1, <3>2 DEF Labels, RaiseLabels
  <2> QED
    BY <2>2, <2>3
<1>16. ASSUME RaiseRead(p) PROVE Result
  <2>1. /\ pc[p] = "read" /\ loc[p].todo # <<>> /\ pc' = [pc EXCEPT ![p] = "cas"]
        /\ loc' = [loc EXCEPT ![p] = [loc[p] EXCEPT !.saw = flags]]
    BY <1>16 DEF RaiseRead, LocalsOK, Go, Goto, Set
  <2>2. [loc[p] EXCEPT !.saw = flags].todo = loc[p].todo
    BY <1>a DEF Locals
  <2> QED
    BY <1>0, <1>a, <1>b, <2>1, <2>2, LocalsKept DEF Labels, RaiseLabels
<1>2. ASSUME RaiseCas(p) PROVE Result
  <2>1. pc[p] = "cas" /\ loc[p].todo # <<>>
    BY <1>2 DEF RaiseCas, LocalsOK
  <2>2. CASE flags = loc[p].saw
    <3>1. pc' = [pc EXCEPT ![p] = "append"] /\ loc' = loc
      BY <1>2, <2>2 DEF RaiseCas, Goto
    <3> QED
      BY <1>a, <1>b, <1>c, <2>1, <3>1 DEF Labels, RaiseLabels
  <2>3. CASE flags # loc[p].saw
    <3>1. pc' = [pc EXCEPT ![p] = "raise"] /\ loc' = [loc EXCEPT ![p] = RaiseDone(p)]
      BY <1>2, <2>3 DEF RaiseCas, Set, Goto
    <3>2. RaiseDone(p) \in Locals
      BY <1>a, <1>d, <2>1, LocalsKept
    <3> QED
      BY <1>b, <2>1, <3>1, <3>2 DEF Labels, RaiseLabels
  <2> QED
    BY <2>2, <2>3
<1>3. ASSUME RaiseAppend(p) PROVE Result
  <2>1. /\ pc[p] = "append" /\ loc[p].todo # <<>>
        /\ pc' = [pc EXCEPT ![p] = "postEvent"] /\ loc' = loc
    BY <1>3 DEF RaiseAppend, LocalsOK, Go, Goto
  <2> QED
    BY <1>a, <1>b, <1>c, <2>1 DEF Labels, RaiseLabels
<1>4. ASSUME RaiseNoMem(p) PROVE Result
  <2>1. /\ pc[p] = "append" /\ loc[p].todo # <<>>
        /\ pc' = [pc EXCEPT ![p] = "raise"] /\ loc' = [loc EXCEPT ![p] = RaiseDone(p)]
    BY <1>4 DEF RaiseNoMem, LocalsOK, Go, Goto, Set
  <2>2. RaiseDone(p) \in Locals
    BY <1>a, <1>d, <2>1, LocalsKept
  <2> QED
    BY <1>b, <2>1, <2>2 DEF Labels, RaiseLabels
<1>5. ASSUME RaisePost(p) PROVE Result
  <2>1. /\ pc[p] = "postEvent" /\ loc[p].todo # <<>>
        /\ pc' = [pc EXCEPT ![p] = "raise"]
        /\ loc' = [loc EXCEPT ![p] = [RaiseDone(p) EXCEPT !.signal = TRUE]]
    BY <1>5 DEF RaisePost, LocalsOK, Go, Goto, Set
  <2>2. [RaiseDone(p) EXCEPT !.signal = TRUE] \in Locals
    BY <1>a, <1>d, <2>1, LocalsKept
  <2> QED
    BY <1>b, <2>1, <2>2 DEF Labels, RaiseLabels
<1>6. ASSUME Signal(p) PROVE Result
  <2>1. pc' = [pc EXCEPT ![p] = loc[p].then] /\ loc' = [loc EXCEPT ![p] = NoLocals]
    BY <1>6 DEF Signal, Goto, Set
  <2> QED
    BY <1>a, <1>b, <2>1, LocalsKept DEF Labels, RaiseLabels
<1>7. ASSUME AddGate(p) PROVE Result
  <2>1. pc[p] = "idle" /\ pc' = [pc EXCEPT ![p] = "push"] /\ loc' = loc
    BY <1>7 DEF AddGate, Go, Goto
  <2> QED
    BY <1>a, <1>b, <1>c, <2>1 DEF Labels, RaiseLabels, LocalsOK
<1>8. ASSUME Push(p) PROVE Result
  <2>1. /\ pc[p] = "push" /\ pc' = [pc EXCEPT ![p] = "activate"]
        /\ loc' = [loc EXCEPT ![p] = [loc[p] EXCEPT !.prev = count]]
    BY <1>8 DEF Push, Go, Goto, Set
  <2>2. [loc[p] EXCEPT !.prev = count].then = "idle"
    BY <1>a, <2>1 DEF Locals, LocalsOK, RaiseLabels
  <2> QED
    BY <1>0, <1>a, <1>b, <2>1, <2>2, LocalsKept DEF Labels, RaiseLabels
<1>9. ASSUME Activate(p) PROVE Result
  <2> DEFINE todo == When("ACTIVATED" \notin flags, "INIT") \o When(loc[p].prev = 0, "NONEMPTY")
                       \o When(loc[p].prev = MaxDepth - 1, "LIMIT")
  <2>1. /\ pc' = [pc EXCEPT ![p] = "raise"]
        /\ loc' = [loc EXCEPT ![p] = [loc[p] EXCEPT !.todo = todo, !.then = "arrival"]]
    BY <1>9 DEF Activate, Go, Goto, Set
  <2>a. "INIT" \in Kinds /\ "NONEMPTY" \in Kinds /\ "LIMIT" \in Kinds
    BY DEF Kinds
  <2>b. \A x, y, z \in BOOLEAN :
            When(x, "INIT") \o When(y, "NONEMPTY") \o When(z, "LIMIT") \in Seq(Kinds)
    BY <2>a, WhenKinds
  <2>2. todo \in Seq(Kinds)
    BY <2>b
  <2>3. [loc[p] EXCEPT !.todo = todo, !.then = "arrival"] \in Locals
    <3> HIDE DEF todo
    <3> QED
      BY <1>a, <2>2, LocalsKept
  <2> QED
    BY <1>b, <2>1, <2>3 DEF Labels, RaiseLabels
<1>10. ASSUME Arrival(p) PROVE Result
  <2>1. pc[p] = "arrival" /\ pc' = [pc EXCEPT ![p] = "postDeq"] /\ loc' = loc
    BY <1>10 DEF Arrival, Go, Goto
  <2> QED
    BY <1>a, <1>b, <1>c, <2>1 DEF Labels, RaiseLabels, LocalsOK
<1>11. ASSUME PostDeq(p) PROVE Result
  <2>1. pc[p] = "postDeq" /\ pc' = [pc EXCEPT ![p] = "level"] /\ loc' = loc
    BY <1>11 DEF PostDeq, Go, Goto
  <2> QED
    BY <1>a, <1>b, <1>c, <2>1 DEF Labels, RaiseLabels, LocalsOK
<1>12. ASSUME CheckLevel(p) PROVE Result
  <2>0. pc[p] = "level" /\ loc[p].then = "idle"
    BY <1>12 DEF CheckLevel, LocalsOK, RaiseLabels
  <2>1. CASE Level > 0 /\ "LEVEL" \in flags /\ count >= Level
    <3>1. /\ pc' = [pc EXCEPT ![p] = "raise"]
          /\ loc' = [loc EXCEPT ![p] = [loc[p] EXCEPT !.todo = <<"LEVEL">>]]
      BY <1>12, <2>1 DEF CheckLevel, Goto, Set
    <3>2. <<"LEVEL">> \in Seq(Kinds)
      BY DEF Kinds
    <3>3. [loc[p] EXCEPT !.todo = <<"LEVEL">>] \in Locals
      BY <1>a, <3>2, LocalsKept
    <3> QED
      BY <1>b, <3>1, <3>3 DEF Labels, RaiseLabels
  <2>2. CASE ~(Level > 0 /\ "LEVEL" \in flags /\ count >= Level)
    <3>1. pc' = [pc EXCEPT ![p] = "idle"] /\ loc' = loc
      BY <1>12, <2>2 DEF CheckLevel, Goto
    <3> QED
      BY <1>a, <1>b, <1>c, <2>0, <3>1 DEF Labels, RaiseLabels
  <2> QED
    BY <2>1, <2>2
<1>13. ASSUME RemoveGate(p) PROVE Result
  <2>1. pc[p] = "idle" /\ pc' = [pc EXCEPT ![p] = "take"] /\ loc' = loc
    BY <1>13 DEF RemoveGate, Go, Goto
  <2> QED
    BY <1>a, <1>b, <1>c, <2>1 DEF Labels, RaiseLabels, LocalsOK
<1>14. ASSUME Take(p) PROVE Result
  <2>1. PICK expired \in BOOLEAN :
            loc' = [loc EXCEPT ![p] =
                      [loc[p] EXCEPT !.todo = When(count = 1, "EMPTY") \o When(expired, "TIME"),
                                     !.then = "postEnq"]]
    BY <1>14 DEF Take, Set
  <2> DEFINE todo == When(count = 1, "EMPTY") \o When(expired, "TIME")
  <2>2. pc' = [pc EXCEPT ![p] = "raise"]
    BY <1>14 DEF Take, Go, Goto
  <2>3. todo \in Seq(Kinds)
    BY WhenKinds DEF Kinds
  <2>4. [loc[p] EXCEPT !.todo = todo, !.then = "postEnq"] \in Locals
    <3> HIDE DEF todo
    <3> QED
      BY <1>a, <2>3, LocalsKept
  <2> QED
    BY <1>b, <2>1, <2>2, <2>4 DEF Labels, RaiseLabels
<1>15. ASSUME PostEnq(p) PROVE Result
  <2>1. pc[p] = "postEnq" /\ pc' = [pc EXCEPT ![p] = "idle"] /\ loc' = loc
    BY <1>15 DEF PostEnq, Go, Goto
  <2> QED
    BY <1>a, <1>b, <1>c, <2>1 DEF Labels, RaiseLabels, LocalsOK
<1> QED
  BY <1>1, <1>2, <1>3, <1>4, <1>5, <1>6, <1>7, <1>8, <1>9, <1>10, <1>11, <1>12, <1>13, <1>14, <1>15,
     <1>16 DEF CallStep, Add, Remove, Raise

(***************************************************************************)
(* The numbers stay within the depth of the queue as long as they balance. *)
(***************************************************************************)
LEMMA BalanceBounds ==
    ASSUME NEW S \in SUBSET Callers, NEW T \in SUBSET S,
           NEW e \in Nat, NEW d \in Nat, NEW c \in Int,
           e + d + Cardinality(S) = MaxDepth, c = d + Cardinality(T)
    PROVE  e \in 0..MaxDepth /\ d \in 0..MaxDepth /\ c \in 0..MaxDepth
<1>1. IsFiniteSet(S)
  BY EventsAssumption, FS_Subset
<1>2. Cardinality(S) \in Nat /\ Cardinality(T) \in Nat /\ Cardinality(T) <= Cardinality(S)
  BY <1>1, FS_Subset, FS_CardinalityType
<1>3. MaxDepth \in Nat
  BY EventsAssumption
<1> QED
  BY <1>2, <1>3

(***************************************************************************)
(* A caller gives to a semaphore or to COUNT what it takes from another    *)
(* or from the call.                                                       *)
(***************************************************************************)
LEMMA CallersBalance ==
    ASSUME TypeOK, LocalsOK, Balanced, NEW p \in Callers, CallStep(p), Alone(p),
           pc' \in [Callers -> Labels], loc' \in [Callers -> Locals]
    PROVE  /\ Balanced'
           /\ enqSem' \in 0..MaxDepth /\ deqSem' \in 0..MaxDepth /\ count' \in 0..MaxDepth
<1> DEFINE Result == Balanced' /\ enqSem' \in Nat /\ deqSem' \in Nat
<1>0. /\ pc \in [Callers -> Labels] /\ loc \in [Callers -> Locals]
      /\ enqSem \in Nat /\ deqSem \in Nat /\ count \in Nat /\ MaxDepth \in Nat
  BY EventsAssumption DEF TypeOK
<1>a. ASSUME enqSem' \in Nat, deqSem' \in Nat, count' \in Int,
             enqSem' + deqSem' + One(InCall(p)') = enqSem + deqSem + One(InCall(p)),
             count' - deqSem' - One(Counted(p)') = count - deqSem - One(Counted(p))
      PROVE  Result
  <2>1. /\ Cardinality(InCalls) \in Nat /\ Cardinality(InCalls)' \in Nat
        /\ Cardinality(InCalls)' = Cardinality(InCalls) + One(InCall(p)') - One(InCall(p))
        /\ Cardinality(Counteds) \in Nat /\ Cardinality(Counteds)' \in Nat
        /\ Cardinality(Counteds)' = Cardinality(Counteds) + One(Counted(p)') - One(Counted(p))
    BY CountsMove
  <2>3. /\ One(InCall(p)) \in Int /\ One(InCall(p)') \in Int
        /\ One(Counted(p)) \in Int /\ One(Counted(p)') \in Int
    BY DEF One
  <2>4. enqSem' + deqSem' + Cardinality(InCalls)' = MaxDepth
    <3>1. \A e, d, i, a, e1, d1, i1, a1 \in Int :
              e + d + i = MaxDepth /\ i1 = i + a1 - a /\ e1 + d1 + a1 = e + d + a
                => e1 + d1 + i1 = MaxDepth
      BY <1>0
    <3>2. enqSem + deqSem + Cardinality(InCalls) = MaxDepth
      BY DEF Balanced
    <3> QED
      BY <1>0, <1>a, <2>1, <2>3, <3>1, <3>2
  <2>5. count' = deqSem' + Cardinality(Counteds)'
    BY <1>0, <1>a, <2>1, <2>3 DEF Balanced
  <2> QED
    BY <1>a, <2>4, <2>5 DEF Balanced
<1>1. ASSUME AddGate(p) PROVE Result
  <2>1. pc[p] = "idle" /\ pc'[p] = "push"
    BY <1>0, <1>1 DEF AddGate, Go, Goto
  <2>2. /\ ~InCall(p) /\ InCall(p)'
        /\ ~Counted(p) /\ ~Counted(p)'
    BY <2>1 DEF InCall, Counted, RaiseLabels
  <2> QED
    BY <1>0, <1>a, <1>1, <2>2 DEF AddGate, One, itemVars
<1>2. ASSUME Push(p) PROVE Result
  <2>1. pc[p] = "push" /\ pc'[p] = "activate"
    BY <1>0, <1>2 DEF Push, Go, Goto
  <2>2. /\ InCall(p) /\ InCall(p)'
        /\ ~Counted(p) /\ Counted(p)'
    BY <2>1 DEF InCall, Counted, RaiseLabels
  <2> QED
    BY <1>0, <1>a, <1>2, <2>2 DEF Push, One, itemVars
<1>3. ASSUME Activate(p) PROVE Result
  <2>1. pc[p] = "activate" /\ pc'[p] = "raise" /\ loc'[p].then = "arrival"
    BY <1>0, <1>3 DEF Activate, Go, Goto, Set, Locals
  <2>2. InCall(p) /\ InCall(p)' /\ Counted(p) /\ Counted(p)'
    BY <2>1 DEF InCall, Counted, RaiseLabels
  <2> QED
    BY <1>0, <1>a, <1>3, <2>2 DEF Activate, One, itemVars
<1>4. ASSUME Arrival(p) PROVE Result
  <2>1. pc[p] = "arrival" /\ pc'[p] = "postDeq"
    BY <1>0, <1>4 DEF Arrival, Go, Goto
  <2>2. /\ InCall(p) /\ InCall(p)'
        /\ Counted(p) /\ Counted(p)'
    BY <2>1 DEF InCall, Counted, RaiseLabels
  <2> QED
    BY <1>0, <1>a, <1>4, <2>2 DEF Arrival, One, itemVars
<1>5. ASSUME PostDeq(p) PROVE Result
  <2>1. pc[p] = "postDeq" /\ pc'[p] = "level"
    BY <1>0, <1>5 DEF PostDeq, Go, Goto
  <2>2. /\ InCall(p) /\ ~InCall(p)'
        /\ Counted(p) /\ ~Counted(p)'
    BY <2>1 DEF InCall, Counted, RaiseLabels
  <2> QED
    BY <1>0, <1>a, <1>5, <2>2 DEF PostDeq, One, itemVars
<1>6. ASSUME CheckLevel(p) PROVE Result
  <2>1. pc[p] = "level" /\ pc'[p] \in {"raise", "idle"} /\ loc'[p].then = "idle"
    BY <1>0, <1>6 DEF CheckLevel, Goto, Set, Locals, LocalsOK, RaiseLabels
  <2>2. ~InCall(p) /\ ~InCall(p)' /\ ~Counted(p) /\ ~Counted(p)'
    BY <2>1 DEF InCall, Counted, RaiseLabels
  <2> QED
    BY <1>0, <1>a, <1>6, <2>2 DEF CheckLevel, One, itemVars
<1>7. ASSUME RemoveGate(p) PROVE Result
  <2>1. pc[p] = "idle" /\ pc'[p] = "take"
    BY <1>0, <1>7 DEF RemoveGate, Go, Goto
  <2>2. /\ ~InCall(p) /\ InCall(p)'
        /\ ~Counted(p) /\ Counted(p)'
    BY <2>1 DEF InCall, Counted, RaiseLabels
  <2> QED
    BY <1>0, <1>a, <1>7, <2>2 DEF RemoveGate, One, itemVars
<1>8. ASSUME Take(p) PROVE Result
  <2>1. pc[p] = "take" /\ pc'[p] = "raise" /\ loc'[p].then = "postEnq"
    BY <1>0, <1>8 DEF Take, Go, Goto, Set, Locals
  <2>2. InCall(p) /\ InCall(p)' /\ Counted(p) /\ ~Counted(p)'
    BY <2>1 DEF InCall, Counted, RaiseLabels
  <2> QED
    BY <1>0, <1>a, <1>8, <2>2 DEF Take, One
<1>9. ASSUME PostEnq(p) PROVE Result
  <2>1. pc[p] = "postEnq" /\ pc'[p] = "idle"
    BY <1>0, <1>9 DEF PostEnq, Go, Goto
  <2>2. /\ InCall(p) /\ ~InCall(p)'
        /\ ~Counted(p) /\ ~Counted(p)'
    BY <2>1 DEF InCall, Counted, RaiseLabels
  <2> QED
    BY <1>0, <1>a, <1>9, <2>2 DEF PostEnq, One, itemVars
<1>10. ASSUME Signal(p) PROVE Result
  <2>1. /\ pc[p] = "raise" /\ pc'[p] = loc[p].then /\ loc'[p].then = "idle"
        /\ loc[p].then \in {"idle", "arrival", "postEnq"}
    BY <1>0, <1>10 DEF Signal, Goto, Set, Locals, NoLocals
  <2>2. (InCall(p)' <=> InCall(p)) /\ (Counted(p)' <=> Counted(p))
    BY <2>1 DEF InCall, Counted, RaiseLabels
  <2> QED
    BY <1>0, <1>a, <1>10, <2>2 DEF Signal, One, itemVars
<1>11. ASSUME RaiseTest(p) \/ RaiseRead(p) \/ RaiseCas(p) \/ RaiseAppend(p) \/ RaiseNoMem(p)
                \/ RaisePost(p)
       PROVE  Result
  <2>1. RaiseDone(p).then = loc[p].then /\ [RaiseDone(p) EXCEPT !.signal = TRUE].then = loc[p].then
    BY <1>0 DEF RaiseDone, Locals
  <2>2. \A s \in SUBSET Flags : [loc[p] EXCEPT !.saw = s].then = loc[p].then
    BY <1>0 DEF Locals
  <2>3. flags \subseteq Flags
    BY DEF TypeOK
  <2>4. pc[p] \in RaiseLabels /\ pc'[p] \in RaiseLabels /\ loc'[p].then = loc[p].then
    <3>1. CASE RaiseTest(p)
      <4>1. CASE Head(loc[p].todo) \in flags
        BY <1>0, <3>1, <4>1 DEF RaiseTest, RaiseLabels, Goto
      <4>2. CASE Head(loc[p].todo) \notin flags
        BY <1>0, <2>1, <3>1, <4>2 DEF RaiseTest, RaiseLabels, Set
      <4> QED
        BY <4>1, <4>2
    <3>2. CASE RaiseCas(p)
      BY <1>0, <2>1, <2>2, <2>3, <3>2 DEF RaiseCas, RaiseLabels, Go, Goto, Set
    <3>6. CASE RaiseRead(p)
      BY <1>0, <2>1, <2>2, <2>3, <3>6 DEF RaiseRead, RaiseLabels, Go, Goto, Set
    <3>3. CASE RaiseAppend(p)
      BY <1>0, <2>1, <2>2, <2>3, <3>3 DEF RaiseAppend, RaiseLabels, Go, Goto, Set
    <3>4. CASE RaiseNoMem(p)
      BY <1>0, <2>1, <2>2, <2>3, <3>4 DEF RaiseNoMem, RaiseLabels, Go, Goto, Set
    <3>5. CASE RaisePost(p)
      BY <1>0, <2>1, <2>2, <2>3, <3>5 DEF RaisePost, RaiseLabels, Go, Goto, Set
    <3> QED
      BY <1>11, <3>1, <3>2, <3>3, <3>4, <3>5, <3>6
  <2>5. (InCall(p)' <=> InCall(p)) /\ (Counted(p)' <=> Counted(p))
    BY <2>4 DEF InCall, Counted, RaiseLabels
  <2>6. UNCHANGED itemVars
    BY <1>11 DEF RaiseTest, RaiseRead, RaiseCas, RaiseAppend, RaiseNoMem, RaisePost
  <2> QED
    BY <1>0, <1>a, <2>5, <2>6 DEF One, itemVars
<1>12. Result
  BY <1>1, <1>2, <1>3, <1>4, <1>5, <1>6, <1>7, <1>8, <1>9, <1>10, <1>11
     DEF CallStep, Add, Remove, Raise
<1>13. InCalls' \in SUBSET Callers /\ Counteds' \in SUBSET InCalls'
  BY DEF Counteds, InCalls, Counted, InCall
<1>14. count' \in Int
  BY <1>12, <1>13, EventsAssumption, FS_Subset, FS_CardinalityType DEF Balanced
<1> QED
  BY <1>12, <1>13, <1>14, BalanceBounds DEF Balanced

-----------------------------------------------------------------------------
(* The event list *)

(***************************************************************************)
(* What add_end and remove_front do to the number of events of a kind.     *)
(***************************************************************************)
Of(s, k) == {i \in DOMAIN s : s[i] = k}

(***************************************************************************)
(* A list holds finitely many events of a kind.                            *)
(***************************************************************************)
LEMMA OfFinite ==
    ASSUME NEW s \in Seq(Kinds), NEW k \in Kinds
    PROVE  IsFiniteSet(Of(s, k)) /\ Cardinality(Of(s, k)) \in Nat
<1>1. DOMAIN s = 1..Len(s) /\ Len(s) \in Nat
  BY LenProperties
<1>2. IsFiniteSet(DOMAIN s)
  BY <1>1, FS_Interval
<1>3. Of(s, k) \in SUBSET (DOMAIN s)
  BY DEF Of
<1> QED
  BY <1>2, <1>3, FS_Subset, FS_CardinalityType

(***************************************************************************)
(* add_end adds one event of its kind.                                     *)
(***************************************************************************)
LEMMA OfAppended ==
    ASSUME NEW s \in Seq(Kinds), NEW e \in Kinds, NEW k \in Kinds
    PROVE  Cardinality(Of(Append(s, e), k)) = Cardinality(Of(s, k)) + One(e = k)
<1> DEFINE n == Len(s) + 1
<1>1. /\ DOMAIN s = 1..Len(s) /\ Len(s) \in Nat /\ DOMAIN Append(s, e) = 1..n
      /\ \A i \in 1..Len(s) : Append(s, e)[i] = s[i]
      /\ Append(s, e)[n] = e
  BY LenProperties, AppendProperties
<1>2. n \notin Of(s, k)
  BY <1>1 DEF Of
<1>3. CASE e = k
  <2>1. Of(Append(s, e), k) = Of(s, k) \cup {n}
    BY <1>1, <1>3 DEF Of
  <2> QED
    BY <1>2, <1>3, <2>1, OfFinite, FS_AddElement DEF One
<1>4. CASE e # k
  <2>1. Of(Append(s, e), k) = Of(s, k)
    BY <1>1, <1>4 DEF Of
  <2> QED
    BY <1>4, <2>1, OfFinite DEF One
<1> QED
  BY <1>3, <1>4

(***************************************************************************)
(* remove_front takes one event of its kind.                               *)
(***************************************************************************)
LEMMA OfTail ==
    ASSUME NEW s \in Seq(Kinds), s # <<>>, NEW k \in Kinds
    PROVE  Cardinality(Of(s, k)) = Cardinality(Of(Tail(s), k)) + One(Head(s) = k)
<1>1. /\ DOMAIN s = 1..Len(s) /\ Len(s) \in Nat /\ Len(s) > 0 /\ Head(s) = s[1]
      /\ Tail(s) \in Seq(Kinds)
      /\ DOMAIN Tail(s) = 1..(Len(s) - 1)
      /\ \A i \in 1..(Len(s) - 1) : Tail(s)[i] = s[i + 1]
  <2>1. Tail(s) \in Seq(Kinds) /\ Len(Tail(s)) = Len(s) - 1
    BY HeadTailProperties
  <2> QED
    BY <2>1, LenProperties, HeadTailProperties, EmptySeq
<1> DEFINE rest == Of(s, k) \ {1}
           shift == [i \in Of(Tail(s), k) |-> i + 1]
<1>2. shift \in Bijection(Of(Tail(s), k), rest)
  <2>1. \A i \in Of(Tail(s), k) : i \in Nat /\ i + 1 \in rest
    BY <1>1 DEF Of
  <2>2. \A i \in rest : i - 1 \in Of(Tail(s), k) /\ i = (i - 1) + 1
    BY <1>1 DEF Of
  <2>3. shift \in [Of(Tail(s), k) -> rest]
    BY <2>1
  <2>4. \A i, j \in Of(Tail(s), k) : shift[i] = shift[j] => i = j
    BY <2>1
  <2>5. \A j \in rest : \E i \in Of(Tail(s), k) : shift[i] = j
    BY <2>2
  <2> QED
    BY <2>3, <2>4, <2>5 DEF Bijection, Injection, Surjection, IsInjective
<1>3. Cardinality(rest) = Cardinality(Of(Tail(s), k))
  <2>1. ExistsBijection(Of(Tail(s), k), rest)
    BY <1>2 DEF ExistsBijection
  <2>2. IsFiniteSet(Of(Tail(s), k))
    BY <1>1, OfFinite
  <2> HIDE DEF rest
  <2> QED
    BY <2>1, <2>2, FS_Bijection
<1>4. 1 \in Of(s, k) <=> Head(s) = k
  BY <1>1 DEF Of
<1>5. Cardinality(rest) =
        IF 1 \in Of(s, k) THEN Cardinality(Of(s, k)) - 1 ELSE Cardinality(Of(s, k))
  BY OfFinite, FS_RemoveElement
<1>6. Cardinality(rest) \in Nat /\ Cardinality(Of(s, k)) \in Nat
  BY <1>1, <1>3, OfFinite
<1> QED
  BY <1>3, <1>4, <1>5, <1>6 DEF One

\* what add_event has to show for it
Due(k) == owed[k] + extra[k]

Sums ==
    \A k \in Kinds :
        Due(k) = One(k \in flags) + Cardinality(Raising(k)) + Cardinality(Of(events, k))

(***************************************************************************)
(* What a subscription is worth, without cardinalities of single flags.    *)
(***************************************************************************)
LEMMA OneFlag ==
    ASSUME NEW F, NEW k
    PROVE  Cardinality(F \cap {k}) = One(k \in F)
<1>1. CASE k \in F
  <2>1. F \cap {k} = {k}
    BY <1>1
  <2> QED
    BY <1>1, <2>1, FS_Singleton DEF One
<1>2. CASE k \notin F
  <2>1. F \cap {k} = {}
    BY <1>2
  <2> QED
    BY <1>2, <2>1, FS_EmptySet DEF One
<1> QED
  BY <1>1, <1>2

(***************************************************************************)
(* SubscriptionsAnswered counts three sets for each kind; Sums adds three  *)
(* numbers, of which the first is 0 or 1.  Both states, since it is needed *)
(* before and after.                                                       *)
(***************************************************************************)
LEMMA AnsweredSums == (SubscriptionsAnswered <=> Sums) /\ (SubscriptionsAnswered' <=> Sums')
<1>1. /\ \A k \in Kinds : Cardinality(flags \cap {k}) = One(k \in flags)
      /\ \A k \in Kinds : Cardinality(flags' \cap {k}) = One(k \in flags')
  BY OneFlag
<1>2. \A k \in Kinds : Unread(k) = Of(events, k) /\ Unread(k)' = Of(events', k)
  BY DEF Unread, Of
<1>3. SubscriptionsAnswered <=> Sums
  BY <1>1, <1>2 DEF SubscriptionsAnswered, InHand, Due, Sums
<1>4. SubscriptionsAnswered' <=> Sums'
  BY <1>1, <1>2 DEF SubscriptionsAnswered, InHand, Due, Sums
<1> QED
  BY <1>3, <1>4

-----------------------------------------------------------------------------
(* Events and subscriptions *)

EventTypes ==
    /\ flags \subseteq Flags /\ events \in Seq(Kinds) /\ evntSem \in Nat
    /\ owed \in [Kinds -> Int] /\ extra \in [Kinds -> Nat]

(***************************************************************************)
(* A step that moves neither an event nor a subscription.                  *)
(***************************************************************************)
LEMMA QuietSteps ==
    ASSUME TypeOK, EventsAccounted, SubscriptionsAnswered, NEW p \in Callers, Alone(p),
           UNCHANGED <<events, evntSem, monitor, owed, extra>>,
           flags' \subseteq Flags, \A k \in Kinds : k \in flags' <=> k \in flags,
           pc[p] \notin {"append", "postEvent"}, pc'[p] \notin {"append", "postEvent"}
    PROVE  EventsAccounted' /\ SubscriptionsAnswered' /\ EventTypes'
<1>1. /\ Cardinality(Posting)' = Cardinality(Posting)
      /\ \A k \in Kinds : Cardinality(Raising(k))' = Cardinality(Raising(k))
  BY CountsMove DEF One, RaisesNow
<1>2. EventsAccounted'
  BY <1>1 DEF EventsAccounted, Posting
<1>3. \A k \in Kinds :
          Due(k)' = One(k \in flags') + Cardinality(Raising(k))' + Cardinality(Of(events', k))
  BY <1>1, AnsweredSums DEF Sums, Due, One
<1>4. SubscriptionsAnswered'
  BY <1>3, AnsweredSums DEF Sums
<1> QED
  BY <1>2, <1>4 DEF EventTypes, TypeOK

(***************************************************************************)
(* add_event hands a subscription on: from FLAGS to the caller, from the   *)
(* caller to the list; with the event goes a permit of EVNT_SEM.  An event *)
(* without a subscription is counted in extra.                             *)
(***************************************************************************)
LEMMA CallersEvents ==
    ASSUME TypeOK, LocalsOK, EventsAccounted, SubscriptionsAnswered,
           NEW p \in Callers, CallStep(p), Alone(p), pc' \in [Callers -> Labels]
    PROVE  EventsAccounted' /\ SubscriptionsAnswered' /\ EventTypes'
<1> DEFINE Result == EventsAccounted' /\ SubscriptionsAnswered' /\ EventTypes'
<1>0. /\ pc \in [Callers -> Labels] /\ loc \in [Callers -> Locals] /\ EventTypes
      /\ "ACTIVATED" \in Flags \ Kinds
  BY DEF TypeOK, EventTypes, Flags, Kinds
<1>1. ASSUME RaiseTest(p) PROVE Result
  BY <1>0, <1>1, QuietSteps DEF RaiseTest, Go, Goto, eventVars, readerVars, ghostVars, EventTypes
<1>16. ASSUME RaiseRead(p) PROVE Result
  BY <1>0, <1>16, QuietSteps DEF RaiseRead, Go, Goto, eventVars, readerVars, ghostVars, EventTypes
<1>2. ASSUME Signal(p) PROVE Result
  <2>1. loc[p].then \in {"idle", "arrival", "postEnq"}
    BY <1>0 DEF Locals
  <2> QED
    BY <1>0, <1>2, <2>1, QuietSteps DEF Signal, Goto, eventVars, readerVars, ghostVars, EventTypes
<1>3. ASSUME AddGate(p) PROVE Result
  BY <1>0, <1>3, QuietSteps DEF AddGate, Go, Goto, eventVars, readerVars, ghostVars, EventTypes
<1>4. ASSUME Push(p) PROVE Result
  BY <1>0, <1>4, QuietSteps DEF Push, Go, Goto, eventVars, readerVars, ghostVars, EventTypes
<1>5. ASSUME Activate(p) PROVE Result
  BY <1>0, <1>5, QuietSteps DEF Activate, Go, Goto, eventVars, readerVars, ghostVars, EventTypes
<1>6. ASSUME Arrival(p) PROVE Result
  BY <1>0, <1>6, QuietSteps DEF Arrival, Go, Goto, eventVars, readerVars, ghostVars, EventTypes
<1>7. ASSUME PostDeq(p) PROVE Result
  BY <1>0, <1>7, QuietSteps DEF PostDeq, Go, Goto, eventVars, readerVars, ghostVars, EventTypes
<1>8. ASSUME CheckLevel(p) PROVE Result
  BY <1>0, <1>8, QuietSteps DEF CheckLevel, Go, Goto, eventVars, readerVars, ghostVars, EventTypes
<1>9. ASSUME RemoveGate(p) PROVE Result
  BY <1>0, <1>9, QuietSteps DEF RemoveGate, Go, Goto, eventVars, readerVars, ghostVars, EventTypes
<1>10. ASSUME Take(p) PROVE Result
  BY <1>0, <1>10, QuietSteps DEF Take, Go, Goto, eventVars, readerVars, ghostVars, EventTypes
<1>11. ASSUME PostEnq(p) PROVE Result
  BY <1>0, <1>11, QuietSteps DEF PostEnq, Go, Goto, eventVars, readerVars, ghostVars, EventTypes
<1> DEFINE e == Head(loc[p].todo)
<1>a. /\ \A k \in Kinds : /\ Cardinality(Raising(k)) \in Nat
                         /\ Cardinality(Raising(k))' =
                              Cardinality(Raising(k)) + One(RaisesNow(p, k)') - One(RaisesNow(p, k))
                         /\ Cardinality(Of(events, k)) \in Nat
                         /\ Due(k) = One(k \in flags) + Cardinality(Raising(k))
                                        + Cardinality(Of(events, k))
                         /\ owed[k] \in Int /\ extra[k] \in Nat
      /\ Cardinality(Posting) \in Nat
      /\ Cardinality(Posting)' =
           Cardinality(Posting) + One(pc'[p] = "postEvent") - One(pc[p] = "postEvent")
      /\ Len(events) \in Nat /\ evntSem \in Nat
  BY <1>0, CountsMove, AnsweredSums, OfFinite, LenProperties DEF EventTypes, Sums
<1>b. pc[p] \in {"cas", "append", "postEvent"} => e \in Kinds
  BY <1>0, HeadTailProperties DEF LocalsOK, Locals
<1>12. ASSUME RaiseCas(p) PROVE Result
  <2>1. CASE flags = loc[p].saw
    <3>1. /\ pc[p] = "cas" /\ pc'[p] = "append" /\ loc' = loc /\ flags' = flags \ {e}
          /\ UNCHANGED <<events, evntSem, monitor, owed>>
          /\ extra' = IF e \in flags THEN extra ELSE [extra EXCEPT ![e] = @ + 1]
      BY <1>0, <1>12, <2>1 DEF RaiseCas, CountExtra, Goto, eventVars, readerVars
    <3>2. e \in Kinds /\ extra' \in [Kinds -> Nat]
      BY <1>0, <1>b, <3>1 DEF EventTypes
    <3>6. \A k \in Kinds : extra'[k] = extra[k] + One(k = e /\ k \notin flags)
      BY <1>0, <1>a, <3>1, <3>2 DEF EventTypes, One
    <3>3. \A k \in Kinds : /\ ~RaisesNow(p, k) /\ (RaisesNow(p, k)' <=> k = e)
                           /\ (k \in flags' <=> k \in flags /\ k # e)
      BY <3>1 DEF RaisesNow
    <3>4. \A k \in Kinds :
              Due(k)' = One(k \in flags') + Cardinality(Raising(k))' + Cardinality(Of(events', k))
      <4> SUFFICES ASSUME NEW k \in Kinds
                   PROVE  Due(k)' = One(k \in flags') + Cardinality(Raising(k))'
                                       + Cardinality(Of(events', k))
        OBVIOUS
      <4>1. /\ One(k \in flags) + One(k = e /\ k \notin flags) =
                 One(k \in flags') + One(RaisesNow(p, k)')
            /\ One(RaisesNow(p, k)) = 0
            /\ One(k \in flags) \in Int /\ One(k = e /\ k \notin flags) \in Int
            /\ One(k \in flags') \in Int /\ One(RaisesNow(p, k)') \in Int
        <5>1. One(RaisesNow(p, k)) = 0 /\ One(RaisesNow(p, k)') = One(k = e)
          BY <3>3 DEF One
        <5>2. One(k \in flags') = One(k \in flags /\ k # e)
          BY <3>3 DEF One
        <5>3. One(k \in flags) + One(k = e /\ k \notin flags) =
                One(k \in flags /\ k # e) + One(k = e)
          BY DEF One
        <5>4. \A b : One(b) \in Int
          BY DEF One
        <5> QED
          BY <5>1, <5>2, <5>3, <5>4
      <4>2. /\ Due(k) = One(k \in flags) + Cardinality(Raising(k)) + Cardinality(Of(events, k))
            /\ Due(k) = owed[k] + extra[k] /\ owed[k] \in Int /\ extra[k] \in Nat
            /\ Cardinality(Raising(k)) \in Nat /\ Cardinality(Of(events, k)) \in Nat
            /\ Cardinality(Raising(k))' =
                 Cardinality(Raising(k)) + One(RaisesNow(p, k)') - One(RaisesNow(p, k))
        BY <1>a DEF Due
      <4>3. Due(k)' = Due(k) + One(k = e /\ k \notin flags) /\ events' = events
        BY <3>1, <3>6, <4>1, <4>2 DEF Due
      <4> QED
        BY <4>1, <4>2, <4>3
    <3>5. EventsAccounted'
      BY <1>a, <3>1 DEF EventsAccounted, Posting, One
    <3> QED
      BY <1>0, <3>1, <3>2, <3>4, <3>5, AnsweredSums DEF EventTypes, Sums
  <2>2. CASE flags # loc[p].saw
    BY <1>0, <1>12, <2>2, QuietSteps
       DEF RaiseCas, Goto, eventVars, readerVars, EventTypes
  <2> QED
    BY <2>1, <2>2
<1>13. ASSUME RaiseAppend(p) PROVE Result
  <2>1. /\ pc[p] = "append" /\ pc'[p] = "postEvent" /\ loc' = loc /\ events' = Append(events, e)
        /\ UNCHANGED <<flags, evntSem, monitor, owed, extra>> /\ e \in Kinds
    BY <1>0, <1>b, <1>13 DEF RaiseAppend, Go, Goto, readerVars, ghostVars
  <2>2. /\ events' \in Seq(Kinds) /\ Len(events') = Len(events) + 1
        /\ \A k \in Kinds : Cardinality(Of(events', k)) = Cardinality(Of(events, k)) + One(e = k)
    BY <1>0, <2>1, AppendProperties, OfAppended DEF EventTypes
  <2>3. \A k \in Kinds : (RaisesNow(p, k) <=> k = e) /\ ~RaisesNow(p, k)'
    BY <2>1 DEF RaisesNow
  <2>4. \A k \in Kinds :
            Due(k)' = One(k \in flags') + Cardinality(Raising(k))' + Cardinality(Of(events', k))
    <3> SUFFICES ASSUME NEW k \in Kinds
                 PROVE  Due(k)' = One(k \in flags') + Cardinality(Raising(k))'
                                     + Cardinality(Of(events', k))
      OBVIOUS
    <3>1. /\ One(RaisesNow(p, k)') = 0 /\ One(RaisesNow(p, k)) = One(e = k)
          /\ One(e = k) \in Int /\ One(k \in flags) \in Int
      BY <2>3 DEF One
    <3> QED
      BY <1>a, <2>1, <2>2, <3>1 DEF Due
  <2>5. EventsAccounted'
    BY <1>a, <2>1, <2>2 DEF EventsAccounted, Posting, One
  <2> QED
    BY <1>0, <2>1, <2>2, <2>4, <2>5, AnsweredSums DEF EventTypes, Sums
<1>14. ASSUME RaiseNoMem(p) PROVE Result
  <2>1. /\ pc[p] = "append" /\ pc'[p] = "raise" /\ owed' = [owed EXCEPT ![e] = @ - 1]
        /\ UNCHANGED <<events, flags, evntSem, monitor, extra>> /\ e \in Kinds
    BY <1>0, <1>b, <1>14 DEF RaiseNoMem, Go, Goto, eventVars, readerVars
  <2>3. \A k \in Kinds : (RaisesNow(p, k) <=> k = e) /\ ~RaisesNow(p, k)'
    BY <2>1 DEF RaisesNow
  <2>4. \A k \in Kinds : owed'[k] = owed[k] - One(k = e)
    BY <1>0, <1>a, <2>1 DEF EventTypes, One
  <2>5. \A k \in Kinds :
            Due(k)' = One(k \in flags') + Cardinality(Raising(k))' + Cardinality(Of(events', k))
    <3> SUFFICES ASSUME NEW k \in Kinds
                 PROVE  Due(k)' = One(k \in flags') + Cardinality(Raising(k))'
                                     + Cardinality(Of(events', k))
      OBVIOUS
    <3>1. /\ One(RaisesNow(p, k)') = 0 /\ One(RaisesNow(p, k)) = One(k = e)
          /\ One(k = e) \in Int /\ One(k \in flags) \in Int
      BY <2>3 DEF One
    <3>2. /\ Due(k) = One(k \in flags) + Cardinality(Raising(k)) + Cardinality(Of(events, k))
          /\ Due(k) = owed[k] + extra[k] /\ owed[k] \in Int /\ extra[k] \in Nat
          /\ Cardinality(Raising(k)) \in Nat /\ Cardinality(Of(events, k)) \in Nat
          /\ Cardinality(Raising(k))' =
               Cardinality(Raising(k)) + One(RaisesNow(p, k)') - One(RaisesNow(p, k))
      BY <1>a DEF Due
    <3>3. Due(k)' = Due(k) - One(k = e) /\ events' = events /\ flags' = flags
      BY <2>1, <2>4, <3>1, <3>2 DEF Due
    <3> QED
      BY <3>1, <3>2, <3>3
  <2>6. EventsAccounted'
    BY <1>a, <2>1 DEF EventsAccounted, Posting, One
  <2> QED
    BY <1>0, <2>1, <2>5, <2>6, AnsweredSums DEF EventTypes, Sums
<1>15. ASSUME RaisePost(p) PROVE Result
  <2>1. /\ pc[p] = "postEvent" /\ pc'[p] = "raise" /\ evntSem' = evntSem + 1
        /\ UNCHANGED <<events, flags, monitor, owed, extra>>
    BY <1>0, <1>15 DEF RaisePost, Go, Goto, readerVars, ghostVars
  <2>2. \A k \in Kinds : ~RaisesNow(p, k) /\ ~RaisesNow(p, k)'
    BY <2>1 DEF RaisesNow
  <2>3. \A k \in Kinds :
            Due(k)' = One(k \in flags') + Cardinality(Raising(k))' + Cardinality(Of(events', k))
    BY <1>a, <2>1, <2>2 DEF Due, One
  <2>4. EventsAccounted'
    BY <1>a, <2>1 DEF EventsAccounted, Posting, One
  <2> QED
    BY <1>0, <2>1, <2>3, <2>4, AnsweredSums DEF EventTypes, Sums
<1> QED
  BY <1>1, <1>2, <1>3, <1>4, <1>5, <1>6, <1>7, <1>8, <1>9, <1>10, <1>11, <1>12, <1>13, <1>14, <1>15,
     <1>16 DEF CallStep, Add, Remove, Raise

-----------------------------------------------------------------------------
(* Subscriptions, the monitor and the listener *)

(***************************************************************************)
(* Steps of these that leave the callers alone.                            *)
(***************************************************************************)
LEMMA CallersStay ==
    ASSUME UNCHANGED <<pc, loc>>
    PROVE  /\ Cardinality(InCalls)' = Cardinality(InCalls)
           /\ Cardinality(Counteds)' = Cardinality(Counteds)
           /\ Cardinality(Posting)' = Cardinality(Posting)
           /\ \A k \in Kinds : Cardinality(Raising(k))' = Cardinality(Raising(k))
           /\ LocalsOK => LocalsOK'
<1>1. InCalls' = InCalls /\ Counteds' = Counteds /\ Posting' = Posting
  BY DEF InCalls, InCall, Counteds, Counted, Posting
<1>2. \A k \in Kinds : Raising(k)' = Raising(k)
  BY DEF Raising
<1>3. LocalsOK => LocalsOK'
  BY DEF LocalsOK
<1> QED
  BY <1>1, <1>2, <1>3

(***************************************************************************)
(* shr_q_subscribe owes one event for each flag it sets, and a withdrawal  *)
(* owes one less for each flag it clears.                                  *)
(***************************************************************************)
LEMMA SubscriptionsKeep ==
    ASSUME Inv, NEW event \in Subscribable, Subscribe(event) \/ Unsubscribe(event)
    PROVE  Inv'
<1>0. EventFlags(event) \subseteq Kinds
  BY EventsAssumption DEF EventFlags
<1>1. /\ UNCHANGED <<itemVars, eventVars, readerVars, pc, loc, extra>>
      /\ flags \subseteq Flags /\ owed \in [Kinds -> Int] /\ extra \in [Kinds -> Nat]
      /\ Kinds \subseteq Flags
  BY DEF Subscribe, Unsubscribe, Inv, TypeOK, Flags
<1>2. flags' \subseteq Flags
  BY <1>0, <1>1 DEF Subscribe, Unsubscribe, SetFlag
<1>3. /\ owed' \in [Kinds -> Int]
      /\ \A k \in Kinds : owed'[k] = owed[k] + One(k \in flags') - One(k \in flags)
  <2>1. CASE Subscribe(event)
    <3>1. flags \subseteq flags'
      BY <2>1 DEF Subscribe, SetFlag
    <3>2. owed' = [k \in Kinds |-> IF k \in flags' \ flags THEN owed[k] + 1 ELSE owed[k]]
      BY <2>1 DEF Subscribe
    <3> QED
      BY <1>1, <3>1, <3>2 DEF One
  <2>2. CASE Unsubscribe(event)
    <3>1. flags' \subseteq flags
      BY <2>2 DEF Unsubscribe
    <3>2. owed' = [k \in Kinds |-> IF k \in flags \ flags' THEN owed[k] - 1 ELSE owed[k]]
      BY <2>2 DEF Unsubscribe
    <3> QED
      BY <1>1, <3>1, <3>2 DEF One
  <2> QED
    BY <2>1, <2>2
<1>4. subscriptions' \in 0..MaxSubscriptions
  BY EventsAssumption DEF Subscribe, Unsubscribe, Inv, TypeOK
<1>5. TypeOK'
  BY <1>1, <1>2, <1>3, <1>4 DEF Inv, TypeOK, itemVars, eventVars, readerVars
<1>6. LocalsOK' /\ Balanced' /\ EventsAccounted'
  BY <1>1, CallersStay DEF Inv, Balanced, EventsAccounted, Posting, itemVars, eventVars, readerVars
<1>7. Sums'
  <2> SUFFICES ASSUME NEW k \in Kinds
               PROVE  Due(k)' = One(k \in flags') + Cardinality(Raising(k))'
                                   + Cardinality(Of(events', k))
    BY DEF Sums
  <2>1. Due(k) = One(k \in flags) + Cardinality(Raising(k)) + Cardinality(Of(events, k))
    BY AnsweredSums DEF Inv, Sums
  <2>2. /\ events \in Seq(Kinds) /\ UNCHANGED events
        /\ Cardinality(Raising(k))' = Cardinality(Raising(k)) /\ Cardinality(Raising(k)) \in Nat
    BY <1>1, CallersStay, EventsAssumption, FS_Subset, FS_CardinalityType
       DEF Inv, TypeOK, eventVars, Raising
  <2>3. Cardinality(Of(events, k)) \in Nat /\ One(k \in flags) \in Int /\ One(k \in flags') \in Int
    BY <2>2, OfFinite DEF One
  <2> QED
    BY <1>1, <1>3, <2>1, <2>2, <2>3 DEF Due
<1> QED
  BY <1>5, <1>6, <1>7, AnsweredSums DEF Inv

(***************************************************************************)
(* shr_q_event takes a permit, then an event; what it reads is not owed    *)
(* any longer.                                                             *)
(***************************************************************************)
LEMMA MonitorKeeps ==
    ASSUME Inv, Monitor
    PROVE  Inv'
<1>0. /\ TypeOK /\ EventsAccounted /\ Sums
      /\ UNCHANGED <<itemVars, flags, arrived, listener, pc, loc, subscriptions, extra>>
  BY AnsweredSums DEF Inv, Monitor, MonitorWakes, EventGate, EventTake, ghostVars
<1>1. LocalsOK' /\ Balanced'
  BY <1>0, CallersStay DEF Inv, Balanced, itemVars
<1>2. Cardinality(Posting) \in Nat
  BY EventsAssumption, FS_Subset, FS_CardinalityType DEF Posting
<1>3. CASE MonitorWakes \/ EventGate
  <2>1. UNCHANGED <<events, owed>>
    BY <1>3 DEF MonitorWakes, EventGate, eventVars, ghostVars
  <2>2. /\ evntSem' \in Nat /\ monitor' \in {"waits", "reads", "takes"} /\ told' \in BOOLEAN
        /\ \E a \in Nat, b \in Nat : /\ a = One(monitor = "takes") /\ b = One(monitor' = "takes")
                                    /\ evntSem' = evntSem + a - b
    <3>1. evntSem \in Nat /\ told \in BOOLEAN
      BY <1>0 DEF TypeOK
    <3>2. CASE MonitorWakes
      <4>1. /\ evntSem' = evntSem /\ monitor' = "reads" /\ told' = FALSE
            /\ One(monitor = "takes") = 0 /\ One(monitor' = "takes") = 0
        BY <3>2 DEF MonitorWakes, eventVars, One
      <4>2. evntSem' = evntSem + 0 - 0 /\ evntSem' \in Nat
        BY <3>1, <4>1
      <4>3. \E a \in Nat, b \in Nat : /\ a = One(monitor = "takes") /\ b = One(monitor' = "takes")
                                     /\ evntSem' = evntSem + a - b
        BY <4>1, <4>2
      <4> QED
        BY <4>1, <4>2, <4>3
    <3>3. CASE EventGate
      <4>1. CASE evntSem > 0
        BY <3>1, <3>3, <4>1 DEF EventGate, One
      <4>2. CASE ~(evntSem > 0)
        BY <3>1, <3>3, <4>2 DEF EventGate, One
      <4> QED
        BY <4>1, <4>2
    <3> QED
      BY <1>3, <3>2, <3>3
  <2>3. TypeOK'
    BY <1>0, <2>1, <2>2 DEF TypeOK, itemVars
  <2>4. EventsAccounted'
    <3>1. Len(events) = evntSem + Cardinality(Posting) + One(monitor = "takes")
      BY <1>0 DEF EventsAccounted, Posting, One
    <3>2. PICK a \in Nat, b \in Nat : /\ a = One(monitor = "takes") /\ b = One(monitor' = "takes")
                                      /\ evntSem' = evntSem + a - b
      BY <2>2
    <3>3. PICK n \in Nat : n = Cardinality(Posting)
      BY <1>2
    <3>4. Len(events) = evntSem + n + a /\ evntSem \in Nat /\ evntSem' = evntSem + a - b
      BY <1>0, <3>1, <3>2, <3>3 DEF TypeOK
    <3>5. Len(events) = evntSem' + n + b
      BY <3>4
    <3>6. Len(events)' = evntSem' + Cardinality(Posting)' + One(monitor' = "takes")
      BY <1>0, <2>1, <3>2, <3>3, <3>5 DEF Posting
    <3> QED
      BY <3>6 DEF EventsAccounted, Posting, One
  <2>5. Sums'
    BY <1>0, <2>1, CallersStay DEF Sums, Due
  <2> QED
    BY <1>1, <2>3, <2>4, <2>5, AnsweredSums DEF Inv
<1>4. CASE EventTake
  <2>1. events # <<>>
    <3>1. Len(events) = evntSem + Cardinality(Posting) + 1 /\ evntSem \in Nat
      BY <1>0, <1>4 DEF EventsAccounted, EventTake, Posting, TypeOK
    <3> QED
      BY <1>2, <3>1
  <2> DEFINE e == Head(events)
  <2>2. /\ events' = Tail(events) /\ owed' = [owed EXCEPT ![e] = @ - 1]
        /\ monitor = "takes" /\ monitor' = "reads" /\ UNCHANGED <<evntSem, told>>
    BY <1>4, <2>1 DEF EventTake
  <2>3. /\ e \in Kinds /\ events' \in Seq(Kinds) /\ Len(events') = Len(events) - 1
        /\ Len(events) \in Nat
    BY <1>0, <2>1, <2>2, HeadTailProperties, LenProperties DEF TypeOK
  <2>4. owed \in [Kinds -> Int] /\ extra \in [Kinds -> Nat]
    BY <1>0 DEF TypeOK
  <2>5. owed' \in [Kinds -> Int] /\ \A k \in Kinds : owed'[k] = owed[k] - One(e = k)
    BY <2>2, <2>3, <2>4 DEF One
  <2>6. TypeOK'
    BY <1>0, <2>2, <2>3, <2>5 DEF TypeOK, itemVars
  <2>7. EventsAccounted'
    <3>1. Len(events) = evntSem + Cardinality(Posting) + 1 /\ evntSem \in Nat
      BY <1>0, <2>2 DEF EventsAccounted, Posting, TypeOK
    <3>2. Len(events') = evntSem + Cardinality(Posting)
      BY <1>2, <2>3, <3>1
    <3>3. /\ Cardinality(Posting)' = Cardinality(Posting)
          /\ Cardinality(Posting)' + 0 = Cardinality(Posting)
      BY <1>0, <1>2 DEF Posting
    <3>4. Len(events') = evntSem' + Cardinality(Posting)' + 0
      BY <1>0, <1>2, <2>2, <3>1, <3>2, <3>3
    <3> QED
      BY <2>2, <3>4 DEF EventsAccounted, Posting
  <2>8. Sums'
    <3> SUFFICES ASSUME NEW k \in Kinds
                 PROVE  Due(k)' = One(k \in flags') + Cardinality(Raising(k))'
                                     + Cardinality(Of(events', k))
      BY DEF Sums
    <3>1. Due(k) = One(k \in flags) + Cardinality(Raising(k)) + Cardinality(Of(events, k))
      BY <1>0 DEF Sums
    <3>2. Cardinality(Raising(k))' = Cardinality(Raising(k)) /\ Cardinality(Raising(k)) \in Nat
      BY <1>0, CallersStay, EventsAssumption, FS_Subset, FS_CardinalityType DEF Raising
    <3>3. /\ Cardinality(Of(events, k)) = Cardinality(Of(events', k)) + One(e = k)
          /\ Cardinality(Of(events', k)) \in Nat
      BY <1>0, <2>1, <2>2, <2>3, OfTail, OfFinite DEF TypeOK
    <3>4. One(e = k) \in Int /\ One(k \in flags) \in Int
      BY DEF One
    <3> QED
      BY <1>0, <2>4, <2>5, <3>1, <3>2, <3>3, <3>4 DEF Due
  <2> QED
    BY <1>1, <2>6, <2>7, <2>8, AnsweredSums DEF Inv
<1> QED
  BY <1>3, <1>4 DEF Monitor

(***************************************************************************)
(* A remove of the listener is balanced in one step.                       *)
(***************************************************************************)
LEMMA ListenerKeeps ==
    ASSUME Inv, Listener
    PROVE  Inv'
<1>0. /\ TypeOK /\ Sums
      /\ UNCHANGED <<flags, events, evntSem, told, monitor, pc, loc, subscriptions, owed, extra>>
  BY AnsweredSums DEF Inv, Listener, ListenerWakes, ListenerRemoves, eventVars, ghostVars
<1>1. /\ enqSem \in Nat /\ deqSem \in Nat /\ count \in Nat /\ MaxDepth \in Nat
  BY <1>0, EventsAssumption DEF TypeOK
<1>2. /\ enqSem' \in Nat /\ deqSem' \in Nat /\ count' \in Int
      /\ \E d \in {0, 1} : enqSem' = enqSem + d /\ deqSem' = deqSem - d /\ count' = count - d
      /\ arrived' \in BOOLEAN /\ listener' \in {"waits", "removes"}
  <2>1. CASE ListenerWakes
    <3>1. UNCHANGED itemVars /\ arrived' = FALSE /\ listener' = "removes"
      BY <2>1 DEF ListenerWakes
    <3>2. enqSem' = enqSem /\ deqSem' = deqSem /\ count' = count
      BY <3>1 DEF itemVars
    <3>3. enqSem' = enqSem + 0 /\ deqSem' = deqSem - 0 /\ count' = count - 0
      BY <1>1, <3>2
    <3>4. \E d \in {0, 1} : enqSem' = enqSem + d /\ deqSem' = deqSem - d /\ count' = count - d
      BY <3>3
    <3>5. enqSem' \in Nat /\ deqSem' \in Nat /\ count' \in Int
      BY <1>1, <3>2
    <3> QED
      BY <3>1, <3>4, <3>5
  <2>2. CASE ListenerRemoves
    <3>1. CASE deqSem > 0
      BY <1>0, <1>1, <2>2, <3>1 DEF ListenerRemoves, TypeOK
    <3>2. CASE ~(deqSem > 0)
      BY <1>0, <1>1, <2>2, <3>2 DEF ListenerRemoves, itemVars, TypeOK
    <3> QED
      BY <3>1, <3>2
  <2> QED
    BY <2>1, <2>2 DEF Listener
<1>3. LocalsOK' /\ EventsAccounted' /\ Sums'
  BY <1>0, CallersStay DEF Inv, EventsAccounted, Posting, Sums, Due
<1>4. Cardinality(InCalls) \in Nat /\ Cardinality(Counteds) \in Nat
  BY EventsAssumption, FS_Subset, FS_CardinalityType DEF InCalls, Counteds
<1>5. Balanced'
  <2>1. /\ enqSem + deqSem + Cardinality(InCalls) = MaxDepth
        /\ count = deqSem + Cardinality(Counteds)
    BY DEF Inv, Balanced
  <2>2. /\ Cardinality(InCalls)' = Cardinality(InCalls)
        /\ Cardinality(Counteds)' = Cardinality(Counteds)
    BY <1>0 DEF InCalls, InCall, Counteds, Counted
  <2>3. /\ enqSem' + deqSem' + Cardinality(InCalls) = MaxDepth
        /\ count' = deqSem' + Cardinality(Counteds)
    <3>1. PICK n \in Nat, m \in Nat : n = Cardinality(InCalls) /\ m = Cardinality(Counteds)
      BY <1>4
    <3>2. enqSem + deqSem + n = MaxDepth /\ count = deqSem + m
      BY <2>1, <3>1
    <3>3. PICK d \in {0, 1} : enqSem' = enqSem + d /\ deqSem' = deqSem - d /\ count' = count - d
      BY <1>2
    <3>4. enqSem' + deqSem' + n = MaxDepth /\ count' = deqSem' + m
      BY <1>1, <3>2, <3>3
    <3> QED
      BY <3>1, <3>4
  <2> QED
    BY <2>2, <2>3 DEF Balanced
<1>6. InCalls' \in SUBSET Callers /\ Counteds' \in SUBSET InCalls'
  BY DEF Counteds, InCalls, Counted, InCall
<1>7. enqSem' \in 0..MaxDepth /\ deqSem' \in 0..MaxDepth /\ count' \in 0..MaxDepth
  BY <1>2, <1>5, <1>6, BalanceBounds DEF Balanced
<1>8. TypeOK'
  BY <1>0, <1>2, <1>7 DEF TypeOK
<1> QED
  BY <1>3, <1>5, <1>8, AnsweredSums DEF Inv

-----------------------------------------------------------------------------
(* The invariant *)

(***************************************************************************)
(* A new queue owes nothing to anybody.                                    *)
(***************************************************************************)
LEMMA InitInv == Init => Inv
<1> SUFFICES ASSUME Init PROVE Inv
  OBVIOUS
<1>1. NoLocals \in Locals /\ NoLocals.then = "idle" /\ MaxDepth \in Nat /\ MaxSubscriptions \in Nat
  BY EventsAssumption DEF NoLocals, Locals
<1>2. TypeOK
  <2>1. /\ enqSem \in 0..MaxDepth /\ deqSem \in 0..MaxDepth /\ count \in 0..MaxDepth
        /\ subscriptions \in 0..MaxSubscriptions /\ evntSem \in Nat
    BY <1>1 DEF Init
  <2>2. events \in Seq(Kinds)
    BY DEF Init
  <2>3. pc \in [Callers -> Labels] /\ loc \in [Callers -> Locals]
    BY <1>1 DEF Init, Labels
  <2>4. /\ flags \subseteq Flags /\ {told, arrived} \subseteq BOOLEAN
        /\ monitor \in {"waits", "reads", "takes"} /\ listener \in {"waits", "removes"}
    BY DEF Init
  <2>5. owed \in [Kinds -> Int] /\ extra \in [Kinds -> Nat]
    BY DEF Init
  <2> QED
    BY <2>1, <2>2, <2>3, <2>4, <2>5 DEF TypeOK
<1>3. LocalsOK
  BY <1>1 DEF Init, LocalsOK, RaiseLabels
<1>4. InCalls = {} /\ Counteds = {} /\ Posting = {} /\ \A k \in Kinds : Raising(k) = {}
  BY DEF Init, InCalls, InCall, Counteds, Counted, Posting, Raising, RaiseLabels
<1>5. Cardinality({}) = 0
  BY FS_EmptySet
<1>6. Balanced
  BY <1>1, <1>4, <1>5 DEF Init, Balanced
<1>7. EventsAccounted
  <2>1. Len(events) = 0 /\ evntSem = 0 /\ monitor # "takes"
    BY DEF Init
  <2>2. Cardinality({p \in Callers : pc[p] = "postEvent"}) = 0
    BY <1>4, <1>5 DEF Posting
  <2> QED
    BY <2>1, <2>2 DEF EventsAccounted
<1>8. \A k \in Kinds : Of(events, k) = {}
  BY DEF Init, Of
<1>9. Sums
  <2> SUFFICES ASSUME NEW k \in Kinds
               PROVE  Due(k) = One(k \in flags) + Cardinality(Raising(k))
                                  + Cardinality(Of(events, k))
    BY DEF Sums
  <2>1. Due(k) = 0 /\ One(k \in flags) = 0
    BY DEF Init, Due, One
  <2>2. Cardinality(Raising(k)) = 0 /\ Cardinality(Of(events, k)) = 0
    BY <1>4, <1>5, <1>8
  <2> QED
    BY <2>1, <2>2
<1> QED
  BY <1>2, <1>3, <1>6, <1>7, <1>9, AnsweredSums DEF Inv

(***************************************************************************)
(* No step breaks the invariant.                                           *)
(***************************************************************************)
LEMMA InvKept == Inv /\ [Next]_vars => Inv'
<1> SUFFICES ASSUME Inv, [Next]_vars PROVE Inv'
  OBVIOUS
<1>1. ASSUME NEW p \in Callers, CallStep(p) PROVE Inv'
  <2>1. /\ Alone(p) /\ LocalsOK'
        /\ pc' \in [Callers -> Labels] /\ loc' \in [Callers -> Locals]
    BY <1>1, CallersMove DEF Inv
  <2>2. /\ Balanced'
        /\ enqSem' \in 0..MaxDepth /\ deqSem' \in 0..MaxDepth /\ count' \in 0..MaxDepth
    BY <1>1, <2>1, CallersBalance DEF Inv
  <2>3. EventsAccounted' /\ SubscriptionsAnswered' /\ EventTypes'
    BY <1>1, <2>1, CallersEvents DEF Inv
  <2>4. /\ UNCHANGED <<monitor, listener, subscriptions>>
        /\ told' \in BOOLEAN /\ arrived' \in BOOLEAN
    BY <1>1 DEF Inv, TypeOK, CallStep, Add, Remove, Raise, readerVars, ghostVars,
       RaiseTest, RaiseRead, RaiseCas, RaiseAppend, RaiseNoMem, RaisePost, Signal, AddGate, Push,
       Activate, CountExtra, Arrival, PostDeq, CheckLevel, RemoveGate, Take, PostEnq
  <2>5. TypeOK'
    BY <2>1, <2>2, <2>3, <2>4 DEF Inv, TypeOK, EventTypes
  <2> QED
    BY <2>1, <2>2, <2>3, <2>5 DEF Inv
<1>2. CASE UNCHANGED vars
  <2>1. UNCHANGED <<itemVars, flags, eventVars, readerVars, pc, loc, ghostVars>>
    BY <1>2 DEF vars
  <2>2. TypeOK' /\ LocalsOK' /\ Balanced' /\ EventsAccounted' /\ Sums'
    BY <2>1, CallersStay, AnsweredSums DEF Inv, TypeOK, Balanced, EventsAccounted, Posting,
       Sums, Due,
       itemVars, eventVars, readerVars, ghostVars
  <2> QED
    BY <2>2, AnsweredSums DEF Inv
<1> QED
  BY <1>1, <1>2, SubscriptionsKeep, MonitorKeeps, ListenerKeeps DEF Next, CallStep

(***************************************************************************)
(* The invariant holds of every behaviour.                                 *)
(***************************************************************************)
LEMMA Invariance == Spec => []Inv
  BY InitInv, InvKept, PTL DEF Spec

-----------------------------------------------------------------------------
(* What follows *)

(***************************************************************************)
(* Every variable keeps its type: the semaphores and COUNT stay within     *)
(* 0..MaxDepth, EVNT_SEM does not go below 0.                              *)
(***************************************************************************)
THEOREM EventsTyped == Spec => []TypeOK
<1>1. Inv => TypeOK
  BY DEF Inv
<1> QED
  BY <1>1, Invariance, PTL

(***************************************************************************)
(* Whatever is subscribed, withdrawn and raised at the same time, each     *)
(* subscription is in FLAGS, with one call of add_event or on the list     *)
(* until it is answered, and the events beside these are those of calls    *)
(* whose exchange had nothing to clear.                                    *)
(***************************************************************************)
THEOREM AnsweredOnce == Spec => []SubscriptionsAnswered
<1>1. Inv => SubscriptionsAnswered
  BY DEF Inv
<1> QED
  BY <1>1, Invariance, PTL

(***************************************************************************)
(* EVNT_SEM lets a reader through once for each event on the list.         *)
(***************************************************************************)
THEOREM EventsCounted == Spec => []EventsAccounted
<1>1. Inv => EventsAccounted
  BY DEF Inv
<1> QED
  BY <1>1, Invariance, PTL

=============================================================================
