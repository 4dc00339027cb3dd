------------------------- MODULE QueueGatesProofs -------------------------
(***************************************************************************)
(* Proofs about QueueGates, for any number of processes, any items and any *)
(* max_depth: the permits and COUNT account for the queue, no item is in   *)
(* two places, and QueueGates implements AbsQueue, the queue of at most    *)
(* MaxDepth items that shared_q.h describes.                               *)
(***************************************************************************)
EXTENDS QueueGates, FiniteSetTheorems, SequenceTheorems, TLAPS

Accounted == TypeOK /\ PermitsAccounted /\ CountAccounted

\* by how much the number of calls in labels changes when one goes on
Delta(labels, from, to) == (IF to \in labels THEN 1 ELSE 0) - (IF from \in labels THEN 1 ELSE 0)

(* Who is in a set of labels, after one call has gone on. *)
LEMMA Moves ==
  ASSUME pc \in [Procs -> Labels], NEW p \in Procs, NEW to \in Labels, Goto(p, to),
         NEW CONSTANT labels
  PROVE  /\ In(labels) \in Nat
         /\ In(labels)' = In(labels) + Delta(labels, pc[p], to)
<1> DEFINE before == {q \in Procs : pc[q] \in labels}
           after  == {q \in Procs : pc'[q] \in labels}
<1>1. IsFiniteSet(before) /\ Cardinality(before) \in Nat
  BY GatesAssumption, FS_Subset, FS_CardinalityType
<1>2. pc' = [pc EXCEPT ![p] = to]
  BY DEF Goto
<1>3. CASE to \in labels
  <2>1. after = before \cup {p} /\ (p \in before <=> pc[p] \in labels)
    BY <1>2, <1>3
  <2>2. Cardinality(after) = IF p \in before THEN Cardinality(before) ELSE Cardinality(before) + 1
    BY <1>1, <2>1, FS_AddElement
  <2> QED
    BY <1>1, <1>3, <2>1, <2>2 DEF In, Delta
<1>4. CASE to \notin labels
  <2>1. after = before \ {p} /\ (p \in before <=> pc[p] \in labels)
    BY <1>2, <1>4
  <2>2. Cardinality(before \ {p})
          = IF p \in before THEN Cardinality(before) - 1 ELSE Cardinality(before)
    <3> HIDE DEF before
    <3> QED
      BY <1>1, FS_RemoveElement
  <2> QED
    BY <1>1, <1>4, <2>1, <2>2 DEF In, Delta
<1> QED
  BY <1>3, <1>4

(* A step is accounted for when what it adds to a semaphore, a list or COUNT *)
(* is what it takes from another or from the call.                           *)
LEMMA Balance ==
  ASSUME Accounted, NEW p \in Procs, NEW to \in Labels, Goto(p, to),
         Length' \in Nat, enqSem' \in Nat, deqSem' \in Nat, count' \in Int, prods' = prods,
         enqSem' + Length' + Delta(EnqLabels, pc[p], to) = enqSem + Length,
         deqSem' - Length' + Delta(DeqLabels, pc[p], to) = deqSem - Length,
         count' - Length' + Delta({"incCount"}, pc[p], to)
           = count - Length + Delta({"taken", "cleanCount"}, pc[p], to)
  PROVE  PermitsAccounted' /\ CountAccounted'
<1>1. pc \in [Procs -> Labels] /\ enqSem \in Nat /\ deqSem \in Nat /\ count \in Int /\ prods \in Nat
  BY GatesAssumption DEF Accounted, TypeOK
<1>2. Length \in Nat
  BY LenProperties DEF Accounted, TypeOK, Length
<1>3. /\ In(EnqLabels) \in Nat /\ In(EnqLabels)' = In(EnqLabels) + Delta(EnqLabels, pc[p], to)
      /\ In(DeqLabels) \in Nat /\ In(DeqLabels)' = In(DeqLabels) + Delta(DeqLabels, pc[p], to)
  BY <1>1, Moves
<1>4. /\ In({"incCount"}) \in Nat
      /\ In({"incCount"})' = In({"incCount"}) + Delta({"incCount"}, pc[p], to)
      /\ In({"taken", "cleanCount"}) \in Nat
      /\ In({"taken", "cleanCount"})'
           = In({"taken", "cleanCount"}) + Delta({"taken", "cleanCount"}, pc[p], to)
  BY <1>1, Moves
<1>5. /\ Delta(EnqLabels, pc[p], to) \in Int /\ Delta(DeqLabels, pc[p], to) \in Int
      /\ Delta({"incCount"}, pc[p], to) \in Int
      /\ Delta({"taken", "cleanCount"}, pc[p], to) \in Int
  BY DEF Delta
<1>6. PermitsAccounted'
  BY <1>1, <1>2, <1>3, <1>5 DEF Accounted, PermitsAccounted
<1>7. CountAccounted'
  BY <1>1, <1>2, <1>4, <1>5 DEF Accounted, CountAccounted
<1> QED
  BY <1>6, <1>7

(* A step that only moves a call on within the labels of each phase. *)
LEMMA SamePhase ==
  ASSUME Accounted, NEW p \in Procs, NEW to \in Labels, Goto(p, to), UNCHANGED <<queueVars, prods>>,
         Delta(EnqLabels, pc[p], to) = 0, Delta(DeqLabels, pc[p], to) = 0,
         Delta({"incCount"}, pc[p], to) = 0, Delta({"taken", "cleanCount"}, pc[p], to) = 0
  PROVE  PermitsAccounted' /\ CountAccounted'
<1>1. Length' = Length /\ Length \in Nat
  BY LenProperties DEF Accounted, TypeOK, Length, queueVars
<1> QED
  BY <1>1, Balance DEF Accounted, TypeOK, queueVars

(* What the list operations do to the lengths. *)
LEMMA SeqLens ==
  ASSUME NEW s \in Seq(Items)
  PROVE  /\ Len(s) \in Nat
         /\ \A i \in Items : /\ Append(s, i) \in Seq(Items) /\ Len(Append(s, i)) = Len(s) + 1
                            /\ <<i>> \o s \in Seq(Items) /\ Len(<<i>> \o s) = Len(s) + 1
         /\ s # <<>> => /\ Head(s) \in Items /\ Tail(s) \in Seq(Items)
                        /\ Len(Tail(s)) = Len(s) - 1
<1>1. s # <<>> => Head(s) \in Items /\ Tail(s) \in Seq(Items) /\ Len(Tail(s)) = Len(s) - 1
  BY HeadTailProperties
<1> QED
  BY <1>1, LenProperties, AppendProperties

(* The steps of an add: each moves a permit between a semaphore, the call and the list. *)
LEMMA AddAccounted ==
  ASSUME Accounted, NEW p \in Procs, Add(p)
  PROVE  Accounted'
<1> USE DEF Labels, AddLabels, RemoveLabels, CleanLabels, EnqLabels, DeqLabels, HeldLabels
<1>1. CASE EnqGatePass(p)
  <2>1. TypeOK'
    BY <1>1 DEF EnqGatePass, Go, Goto, Return, Hold, Forget, Accounted, TypeOK
  <2>2. Goto(p, "enqItem") /\ prods' = prods
    BY <1>1 DEF EnqGatePass, Go, Return
  <2>3. Length' \in Nat /\ Length \in Nat
    BY <2>1, LenProperties DEF Length, Accounted, TypeOK
  <2>4. /\ enqSem' + Length' + Delta(EnqLabels, pc[p], "enqItem") = enqSem + Length
        /\ deqSem' - Length' + Delta(DeqLabels, pc[p], "enqItem") = deqSem - Length
        /\ count' - Length' + Delta({"incCount"}, pc[p], "enqItem")
             = count - Length + Delta({"taken", "cleanCount"}, pc[p], "enqItem")
    BY <1>1, <2>3 DEF EnqGatePass, Go, Delta, Length, Accounted, TypeOK
  <2>5. "enqItem" \in Labels /\ enqSem' \in Nat /\ deqSem' \in Nat /\ count' \in Int
    BY <2>1 DEF TypeOK
  <2> QED
    BY <2>1, <2>2, <2>3, <2>4, <2>5, Balance DEF Accounted
<1>2. CASE EnqGateLimit(p)
  <2>1. PermitsAccounted' /\ CountAccounted'
    <3> DEFINE to == "idle"
    <3>1. Goto(p, to) /\ to \in Labels /\ UNCHANGED <<queueVars, prods>>
      BY <1>2 DEF EnqGateLimit, Go, Return
    <3>2. /\ Delta(EnqLabels, pc[p], to) = 0 /\ Delta(DeqLabels, pc[p], to) = 0
          /\ Delta({"incCount"}, pc[p], to) = 0 /\ Delta({"taken", "cleanCount"}, pc[p], to) = 0
      BY <1>2 DEF EnqGateLimit, Go, Delta
    <3> HIDE DEF to
    <3> QED
      BY <3>1, <3>2, SamePhase
  <2>2. TypeOK'
    BY <1>2 DEF EnqGateLimit, Go, Goto, Return, Hold, Accounted, TypeOK, queueVars
  <2> QED
    BY <2>1, <2>2 DEF Accounted
<1>3. CASE EnqItem(p)
  <2>1. PermitsAccounted' /\ CountAccounted'
    <3> DEFINE to == IF EnqToLifo THEN "pushLifo" ELSE "pushFifo"
    <3>1. Goto(p, to) /\ to \in Labels /\ UNCHANGED <<queueVars, prods>>
      BY <1>3 DEF EnqItem, Go, Return
    <3>2. /\ Delta(EnqLabels, pc[p], to) = 0 /\ Delta(DeqLabels, pc[p], to) = 0
          /\ Delta({"incCount"}, pc[p], to) = 0 /\ Delta({"taken", "cleanCount"}, pc[p], to) = 0
      BY <1>3 DEF EnqItem, Go, Delta
    <3> HIDE DEF to
    <3> QED
      BY <3>1, <3>2, SamePhase
  <2>2. TypeOK'
    BY <1>3 DEF EnqItem, Go, Goto, Return, Hold, Accounted, TypeOK, queueVars
  <2> QED
    BY <2>1, <2>2 DEF Accounted
<1>4. CASE EnqNoMem(p)
  <2>1. PermitsAccounted' /\ CountAccounted'
    <3> DEFINE to == "addFail"
    <3>1. Goto(p, to) /\ to \in Labels /\ UNCHANGED <<queueVars, prods>>
      BY <1>4 DEF EnqNoMem, Go, Return
    <3>2. /\ Delta(EnqLabels, pc[p], to) = 0 /\ Delta(DeqLabels, pc[p], to) = 0
          /\ Delta({"incCount"}, pc[p], to) = 0 /\ Delta({"taken", "cleanCount"}, pc[p], to) = 0
      BY <1>4 DEF EnqNoMem, Go, Delta
    <3> HIDE DEF to
    <3> QED
      BY <3>1, <3>2, SamePhase
  <2>2. TypeOK'
    BY <1>4 DEF EnqNoMem, Go, Goto, Return, Hold, Accounted, TypeOK, queueVars
  <2> QED
    BY <2>1, <2>2 DEF Accounted
<1>5. CASE AddFail(p)
  <2>1. TypeOK'
    BY <1>5 DEF AddFail, Go, Goto, Return, Hold, Forget, Accounted, TypeOK
  <2>2. Goto(p, "idle") /\ prods' = prods
    BY <1>5 DEF AddFail, Go, Return
  <2>3. Length' \in Nat /\ Length \in Nat
    BY <2>1, LenProperties DEF Length, Accounted, TypeOK
  <2>4. /\ enqSem' + Length' + Delta(EnqLabels, pc[p], "idle") = enqSem + Length
        /\ deqSem' - Length' + Delta(DeqLabels, pc[p], "idle") = deqSem - Length
        /\ count' - Length' + Delta({"incCount"}, pc[p], "idle")
             = count - Length + Delta({"taken", "cleanCount"}, pc[p], "idle")
    BY <1>5, <2>3 DEF AddFail, Go, Delta, Length, Accounted, TypeOK
  <2>5. "idle" \in Labels /\ enqSem' \in Nat /\ deqSem' \in Nat /\ count' \in Int
    BY <2>1 DEF TypeOK
  <2> QED
    BY <2>1, <2>2, <2>3, <2>4, <2>5, Balance DEF Accounted
<1>6. CASE PushFifo(p)
  <2>a. fifo' \in Seq(Items) /\ Len(fifo') = Len(fifo) + 1 /\ stack' = stack
    BY <1>6, SeqLens DEF PushFifo, Go, Accounted, TypeOK
  <2>1. TypeOK'
    BY <1>6, <2>a DEF PushFifo, Go, Goto, Return, Hold, Forget, Accounted, TypeOK
  <2>2. Goto(p, "incCount") /\ prods' = prods
    BY <1>6 DEF PushFifo, Go, Return
  <2>3. Length' \in Nat /\ Length \in Nat
    BY <2>1, LenProperties DEF Length, Accounted, TypeOK
  <2>4. /\ enqSem' + Length' + Delta(EnqLabels, pc[p], "incCount") = enqSem + Length
        /\ deqSem' - Length' + Delta(DeqLabels, pc[p], "incCount") = deqSem - Length
        /\ count' - Length' + Delta({"incCount"}, pc[p], "incCount")
             = count - Length + Delta({"taken", "cleanCount"}, pc[p], "incCount")
    BY <1>6, <2>3, <2>a DEF PushFifo, Go, Delta, Length, Accounted, TypeOK
  <2>5. "incCount" \in Labels /\ enqSem' \in Nat /\ deqSem' \in Nat /\ count' \in Int
    BY <2>1 DEF TypeOK
  <2> QED
    BY <2>1, <2>2, <2>3, <2>4, <2>5, Balance DEF Accounted
<1>7. CASE PushLifo(p)
  <2>a. stack' \in Seq(Items) /\ Len(stack') = Len(stack) + 1 /\ fifo' = fifo
    BY <1>7, SeqLens DEF PushLifo, Go, Accounted, TypeOK
  <2>1. TypeOK'
    BY <1>7, <2>a DEF PushLifo, Go, Goto, Return, Hold, Forget, Accounted, TypeOK
  <2>2. Goto(p, "incCount") /\ prods' = prods
    BY <1>7 DEF PushLifo, Go, Return
  <2>3. Length' \in Nat /\ Length \in Nat
    BY <2>1, LenProperties DEF Length, Accounted, TypeOK
  <2>4. /\ enqSem' + Length' + Delta(EnqLabels, pc[p], "incCount") = enqSem + Length
        /\ deqSem' - Length' + Delta(DeqLabels, pc[p], "incCount") = deqSem - Length
        /\ count' - Length' + Delta({"incCount"}, pc[p], "incCount")
             = count - Length + Delta({"taken", "cleanCount"}, pc[p], "incCount")
    BY <1>7, <2>3, <2>a DEF PushLifo, Go, Delta, Length, Accounted, TypeOK
  <2>5. "incCount" \in Labels /\ enqSem' \in Nat /\ deqSem' \in Nat /\ count' \in Int
    BY <2>1 DEF TypeOK
  <2> QED
    BY <2>1, <2>2, <2>3, <2>4, <2>5, Balance DEF Accounted
<1>8. CASE IncCount(p)
  <2>1. TypeOK'
    BY <1>8 DEF IncCount, Go, Goto, Return, Hold, Forget, Accounted, TypeOK
  <2>2. Goto(p, "addDone") /\ prods' = prods
    BY <1>8 DEF IncCount, Go, Return
  <2>3. Length' \in Nat /\ Length \in Nat
    BY <2>1, LenProperties DEF Length, Accounted, TypeOK
  <2>4. /\ enqSem' + Length' + Delta(EnqLabels, pc[p], "addDone") = enqSem + Length
        /\ deqSem' - Length' + Delta(DeqLabels, pc[p], "addDone") = deqSem - Length
        /\ count' - Length' + Delta({"incCount"}, pc[p], "addDone")
             = count - Length + Delta({"taken", "cleanCount"}, pc[p], "addDone")
    BY <1>8, <2>3 DEF IncCount, Go, Delta, Length, Accounted, TypeOK
  <2>5. "addDone" \in Labels /\ enqSem' \in Nat /\ deqSem' \in Nat /\ count' \in Int
    BY <2>1 DEF TypeOK
  <2> QED
    BY <2>1, <2>2, <2>3, <2>4, <2>5, Balance DEF Accounted
<1>9. CASE AddDone(p)
  <2>1. TypeOK'
    BY <1>9 DEF AddDone, Go, Goto, Return, Hold, Forget, Accounted, TypeOK
  <2>2. Goto(p, "idle") /\ prods' = prods
    BY <1>9 DEF AddDone, Go, Return
  <2>3. Length' \in Nat /\ Length \in Nat
    BY <2>1, LenProperties DEF Length, Accounted, TypeOK
  <2>4. /\ enqSem' + Length' + Delta(EnqLabels, pc[p], "idle") = enqSem + Length
        /\ deqSem' - Length' + Delta(DeqLabels, pc[p], "idle") = deqSem - Length
        /\ count' - Length' + Delta({"incCount"}, pc[p], "idle")
             = count - Length + Delta({"taken", "cleanCount"}, pc[p], "idle")
    BY <1>9, <2>3 DEF AddDone, Go, Delta, Length, Accounted, TypeOK
  <2>5. "idle" \in Labels /\ enqSem' \in Nat /\ deqSem' \in Nat /\ count' \in Int
    BY <2>1 DEF TypeOK
  <2> QED
    BY <2>1, <2>2, <2>3, <2>4, <2>5, Balance DEF Accounted
<1> QED
  BY <1>1, <1>2, <1>3, <1>4, <1>5, <1>6, <1>7, <1>8, <1>9 DEF Add

(* The steps of a remove do so too, with the discard of an expired item, *)
LEMMA RemoveAccounted ==
  ASSUME Accounted, NEW p \in Procs, Remove(p)
  PROVE  Accounted'
<1> USE DEF Labels, AddLabels, RemoveLabels, CleanLabels, EnqLabels, DeqLabels, HeldLabels
<1>1. CASE DeqGatePass(p)
  <2> DEFINE to == "deq"
  <2>1. TypeOK'
    BY <1>1 DEF DeqGatePass, Go, Goto, Return, Hold, Forget, Accounted, TypeOK
  <2>2. Goto(p, to) /\ prods' = prods /\ to \in Labels
    BY <1>1 DEF DeqGatePass, Go, Return
  <2>3. Length' \in Nat /\ Length \in Nat
    BY <2>1, LenProperties DEF Length, Accounted, TypeOK
  <2>4. /\ enqSem' + Length' + Delta(EnqLabels, pc[p], to) = enqSem + Length
        /\ deqSem' - Length' + Delta(DeqLabels, pc[p], to) = deqSem - Length
        /\ count' - Length' + Delta({"incCount"}, pc[p], to)
             = count - Length + Delta({"taken", "cleanCount"}, pc[p], to)
    BY <1>1, <2>3 DEF DeqGatePass, Go, Delta, Length, Accounted, TypeOK
  <2>5. enqSem' \in Nat /\ deqSem' \in Nat /\ count' \in Int
    BY <2>1 DEF TypeOK
  <2> HIDE DEF to
  <2> QED
    BY <2>1, <2>2, <2>3, <2>4, <2>5, Balance DEF Accounted
<1>2. CASE DeqGateEmpty(p)
  <2>1. PermitsAccounted' /\ CountAccounted'
    <3> DEFINE to == "idle"
    <3>1. Goto(p, to) /\ to \in Labels /\ UNCHANGED <<queueVars, prods>>
      BY <1>2 DEF DeqGateEmpty, Go, Return
    <3>2. /\ Delta(EnqLabels, pc[p], to) = 0 /\ Delta(DeqLabels, pc[p], to) = 0
          /\ Delta({"incCount"}, pc[p], to) = 0 /\ Delta({"taken", "cleanCount"}, pc[p], to) = 0
      BY <1>2 DEF DeqGateEmpty, Go, Delta
    <3> HIDE DEF to
    <3> QED
      BY <3>1, <3>2, SamePhase
  <2>2. TypeOK'
    BY <1>2 DEF DeqGateEmpty, Go, Goto, Return, Hold, Accounted, TypeOK, queueVars
  <2> QED
    BY <2>1, <2>2 DEF Accounted
<1>3. CASE Deq(p)
  <2>1. PermitsAccounted' /\ CountAccounted'
    <3> DEFINE to == IF stack # <<>> THEN "lifo" ELSE IF fifo # <<>> THEN "fifo" ELSE "deqBack"
    <3>1. Goto(p, to) /\ to \in Labels /\ UNCHANGED <<queueVars, prods>>
      BY <1>3 DEF Deq, Go, Return
    <3>2. /\ Delta(EnqLabels, pc[p], to) = 0 /\ Delta(DeqLabels, pc[p], to) = 0
          /\ Delta({"incCount"}, pc[p], to) = 0 /\ Delta({"taken", "cleanCount"}, pc[p], to) = 0
      BY <1>3 DEF Deq, Go, Delta
    <3> HIDE DEF to
    <3> QED
      BY <3>1, <3>2, SamePhase
  <2>2. TypeOK'
    BY <1>3 DEF Deq, Go, Goto, Return, Hold, Accounted, TypeOK, queueVars
  <2> QED
    BY <2>1, <2>2 DEF Accounted
<1>4. CASE FifoRemove(p)
  <2>a. /\ fifo' \in Seq(Items) /\ stack' = stack
        /\ fifo = <<>> => fifo' = fifo
        /\ fifo # <<>> => Head(fifo) \in Items /\ Len(fifo') = Len(fifo) - 1
    BY <1>4, SeqLens DEF FifoRemove, Go, Accounted, TypeOK
  <2> DEFINE to == IF fifo = <<>> THEN "deq" ELSE "taken"
  <2>1. TypeOK'
    BY <1>4, <2>a DEF FifoRemove, Go, Goto, Return, Hold, Forget, Accounted, TypeOK
  <2>2. Goto(p, to) /\ prods' = prods /\ to \in Labels
    BY <1>4 DEF FifoRemove, Go, Return
  <2>3. Length' \in Nat /\ Length \in Nat
    BY <2>1, LenProperties DEF Length, Accounted, TypeOK
  <2>4. /\ enqSem' + Length' + Delta(EnqLabels, pc[p], to) = enqSem + Length
        /\ deqSem' - Length' + Delta(DeqLabels, pc[p], to) = deqSem - Length
        /\ count' - Length' + Delta({"incCount"}, pc[p], to)
             = count - Length + Delta({"taken", "cleanCount"}, pc[p], to)
    <3>1. /\ UNCHANGED <<enqSem, deqSem, count>> /\ pc[p] = "fifo"
          /\ enqSem \in Nat /\ deqSem \in Nat /\ count \in Int
      BY <1>4 DEF FifoRemove, Go, Accounted, TypeOK
    <3>2. CASE fifo # <<>>
      <4>1. Length' = Length - 1
        <5>1. Len(fifo) \in Nat /\ Len(stack) \in Nat
          BY SeqLens DEF Accounted, TypeOK
        <5> QED
          BY <2>a, <3>2, <5>1 DEF Length
      <4>2. to = "taken"
        BY <3>2
      <4> HIDE DEF to
      <4> QED
        BY <2>3, <3>1, <4>1, <4>2 DEF Delta
    <3>3. CASE ~(fifo # <<>>)
      <4>1. Length' = Length
        BY <2>a, <3>3 DEF Length
      <4>2. to = "deq"
        BY <3>3
      <4> HIDE DEF to
      <4> QED
        BY <2>3, <3>1, <4>1, <4>2 DEF Delta
    <3> QED
      BY <3>2, <3>3
  <2>5. enqSem' \in Nat /\ deqSem' \in Nat /\ count' \in Int
    BY <2>1 DEF TypeOK
  <2> HIDE DEF to
  <2> QED
    BY <2>1, <2>2, <2>3, <2>4, <2>5, Balance DEF Accounted
<1>5. CASE LifoRemove(p)
  <2>a. /\ stack' \in Seq(Items) /\ fifo' = fifo
        /\ stack = <<>> => stack' = stack
        /\ stack # <<>> => Head(stack) \in Items /\ Len(stack') = Len(stack) - 1
    BY <1>5, SeqLens DEF LifoRemove, Go, Accounted, TypeOK
  <2> DEFINE to == IF stack = <<>> THEN "abort" ELSE "taken"
  <2>1. TypeOK'
    BY <1>5, <2>a DEF LifoRemove, Go, Goto, Return, Hold, Forget, Accounted, TypeOK
  <2>2. Goto(p, to) /\ prods' = prods /\ to \in Labels
    BY <1>5 DEF LifoRemove, Go, Return
  <2>3. Length' \in Nat /\ Length \in Nat
    BY <2>1, LenProperties DEF Length, Accounted, TypeOK
  <2>4. /\ enqSem' + Length' + Delta(EnqLabels, pc[p], to) = enqSem + Length
        /\ deqSem' - Length' + Delta(DeqLabels, pc[p], to) = deqSem - Length
        /\ count' - Length' + Delta({"incCount"}, pc[p], to)
             = count - Length + Delta({"taken", "cleanCount"}, pc[p], to)
    <3>1. /\ UNCHANGED <<enqSem, deqSem, count>> /\ pc[p] = "lifo"
          /\ enqSem \in Nat /\ deqSem \in Nat /\ count \in Int
      BY <1>5 DEF LifoRemove, Go, Accounted, TypeOK
    <3>2. CASE stack # <<>>
      <4>1. Length' = Length - 1
        <5>1. Len(fifo) \in Nat /\ Len(stack) \in Nat
          BY SeqLens DEF Accounted, TypeOK
        <5> QED
          BY <2>a, <3>2, <5>1 DEF Length
      <4>2. to = "taken"
        BY <3>2
      <4> HIDE DEF to
      <4> QED
        BY <2>3, <3>1, <4>1, <4>2 DEF Delta
    <3>3. CASE ~(stack # <<>>)
      <4>1. Length' = Length
        BY <2>a, <3>3 DEF Length
      <4>2. to = "abort"
        BY <3>3
      <4> HIDE DEF to
      <4> QED
        BY <2>3, <3>1, <4>1, <4>2 DEF Delta
    <3> QED
      BY <3>2, <3>3
  <2>5. enqSem' \in Nat /\ deqSem' \in Nat /\ count' \in Int
    BY <2>1 DEF TypeOK
  <2> HIDE DEF to
  <2> QED
    BY <2>1, <2>2, <2>3, <2>4, <2>5, Balance DEF Accounted
<1>6. CASE PostProcessDeq(p)
  <2> DEFINE to == IF Expired(p) THEN "dropped" ELSE "removeDone"
  <2>1. TypeOK'
    BY <1>6 DEF PostProcessDeq, Go, Goto, Return, Hold, Forget, Accounted, TypeOK
  <2>2. Goto(p, to) /\ prods' = prods /\ to \in Labels
    BY <1>6 DEF PostProcessDeq, Go, Return
  <2>3. Length' \in Nat /\ Length \in Nat
    BY <2>1, LenProperties DEF Length, Accounted, TypeOK
  <2>4. /\ enqSem' + Length' + Delta(EnqLabels, pc[p], to) = enqSem + Length
        /\ deqSem' - Length' + Delta(DeqLabels, pc[p], to) = deqSem - Length
        /\ count' - Length' + Delta({"incCount"}, pc[p], to)
             = count - Length + Delta({"taken", "cleanCount"}, pc[p], to)
    BY <1>6, <2>3 DEF PostProcessDeq, Go, Delta, Length, Accounted, TypeOK
  <2>5. enqSem' \in Nat /\ deqSem' \in Nat /\ count' \in Int
    BY <2>1 DEF TypeOK
  <2> HIDE DEF to
  <2> QED
    BY <2>1, <2>2, <2>3, <2>4, <2>5, Balance DEF Accounted
<1>7. CASE RemoveDone(p)
  <2> DEFINE to == "idle"
  <2>1. TypeOK'
    BY <1>7 DEF RemoveDone, Go, Goto, Return, Hold, Forget, Accounted, TypeOK
  <2>2. Goto(p, to) /\ prods' = prods /\ to \in Labels
    BY <1>7 DEF RemoveDone, Go, Return
  <2>3. Length' \in Nat /\ Length \in Nat
    BY <2>1, LenProperties DEF Length, Accounted, TypeOK
  <2>4. /\ enqSem' + Length' + Delta(EnqLabels, pc[p], to) = enqSem + Length
        /\ deqSem' - Length' + Delta(DeqLabels, pc[p], to) = deqSem - Length
        /\ count' - Length' + Delta({"incCount"}, pc[p], to)
             = count - Length + Delta({"taken", "cleanCount"}, pc[p], to)
    BY <1>7, <2>3 DEF RemoveDone, Go, Delta, Length, Accounted, TypeOK
  <2>5. enqSem' \in Nat /\ deqSem' \in Nat /\ count' \in Int
    BY <2>1 DEF TypeOK
  <2> HIDE DEF to
  <2> QED
    BY <2>1, <2>2, <2>3, <2>4, <2>5, Balance DEF Accounted
<1>8. CASE Dropped(p)
  <2> DEFINE to == "deqGate"
  <2>1. TypeOK'
    BY <1>8 DEF Dropped, Go, Goto, Return, Hold, Forget, Accounted, TypeOK
  <2>2. Goto(p, to) /\ prods' = prods /\ to \in Labels
    BY <1>8 DEF Dropped, Go, Return
  <2>3. Length' \in Nat /\ Length \in Nat
    BY <2>1, LenProperties DEF Length, Accounted, TypeOK
  <2>4. /\ enqSem' + Length' + Delta(EnqLabels, pc[p], to) = enqSem + Length
        /\ deqSem' - Length' + Delta(DeqLabels, pc[p], to) = deqSem - Length
        /\ count' - Length' + Delta({"incCount"}, pc[p], to)
             = count - Length + Delta({"taken", "cleanCount"}, pc[p], to)
    BY <1>8, <2>3 DEF Dropped, Go, Delta, Length, Accounted, TypeOK
  <2>5. enqSem' \in Nat /\ deqSem' \in Nat /\ count' \in Int
    BY <2>1 DEF TypeOK
  <2> HIDE DEF to
  <2> QED
    BY <2>1, <2>2, <2>3, <2>4, <2>5, Balance DEF Accounted
<1>9. CASE DeqBack(p)
  <2> DEFINE to == "idle"
  <2>1. TypeOK'
    BY <1>9 DEF DeqBack, Go, Goto, Return, Hold, Forget, Accounted, TypeOK
  <2>2. Goto(p, to) /\ prods' = prods /\ to \in Labels
    BY <1>9 DEF DeqBack, Go, Return
  <2>3. Length' \in Nat /\ Length \in Nat
    BY <2>1, LenProperties DEF Length, Accounted, TypeOK
  <2>4. /\ enqSem' + Length' + Delta(EnqLabels, pc[p], to) = enqSem + Length
        /\ deqSem' - Length' + Delta(DeqLabels, pc[p], to) = deqSem - Length
        /\ count' - Length' + Delta({"incCount"}, pc[p], to)
             = count - Length + Delta({"taken", "cleanCount"}, pc[p], to)
    BY <1>9, <2>3 DEF DeqBack, Go, Delta, Length, Accounted, TypeOK
  <2>5. enqSem' \in Nat /\ deqSem' \in Nat /\ count' \in Int
    BY <2>1 DEF TypeOK
  <2> HIDE DEF to
  <2> QED
    BY <2>1, <2>2, <2>3, <2>4, <2>5, Balance DEF Accounted
<1> QED
  BY <1>1, <1>2, <1>3, <1>4, <1>5, <1>6, <1>7, <1>8, <1>9 DEF Remove

(* and those of a clean. *)
LEMMA CleanAccounted ==
  ASSUME Accounted, NEW p \in Procs, Clean(p)
  PROVE  Accounted'
<1> USE DEF Labels, AddLabels, RemoveLabels, CleanLabels, EnqLabels, DeqLabels, HeldLabels
<1>1. CASE CleanGate(p)
  <2> DEFINE to == IF deqSem > 0 THEN "cleanLook" ELSE "idle"
  <2>1. TypeOK'
    BY <1>1 DEF CleanGate, Go, Goto, Return, Hold, Forget, Accounted, TypeOK
  <2>2. Goto(p, to) /\ prods' = prods /\ to \in Labels
    BY <1>1 DEF CleanGate, Go, Return
  <2>3. Length' \in Nat /\ Length \in Nat
    BY <2>1, LenProperties DEF Length, Accounted, TypeOK
  <2>4. /\ enqSem' + Length' + Delta(EnqLabels, pc[p], to) = enqSem + Length
        /\ deqSem' - Length' + Delta(DeqLabels, pc[p], to) = deqSem - Length
        /\ count' - Length' + Delta({"incCount"}, pc[p], to)
             = count - Length + Delta({"taken", "cleanCount"}, pc[p], to)
    BY <1>1, <2>3 DEF CleanGate, Go, Delta, Length, Accounted, TypeOK
  <2>5. enqSem' \in Nat /\ deqSem' \in Nat /\ count' \in Int
    BY <2>1 DEF TypeOK
  <2> HIDE DEF to
  <2> QED
    BY <2>1, <2>2, <2>3, <2>4, <2>5, Balance DEF Accounted
<1>2. CASE CleanLook(p)
  <2>1. PermitsAccounted' /\ CountAccounted'
    <3> DEFINE to == IF fifo # <<>> /\ Head(fifo) \in old THEN "cleanTake" ELSE "cleanBack"
    <3>1. Goto(p, to) /\ to \in Labels /\ UNCHANGED <<queueVars, prods>>
      BY <1>2 DEF CleanLook, Go, Return
    <3>2. /\ Delta(EnqLabels, pc[p], to) = 0 /\ Delta(DeqLabels, pc[p], to) = 0
          /\ Delta({"incCount"}, pc[p], to) = 0 /\ Delta({"taken", "cleanCount"}, pc[p], to) = 0
      BY <1>2 DEF CleanLook, Go, Delta
    <3> HIDE DEF to
    <3> QED
      BY <3>1, <3>2, SamePhase
  <2>2. TypeOK'
    BY <1>2 DEF CleanLook, Go, Goto, Return, Hold, Accounted, TypeOK, queueVars
  <2> QED
    BY <2>1, <2>2 DEF Accounted
<1>3. CASE CleanTake(p)
  <2>a. /\ fifo' \in Seq(Items) /\ stack' = stack
        /\ ~(fifo # <<>> /\ Head(fifo) = item[p]) => fifo' = fifo
        /\ (fifo # <<>> /\ Head(fifo) = item[p])
             => item[p] \in Items /\ Len(fifo') = Len(fifo) - 1
    BY <1>3, SeqLens DEF CleanTake, Accounted, TypeOK
  <2> DEFINE to == IF fifo # <<>> /\ Head(fifo) = item[p] THEN "cleanCount" ELSE "cleanBack"
  <2>1. TypeOK'
    BY <1>3, <2>a DEF CleanTake, Go, Goto, Return, Hold, Forget, Accounted, TypeOK
  <2>2. Goto(p, to) /\ prods' = prods /\ to \in Labels
    BY <1>3 DEF CleanTake, Go, Return
  <2>3. Length' \in Nat /\ Length \in Nat
    BY <2>1, LenProperties DEF Length, Accounted, TypeOK
  <2>4. /\ enqSem' + Length' + Delta(EnqLabels, pc[p], to) = enqSem + Length
        /\ deqSem' - Length' + Delta(DeqLabels, pc[p], to) = deqSem - Length
        /\ count' - Length' + Delta({"incCount"}, pc[p], to)
             = count - Length + Delta({"taken", "cleanCount"}, pc[p], to)
    <3>1. /\ UNCHANGED <<enqSem, deqSem, count>> /\ pc[p] = "cleanTake"
          /\ enqSem \in Nat /\ deqSem \in Nat /\ count \in Int
      BY <1>3 DEF CleanTake, Go, Accounted, TypeOK
    <3>2. CASE fifo # <<>> /\ Head(fifo) = item[p]
      <4>1. Length' = Length - 1
        <5>1. Len(fifo) \in Nat /\ Len(stack) \in Nat
          BY SeqLens DEF Accounted, TypeOK
        <5> QED
          BY <2>a, <3>2, <5>1 DEF Length
      <4>2. to = "cleanCount"
        BY <3>2
      <4> HIDE DEF to
      <4> QED
        BY <2>3, <3>1, <4>1, <4>2 DEF Delta
    <3>3. CASE ~(fifo # <<>> /\ Head(fifo) = item[p])
      <4>1. Length' = Length
        BY <2>a, <3>3 DEF Length
      <4>2. to = "cleanBack"
        BY <3>3
      <4> HIDE DEF to
      <4> QED
        BY <2>3, <3>1, <4>1, <4>2 DEF Delta
    <3> QED
      BY <3>2, <3>3
  <2>5. enqSem' \in Nat /\ deqSem' \in Nat /\ count' \in Int
    BY <2>1 DEF TypeOK
  <2> HIDE DEF to
  <2> QED
    BY <2>1, <2>2, <2>3, <2>4, <2>5, Balance DEF Accounted
<1>4. CASE CleanCount(p)
  <2> DEFINE to == "cleanPost"
  <2>1. TypeOK'
    BY <1>4 DEF CleanCount, Go, Goto, Return, Hold, Forget, Accounted, TypeOK
  <2>2. Goto(p, to) /\ prods' = prods /\ to \in Labels
    BY <1>4 DEF CleanCount, Go, Return
  <2>3. Length' \in Nat /\ Length \in Nat
    BY <2>1, LenProperties DEF Length, Accounted, TypeOK
  <2>4. /\ enqSem' + Length' + Delta(EnqLabels, pc[p], to) = enqSem + Length
        /\ deqSem' - Length' + Delta(DeqLabels, pc[p], to) = deqSem - Length
        /\ count' - Length' + Delta({"incCount"}, pc[p], to)
             = count - Length + Delta({"taken", "cleanCount"}, pc[p], to)
    BY <1>4, <2>3 DEF CleanCount, Go, Delta, Length, Accounted, TypeOK
  <2>5. enqSem' \in Nat /\ deqSem' \in Nat /\ count' \in Int
    BY <2>1 DEF TypeOK
  <2> HIDE DEF to
  <2> QED
    BY <2>1, <2>2, <2>3, <2>4, <2>5, Balance DEF Accounted
<1>5. CASE CleanPost(p)
  <2> DEFINE to == "cleanGate"
  <2>1. TypeOK'
    BY <1>5 DEF CleanPost, Go, Goto, Return, Hold, Forget, Accounted, TypeOK
  <2>2. Goto(p, to) /\ prods' = prods /\ to \in Labels
    BY <1>5 DEF CleanPost, Go, Return
  <2>3. Length' \in Nat /\ Length \in Nat
    BY <2>1, LenProperties DEF Length, Accounted, TypeOK
  <2>4. /\ enqSem' + Length' + Delta(EnqLabels, pc[p], to) = enqSem + Length
        /\ deqSem' - Length' + Delta(DeqLabels, pc[p], to) = deqSem - Length
        /\ count' - Length' + Delta({"incCount"}, pc[p], to)
             = count - Length + Delta({"taken", "cleanCount"}, pc[p], to)
    BY <1>5, <2>3 DEF CleanPost, Go, Delta, Length, Accounted, TypeOK
  <2>5. enqSem' \in Nat /\ deqSem' \in Nat /\ count' \in Int
    BY <2>1 DEF TypeOK
  <2> HIDE DEF to
  <2> QED
    BY <2>1, <2>2, <2>3, <2>4, <2>5, Balance DEF Accounted
<1>6. CASE CleanBack(p)
  <2> DEFINE to == "idle"
  <2>1. TypeOK'
    BY <1>6 DEF CleanBack, Go, Goto, Return, Hold, Forget, Accounted, TypeOK
  <2>2. Goto(p, to) /\ prods' = prods /\ to \in Labels
    BY <1>6 DEF CleanBack, Go, Return
  <2>3. Length' \in Nat /\ Length \in Nat
    BY <2>1, LenProperties DEF Length, Accounted, TypeOK
  <2>4. /\ enqSem' + Length' + Delta(EnqLabels, pc[p], to) = enqSem + Length
        /\ deqSem' - Length' + Delta(DeqLabels, pc[p], to) = deqSem - Length
        /\ count' - Length' + Delta({"incCount"}, pc[p], to)
             = count - Length + Delta({"taken", "cleanCount"}, pc[p], to)
    BY <1>6, <2>3 DEF CleanBack, Go, Delta, Length, Accounted, TypeOK
  <2>5. enqSem' \in Nat /\ deqSem' \in Nat /\ count' \in Int
    BY <2>1 DEF TypeOK
  <2> HIDE DEF to
  <2> QED
    BY <2>1, <2>2, <2>3, <2>4, <2>5, Balance DEF Accounted
<1> QED
  BY <1>1, <1>2, <1>3, <1>4, <1>5, <1>6 DEF Clean

(* A call begins without a permit; a prod adds one. *)
LEMMA CallAccounted ==
  ASSUME Accounted, NEW p \in Procs, Call(p)
  PROVE  Accounted'
<1> USE DEF Labels, AddLabels, RemoveLabels, CleanLabels, EnqLabels, DeqLabels, HeldLabels
<1>1. CASE CallAdd(p)
  <2>1. PermitsAccounted' /\ CountAccounted'
    <3> DEFINE to == "enqGate"
    <3>1. Goto(p, to) /\ to \in Labels /\ UNCHANGED <<queueVars, prods>>
      BY <1>1 DEF CallAdd, Go, Return
    <3>2. /\ Delta(EnqLabels, pc[p], to) = 0 /\ Delta(DeqLabels, pc[p], to) = 0
          /\ Delta({"incCount"}, pc[p], to) = 0 /\ Delta({"taken", "cleanCount"}, pc[p], to) = 0
      BY <1>1 DEF CallAdd, Go, Delta
    <3> HIDE DEF to
    <3> QED
      BY <3>1, <3>2, SamePhase
  <2>2. PICK m \in Modes[p] : mode' = [mode EXCEPT ![p] = m]
    BY <1>1 DEF CallAdd
  <2>3. m \in {"try", "wait", "timed"}
    BY GatesAssumption
  <2>4. TypeOK'
    BY <1>1, <2>2, <2>3 DEF CallAdd, Go, Goto, Accounted, TypeOK, queueVars
  <2> QED
    BY <2>1, <2>4 DEF Accounted
<1>2. CASE CallRemove(p)
  <2>1. PermitsAccounted' /\ CountAccounted'
    <3> DEFINE to == "deqGate"
    <3>1. Goto(p, to) /\ to \in Labels /\ UNCHANGED <<queueVars, prods>>
      BY <1>2 DEF CallRemove, Go, Return
    <3>2. /\ Delta(EnqLabels, pc[p], to) = 0 /\ Delta(DeqLabels, pc[p], to) = 0
          /\ Delta({"incCount"}, pc[p], to) = 0 /\ Delta({"taken", "cleanCount"}, pc[p], to) = 0
      BY <1>2 DEF CallRemove, Go, Delta
    <3> HIDE DEF to
    <3> QED
      BY <3>1, <3>2, SamePhase
  <2>2. PICK m \in Modes[p] : mode' = [mode EXCEPT ![p] = m]
    BY <1>2 DEF CallRemove
  <2>3. m \in {"try", "wait", "timed"}
    BY GatesAssumption
  <2>4. TypeOK'
    BY <1>2, <2>2, <2>3 DEF CallRemove, Go, Goto, Accounted, TypeOK, queueVars
  <2> QED
    BY <2>1, <2>4 DEF Accounted
<1>3. CASE CallClean(p)
  <2>1. PermitsAccounted' /\ CountAccounted'
    <3> DEFINE to == "cleanGate"
    <3>1. Goto(p, to) /\ to \in Labels /\ UNCHANGED <<queueVars, prods>>
      BY <1>3 DEF CallClean, Go, Return
    <3>2. /\ Delta(EnqLabels, pc[p], to) = 0 /\ Delta(DeqLabels, pc[p], to) = 0
          /\ Delta({"incCount"}, pc[p], to) = 0 /\ Delta({"taken", "cleanCount"}, pc[p], to) = 0
      BY <1>3 DEF CallClean, Go, Delta
    <3> HIDE DEF to
    <3> QED
      BY <3>1, <3>2, SamePhase
  <2>2. TypeOK'
    BY <1>3 DEF CallClean, Go, Goto, Return, Hold, Accounted, TypeOK, queueVars
  <2> QED
    BY <2>1, <2>2 DEF Accounted
<1>4. CASE Prod(p)
  <2>1. /\ UNCHANGED <<fifo, stack, enqSem, count, pc>>
        /\ deqSem' = deqSem + 1 /\ prods' = prods + 1 /\ prods < MaxProds
    BY <1>4 DEF Prod
  <2>2. /\ In(EnqLabels)' = In(EnqLabels)
        /\ In(DeqLabels)' = In(DeqLabels)
        /\ In({"incCount"})' = In({"incCount"})
        /\ In({"taken", "cleanCount"})' = In({"taken", "cleanCount"})
    BY <2>1 DEF In
  <2>3. In(DeqLabels) \in Nat /\ Length \in Nat /\ Length' = Length
    <3>1. IsFiniteSet({q \in Procs : pc[q] \in DeqLabels})
      BY GatesAssumption, FS_Subset
    <3> QED
      BY <2>1, <3>1, FS_CardinalityType, LenProperties DEF In, Length, Accounted, TypeOK
  <2>4. TypeOK'
    BY <1>4, GatesAssumption DEF Prod, Accounted, TypeOK
  <2>5. PermitsAccounted'
    <3>1. /\ deqSem \in Nat /\ prods \in Nat
          /\ enqSem + In(EnqLabels) + Length = MaxDepth
          /\ deqSem + In(DeqLabels) = Length + prods
      BY GatesAssumption DEF Accounted, PermitsAccounted, TypeOK
    <3> HIDE DEF EnqLabels, DeqLabels
    <3> QED
      BY <2>1, <2>2, <2>3, <3>1 DEF PermitsAccounted
  <2>6. CountAccounted'
    BY <2>1, <2>2, <2>3 DEF Accounted, CountAccounted
  <2> QED
    BY <2>4, <2>5, <2>6 DEF Accounted
<1> QED
  BY <1>1, <1>2, <1>3, <1>4 DEF Call

(* The steps that leave the calls, the semaphores, COUNT and the lists alone. *)
LEMMA OtherAccounted ==
  ASSUME Accounted, UNCHANGED <<queueVars, prods, pc, mode, item>>,
         flags' \subseteq Options, old' \subseteq Items
  PROVE  Accounted'
<1>1. TypeOK'
  BY DEF Accounted, TypeOK, queueVars
<1>2. \A labels : In(labels)' = In(labels)
  BY DEF In
<1>3. Length' = Length
  BY DEF Length, queueVars
<1> QED
  BY <1>1, <1>2, <1>3 DEF Accounted, PermitsAccounted, CountAccounted, queueVars

(* At first every place is in ENQ_SEM. *)
LEMMA InitAccounted == Init => Accounted
<1> SUFFICES ASSUME Init PROVE Accounted
  OBVIOUS
<1>1. TypeOK
  BY GatesAssumption DEF Init, TypeOK, Labels, HeldLabels
<1>2. In(EnqLabels) = 0 /\ In(DeqLabels) = 0 /\ In({"incCount"}) = 0
      /\ In({"taken", "cleanCount"}) = 0
  <2>1. \A labels : "idle" \notin labels => {p \in Procs : pc[p] \in labels} = {}
    BY DEF Init
  <2> QED
    BY <2>1, FS_EmptySet DEF In, EnqLabels, DeqLabels
<1>3. Length = 0
  BY DEF Init, Length
<1> QED
  BY <1>1, <1>2, <1>3, GatesAssumption DEF Init, Accounted, PermitsAccounted, CountAccounted

(* So every step of the system is accounted for. *)
LEMMA NextAccounted == Accounted /\ [Next]_vars => Accounted'
<1> SUFFICES ASSUME Accounted, [Next]_vars PROVE Accounted'
  OBVIOUS
<1>1. ASSUME NEW p \in Procs, Call(p) \/ Work(p) PROVE Accounted'
  BY <1>1, CallAccounted, AddAccounted, RemoveAccounted, CleanAccounted DEF Work
<1>2. ASSUME NEW option \in Options, NEW on \in BOOLEAN, SetOption(option, on) PROVE Accounted'
  <2>1. flags' \subseteq Options /\ UNCHANGED <<queueVars, prods, pc, mode, item, old>>
    BY <1>2 DEF SetOption, Accounted, TypeOK
  <2>2. old' \subseteq Items
    BY <2>1 DEF Accounted, TypeOK
  <2> QED
    BY <2>1, <2>2, OtherAccounted
<1>3. ASSUME NEW i \in Items, Expire(i) PROVE Accounted'
  <2>1. old' \subseteq Items /\ flags' \subseteq Options
        /\ UNCHANGED <<queueVars, prods, pc, mode, item>>
    BY <1>3 DEF Expire, Accounted, TypeOK
  <2> QED
    BY <2>1, OtherAccounted
<1>4. CASE UNCHANGED vars
  <2>1. old' \subseteq Items /\ flags' \subseteq Options
        /\ UNCHANGED <<queueVars, prods, pc, mode, item>>
    BY <1>4 DEF vars, Accounted, TypeOK
  <2> QED
    BY <2>1, OtherAccounted
<1> QED
  BY <1>1, <1>2, <1>3, <1>4 DEF Next

(***************************************************************************)
(* The semaphores and COUNT account for the queue, whatever is called and  *)
(* in whatever order the steps of the calls are taken.                     *)
(***************************************************************************)
THEOREM Accounting == Spec => [](TypeOK /\ PermitsAccounted /\ CountAccounted)
<1>1. Spec => []Accounted
  BY InitAccounted, NextAccounted, PTL DEF Spec
<1>2. Accounted => TypeOK /\ PermitsAccounted /\ CountAccounted
  BY DEF Accounted
<1> QED
  BY <1>1, <1>2, PTL

(***************************************************************************)
(* Every label, counter and item of the calls over the gates has its type: *)
(* no semaphore goes below 0 on any path of a call.                        *)
(***************************************************************************)
THEOREM TypesHold == Spec => []TypeOK
BY Accounting, PTL

(***************************************************************************)
(* COUNT, which shr_q_count returns, is off by no more than the calls that *)
(* are between the change of a list and the change of COUNT.               *)
(***************************************************************************)
THEOREM CountHolds == Spec => []CountAccounted
BY Accounting, PTL

(***************************************************************************)
(* The items are distinct.  A call that has an item for itself, because it *)
(* has not pushed it yet or has taken it off, has one that nobody else has *)
(* and that is not queued; a list gets only such an item.                  *)
(***************************************************************************)
Owning == {"pushFifo", "pushLifo"} \cup HeldLabels

Owns(p) == pc[p] \in Owning

ListsApart == IsInjective(fifo) /\ IsInjective(stack) /\ Range(fifo) \cap Range(stack) = {}

OwnedApart ==
    \A p \in Procs : Owns(p) =>
        /\ item[p] \notin Queued
        /\ \A q \in Procs : p # q /\ Owns(q) => item[p] # item[q]

Apart == ListsApart /\ OwnedApart

(* Every other call keeps its label and its item. *)
OthersStay(p) == \A q \in Procs : q # p => pc'[q] = pc[q] /\ item'[q] = item[q]

(* An item put at the end of a list without repetitions, *)
LEMMA AppendApart ==
  ASSUME NEW s \in Seq(Items), NEW x \in Items, IsInjective(s), x \notin Range(s)
  PROVE  IsInjective(Append(s, x)) /\ Range(Append(s, x)) = Range(s) \cup {x}
<1> DEFINE t == Append(s, x)
<1>1. /\ Len(s) \in Nat /\ DOMAIN s = 1..Len(s) /\ DOMAIN t = 1..(Len(s) + 1)
      /\ \A i \in 1..Len(s) : t[i] = s[i]
      /\ t[Len(s) + 1] = x
  BY AppendProperties, LenProperties
<1>2. \A i \in 1..(Len(s) + 1) : i \in 1..Len(s) \/ i = Len(s) + 1
  BY <1>1
<1>3. 1..Len(s) \subseteq 1..(Len(s) + 1) /\ Len(s) + 1 \in 1..(Len(s) + 1)
  BY <1>1
<1> HIDE DEF t
<1>4. Range(t) = Range(s) \cup {x}
  <2>1. Range(t) \subseteq Range(s) \cup {x}
    BY <1>1, <1>2 DEF Range
  <2>2. Range(s) \cup {x} \subseteq Range(t)
    BY <1>1, <1>3 DEF Range
  <2> QED
    BY <2>1, <2>2
<1>5. \A i \in 1..Len(s) : t[i] \in Range(s)
  BY <1>1 DEF Range
<1>6. IsInjective(t)
  <2>1. SUFFICES ASSUME NEW i \in 1..(Len(s) + 1), NEW j \in 1..(Len(s) + 1), t[i] = t[j]
                 PROVE  i = j
    BY <1>1 DEF IsInjective
  <2>2. CASE i \in 1..Len(s) /\ j \in 1..Len(s)
    BY <1>1, <2>1, <2>2 DEF IsInjective
  <2>3. CASE ~(i \in 1..Len(s) /\ j \in 1..Len(s))
    BY <1>1, <1>2, <1>5, <2>1, <2>3
  <2> QED
    BY <2>2, <2>3
<1> QED
  BY <1>4, <1>6 DEF t

(* or on top of it, is its only new one, *)
LEMMA PushApart ==
  ASSUME NEW s \in Seq(Items), NEW x \in Items, IsInjective(s), x \notin Range(s)
  PROVE  IsInjective(<<x>> \o s) /\ Range(<<x>> \o s) = Range(s) \cup {x}
<1> DEFINE t == <<x>> \o s
<1>1. /\ Len(s) \in Nat /\ DOMAIN s = 1..Len(s) /\ DOMAIN t = 1..(Len(s) + 1)
      /\ \A i \in 2..(Len(s) + 1) : t[i] = s[i - 1]
      /\ t[1] = x
  BY LenProperties
<1>2. /\ \A i \in 1..(Len(s) + 1) : i = 1 \/ (i \in 2..(Len(s) + 1) /\ i - 1 \in 1..Len(s))
      /\ \A i \in 1..Len(s) : i + 1 \in 2..(Len(s) + 1) /\ (i + 1) - 1 = i
      /\ 1 \in 1..(Len(s) + 1)
      /\ 2..(Len(s) + 1) \subseteq 1..(Len(s) + 1)
  BY <1>1
<1> HIDE DEF t
<1>3. \A i \in 2..(Len(s) + 1) : t[i] \in Range(s)
  BY <1>1, <1>2 DEF Range
<1>4. Range(t) = Range(s) \cup {x}
  <2>1. Range(t) \subseteq Range(s) \cup {x}
    BY <1>1, <1>2, <1>3 DEF Range
  <2>2. ASSUME NEW i \in 1..Len(s)  PROVE s[i] \in Range(t)
    <3>1. t[i + 1] = s[i] /\ i + 1 \in DOMAIN t
      BY <1>1, <1>2
    <3> QED
      BY <3>1 DEF Range
  <2>3. x \in Range(t)
    BY <1>1, <1>2 DEF Range
  <2> QED
    BY <1>1, <2>1, <2>2, <2>3 DEF Range
<1>5. IsInjective(t)
  <2>1. SUFFICES ASSUME NEW i \in 1..(Len(s) + 1), NEW j \in 1..(Len(s) + 1), t[i] = t[j]
                 PROVE  i = j
    BY <1>1 DEF IsInjective
  <2>2. CASE i = 1 \/ j = 1
    BY <1>1, <1>2, <1>3, <2>1, <2>2
  <2>3. CASE ~(i = 1 \/ j = 1)
    <3>1. s[i - 1] = s[j - 1] /\ i - 1 \in 1..Len(s) /\ j - 1 \in 1..Len(s)
      BY <1>1, <1>2, <2>1, <2>3
    <3>2. i - 1 = j - 1
      BY <1>1, <3>1 DEF IsInjective
    <3> QED
      BY <3>2
  <2> QED
    BY <2>2, <2>3
<1> QED
  BY <1>4, <1>5 DEF t

(* and one taken off the front is gone from it. *)
LEMMA TailApart ==
  ASSUME NEW s \in Seq(Items), s # <<>>, IsInjective(s)
  PROVE  /\ IsInjective(Tail(s)) /\ Range(Tail(s)) = Range(s) \ {Head(s)}
         /\ Head(s) \in Range(s) /\ Head(s) \in Items
<1> DEFINE t == Tail(s)
<1>1. /\ Len(s) \in Nat /\ Len(s) >= 1 /\ DOMAIN s = 1..Len(s) /\ DOMAIN t = 1..(Len(s) - 1)
      /\ \A i \in 1..(Len(s) - 1) : t[i] = s[i + 1]
      /\ Head(s) = s[1] /\ Head(s) \in Items
  BY HeadTailProperties, LenProperties, EmptySeq
<1>2. /\ \A i \in 1..(Len(s) - 1) : i + 1 \in 1..Len(s) /\ i + 1 # 1
      /\ \A i \in 1..Len(s) : i = 1 \/ (i - 1 \in 1..(Len(s) - 1) /\ (i - 1) + 1 = i)
      /\ 1 \in 1..Len(s)
  BY <1>1
<1> HIDE DEF t
<1>3. IsInjective(t)
  <2>1. SUFFICES ASSUME NEW i \in 1..(Len(s) - 1), NEW j \in 1..(Len(s) - 1), t[i] = t[j]
                 PROVE  i = j
    BY <1>1 DEF IsInjective
  <2>2. i + 1 = j + 1
    BY <1>1, <1>2, <2>1 DEF IsInjective
  <2> QED
    BY <2>2
<1>4. Range(t) \subseteq Range(s) \ {Head(s)}
  BY <1>1, <1>2 DEF Range, IsInjective
<1>5. ASSUME NEW i \in 1..Len(s), s[i] # Head(s)  PROVE s[i] \in Range(t)
  <2>1. i - 1 \in DOMAIN t /\ t[i - 1] = s[i]
    BY <1>1, <1>2, <1>5
  <2> QED
    BY <2>1 DEF Range
<1>6. Range(s) \ {Head(s)} \subseteq Range(t)
  BY <1>1, <1>5 DEF Range
<1>7. Head(s) \in Range(s)
  BY <1>1, <1>2 DEF Range
<1> QED
  BY <1>1, <1>3, <1>4, <1>6, <1>7 DEF t

(* A list without repetitions has as many items as places. *)
LEMMA Distinctly ==
  ASSUME NEW s \in Seq(Items), IsInjective(s)
  PROVE  IsFiniteSet(Range(s)) /\ Cardinality(Range(s)) = Len(s)
<1>1. Len(s) \in Nat /\ DOMAIN s = 1..Len(s) /\ s \in [1..Len(s) -> Range(s)]
  BY LenProperties DEF Range
<1>2. s \in Bijection(1..Len(s), Range(s))
  BY <1>1 DEF Bijection, Injection, Surjection, Range
<1>3. IsFiniteSet(1..Len(s)) /\ Cardinality(1..Len(s)) = Len(s)
  <2>1. /\ IsFiniteSet(1..Len(s))
        /\ Cardinality(1..Len(s)) = IF 1 > Len(s) THEN 0 ELSE Len(s) - 1 + 1
    BY <1>1, FS_Interval
  <2> QED
    BY <1>1, <2>1
<1>4. ExistsBijection(1..Len(s), Range(s))
  BY <1>2 DEF ExistsBijection
<1> QED
  BY <1>3, <1>4, FS_Bijection

(* A step that neither touches the lists nor gives a call an item for itself. *)
LEMMA ApartQuiet ==
  ASSUME Apart, UNCHANGED <<fifo, stack>>,
         \A q \in Procs : pc'[q] \in Owning => pc[q] \in Owning /\ item'[q] = item[q]
  PROVE  Apart'
<1>1. ListsApart' /\ Queued' = Queued
  BY DEF Apart, ListsApart, Queued
<1>2. OwnedApart'
  BY <1>1 DEF Apart, OwnedApart, Owns
<1> QED
  BY <1>1, <1>2 DEF Apart

(* A call gets an item that was nobody's and not queued. *)
LEMMA ApartFound ==
  ASSUME Apart, NEW p \in Procs, OthersStay(p), UNCHANGED <<fifo, stack>>,
         item'[p] \notin InUse, item \in [Procs -> Items \cup {NoItem}]
  PROVE  Apart'
<1>1. ListsApart' /\ Queued' = Queued
  BY DEF Apart, ListsApart, Queued
<1>2. \A q \in Procs : item[q] # item'[p]
  BY DEF InUse, Range
<1>3. item'[p] \notin Queued
  BY DEF InUse
<1>4. OwnedApart'
  BY <1>1, <1>2, <1>3 DEF Apart, OwnedApart, Owns, OthersStay
<1> QED
  BY <1>1, <1>4 DEF Apart

(* A call puts the item it has into a list. *)
LEMMA ApartPut ==
  ASSUME Apart, NEW p \in Procs, OthersStay(p), Owns(p), pc'[p] \notin Owning,
         ListsApart', Queued' = Queued \cup {item[p]}
  PROVE  Apart'
<1>1. \A q \in Procs : pc'[q] \in Owning =>
          q # p /\ pc[q] \in Owning /\ item'[q] = item[q] /\ item[q] # item[p]
  BY DEF Apart, OwnedApart, Owns, OthersStay
<1>2. OwnedApart'
  BY <1>1 DEF Apart, OwnedApart, Owns
<1> QED
  BY <1>2 DEF Apart

(* A call takes an item off a list. *)
LEMMA ApartTaken ==
  ASSUME Apart, NEW p \in Procs, OthersStay(p), item'[p] \in Queued,
         ListsApart', Queued' = Queued \ {item'[p]}
  PROVE  Apart'
<1>1. \A q \in Procs : q # p /\ pc'[q] \in Owning =>
          /\ pc[q] \in Owning /\ item'[q] = item[q] /\ item'[q] # item'[p]
          /\ item'[q] \notin Queued'
  BY DEF Apart, OwnedApart, Owns, OthersStay
<1>2. OwnedApart'
  <2>1. SUFFICES ASSUME NEW q \in Procs, pc'[q] \in Owning
                 PROVE  /\ item'[q] \notin Queued'
                        /\ \A r \in Procs : q # r /\ pc'[r] \in Owning => item'[q] # item'[r]
    BY DEF OwnedApart, Owns
  <2>2. item'[q] \notin Queued'
    BY <1>1, <2>1
  <2>3. ASSUME NEW r \in Procs, q # r, pc'[r] \in Owning  PROVE item'[q] # item'[r]
    <3>1. CASE q = p \/ r = p
      BY <1>1, <2>1, <2>3, <3>1
    <3>2. CASE q # p /\ r # p
      BY <1>1, <2>1, <2>3, <3>2 DEF Apart, OwnedApart, Owns
    <3> QED
      BY <3>1, <3>2
  <2> QED
    BY <2>2, <2>3
<1> QED
  BY <1>2 DEF Apart

(* What a call writes is its own. *)
LEMMA Writes ==
  ASSUME TypeOK, NEW p \in Procs
  PROVE  /\ \A l : Goto(p, l) => pc'[p] = l /\ \A q \in Procs : q # p => pc'[q] = pc[q]
         /\ \A i : Hold(p, i) => item'[p] = i /\ \A q \in Procs : q # p => item'[q] = item[q]
BY DEF TypeOK, Goto, Hold

(* An add finds an item of its own and puts it in one of the lists. *)
LEMMA AddApart ==
  ASSUME TypeOK, Apart, NEW p \in Procs, Add(p)
  PROVE  Apart'
<1> USE DEF HeldLabels
<1>1. CASE EnqGatePass(p) \/ EnqGateLimit(p) \/ EnqNoMem(p) \/ AddFail(p) \/ IncCount(p)
           \/ AddDone(p)
  <2>1. UNCHANGED <<fifo, stack>> /\ pc'[p] \notin Owning /\ OthersStay(p)
    BY <1>1, Writes DEF EnqGatePass, EnqGateLimit, EnqNoMem, AddFail, IncCount, AddDone, Return,
       Go, Owning, OthersStay, queueVars
  <2> QED
    BY <2>1, ApartQuiet DEF OthersStay
<1>2. CASE EnqItem(p)
  <2>1. PICK i \in Items \ InUse : Hold(p, i)
    BY <1>2 DEF EnqItem
  <2>2. UNCHANGED <<fifo, stack>> /\ item'[p] \notin InUse /\ OthersStay(p)
    BY <1>2, <2>1, Writes DEF EnqItem, Go, OthersStay, queueVars
  <2> QED
    BY <2>2, ApartFound DEF TypeOK
<1>3. CASE PushFifo(p)
  <2>1. /\ Owns(p) /\ pc'[p] \notin Owning /\ OthersStay(p)
        /\ fifo' = Append(fifo, item[p]) /\ stack' = stack
    BY <1>3, Writes DEF PushFifo, Go, Owns, Owning, OthersStay
  <2>2. item[p] \in Items /\ item[p] \notin Queued /\ fifo \in Seq(Items)
    BY <1>3, <2>1 DEF PushFifo, Go, TypeOK, Apart, OwnedApart
  <2>3. IsInjective(fifo') /\ Range(fifo') = Range(fifo) \cup {item[p]}
    BY <2>1, <2>2, AppendApart DEF Apart, ListsApart, Queued
  <2>4. ListsApart' /\ Queued' = Queued \cup {item[p]}
    BY <2>1, <2>2, <2>3 DEF Apart, ListsApart, Queued
  <2> QED
    BY <2>1, <2>4, ApartPut
<1>4. CASE PushLifo(p)
  <2>1. /\ Owns(p) /\ pc'[p] \notin Owning /\ OthersStay(p)
        /\ stack' = <<item[p]>> \o stack /\ fifo' = fifo
    BY <1>4, Writes DEF PushLifo, Go, Owns, Owning, OthersStay
  <2>2. item[p] \in Items /\ item[p] \notin Queued /\ stack \in Seq(Items)
    BY <1>4, <2>1 DEF PushLifo, Go, TypeOK, Apart, OwnedApart
  <2>3. IsInjective(stack') /\ Range(stack') = Range(stack) \cup {item[p]}
    BY <2>1, <2>2, PushApart DEF Apart, ListsApart, Queued
  <2>4. ListsApart' /\ Queued' = Queued \cup {item[p]}
    BY <2>1, <2>2, <2>3 DEF Apart, ListsApart, Queued
  <2> QED
    BY <2>1, <2>4, ApartPut
<1> QED
  BY <1>1, <1>2, <1>3, <1>4 DEF Add

(* The first item of either list is taken off by one call, which then owns it. *)
LEMMA FrontTaken ==
  ASSUME TypeOK, Apart, NEW p \in Procs, OthersStay(p),
         \/ fifo # <<>> /\ item'[p] = Head(fifo) /\ fifo' = Tail(fifo) /\ stack' = stack
         \/ stack # <<>> /\ item'[p] = Head(stack) /\ stack' = Tail(stack) /\ fifo' = fifo
  PROVE  Apart'
<1>1. fifo \in Seq(Items) /\ stack \in Seq(Items) /\ IsInjective(fifo) /\ IsInjective(stack)
      /\ Range(fifo) \cap Range(stack) = {}
  BY DEF TypeOK, Apart, ListsApart
<1>2. CASE fifo # <<>> /\ item'[p] = Head(fifo) /\ fifo' = Tail(fifo) /\ stack' = stack
  <2>1. /\ IsInjective(fifo') /\ Range(fifo') = Range(fifo) \ {item'[p]}
        /\ item'[p] \in Range(fifo)
    BY <1>1, <1>2, TailApart
  <2>2. ListsApart' /\ Queued' = Queued \ {item'[p]} /\ item'[p] \in Queued
    BY <1>1, <1>2, <2>1 DEF ListsApart, Queued
  <2> QED
    BY <2>2, ApartTaken
<1>3. CASE stack # <<>> /\ item'[p] = Head(stack) /\ stack' = Tail(stack) /\ fifo' = fifo
  <2>1. /\ IsInjective(stack') /\ Range(stack') = Range(stack) \ {item'[p]}
        /\ item'[p] \in Range(stack)
    BY <1>1, <1>3, TailApart
  <2>2. ListsApart' /\ Queued' = Queued \ {item'[p]} /\ item'[p] \in Queued
    BY <1>1, <1>3, <2>1 DEF ListsApart, Queued
  <2> QED
    BY <2>2, ApartTaken
<1> QED
  BY <1>2, <1>3

(* A remove takes the first item of one, or finds the list emptied and has none. *)
LEMMA RemoveApart ==
  ASSUME TypeOK, Apart, NEW p \in Procs, Remove(p)
  PROVE  Apart'
<1> USE DEF HeldLabels
<1>1. CASE DeqGatePass(p) \/ DeqGateEmpty(p) \/ Deq(p) \/ RemoveDone(p) \/ Dropped(p) \/ DeqBack(p)
  <2>1. UNCHANGED <<fifo, stack>> /\ pc'[p] \notin Owning /\ OthersStay(p)
    BY <1>1, Writes DEF DeqGatePass, DeqGateEmpty, Deq, RemoveDone, Dropped, DeqBack, Return,
       Go, Owning, OthersStay, queueVars
  <2> QED
    BY <2>1, ApartQuiet DEF OthersStay
<1>2. CASE FifoRemove(p)
  <2>1. CASE fifo = <<>>
    <3>1. UNCHANGED <<fifo, stack>> /\ pc'[p] \notin Owning /\ OthersStay(p)
      BY <1>2, <2>1, Writes DEF FifoRemove, Go, Owning, OthersStay
    <3> QED
      BY <3>1, ApartQuiet DEF OthersStay
  <2>2. CASE fifo # <<>>
    <3>1. item'[p] = Head(fifo) /\ fifo' = Tail(fifo) /\ stack' = stack /\ OthersStay(p)
      BY <1>2, <2>2, Writes DEF FifoRemove, Go, OthersStay
    <3> QED
      BY <2>2, <3>1, FrontTaken
  <2> QED
    BY <2>1, <2>2
<1>3. CASE LifoRemove(p)
  <2>1. CASE stack = <<>>
    <3>1. UNCHANGED <<fifo, stack>> /\ pc'[p] \notin Owning /\ OthersStay(p)
      BY <1>3, <2>1, Writes DEF LifoRemove, Go, Owning, OthersStay
    <3> QED
      BY <3>1, ApartQuiet DEF OthersStay
  <2>2. CASE stack # <<>>
    <3>1. item'[p] = Head(stack) /\ stack' = Tail(stack) /\ fifo' = fifo /\ OthersStay(p)
      BY <1>3, <2>2, Writes DEF LifoRemove, Go, OthersStay
    <3> QED
      BY <2>2, <3>1, FrontTaken
  <2> QED
    BY <2>1, <2>2
<1>4. CASE PostProcessDeq(p)
  <2>1. UNCHANGED <<fifo, stack, item>> /\ pc[p] \in Owning /\ OthersStay(p)
    BY <1>4, Writes DEF PostProcessDeq, Go, Owning, OthersStay
  <2> QED
    BY <2>1, ApartQuiet DEF OthersStay
<1> QED
  BY <1>1, <1>2, <1>3, <1>4 DEF Remove

(* What shr_q_clean has looked at is its own only once it is taken. *)
LEMMA CleanApart ==
  ASSUME TypeOK, Apart, NEW p \in Procs, Clean(p)
  PROVE  Apart'
<1> USE DEF HeldLabels
<1>1. CASE CleanGate(p) \/ CleanLook(p) \/ CleanPost(p) \/ CleanBack(p)
  <2>1. UNCHANGED <<fifo, stack>> /\ pc'[p] \notin Owning /\ OthersStay(p)
    BY <1>1, Writes DEF CleanGate, CleanLook, CleanPost, CleanBack, Return,
       Go, Owning, OthersStay, queueVars
  <2> QED
    BY <2>1, ApartQuiet DEF OthersStay
<1>2. CASE CleanTake(p)
  <2>1. CASE fifo # <<>> /\ Head(fifo) = item[p]
    <3>1. item'[p] = Head(fifo) /\ fifo' = Tail(fifo) /\ stack' = stack /\ OthersStay(p)
      BY <1>2, <2>1, Writes DEF CleanTake, Go, OthersStay
    <3> QED
      BY <2>1, <3>1, FrontTaken
  <2>2. CASE ~(fifo # <<>> /\ Head(fifo) = item[p])
    <3>1. UNCHANGED <<fifo, stack>> /\ pc'[p] \notin Owning /\ OthersStay(p)
      BY <1>2, <2>2, Writes DEF CleanTake, Go, Owning, OthersStay
    <3> QED
      BY <3>1, ApartQuiet DEF OthersStay
  <2> QED
    BY <2>1, <2>2
<1>3. CASE CleanCount(p)
  <2>1. UNCHANGED <<fifo, stack, item>> /\ pc[p] \in Owning /\ OthersStay(p)
    BY <1>3, Writes DEF CleanCount, Go, Owning, OthersStay
  <2> QED
    BY <2>1, ApartQuiet DEF OthersStay
<1> QED
  BY <1>1, <1>2, <1>3 DEF Clean

(* No other step gives a call an item. *)
LEMMA NextApart == TypeOK /\ Apart /\ [Next]_vars => Apart'
<1> SUFFICES ASSUME TypeOK, Apart, [Next]_vars PROVE Apart'
  OBVIOUS
<1>1. ASSUME NEW p \in Procs, Call(p)  PROVE Apart'
  <2>1. UNCHANGED <<fifo, stack, item>> /\ \A q \in Procs : pc'[q] \in Owning => pc'[q] = pc[q]
    BY <1>1, Writes DEF Call, CallAdd, CallRemove, CallClean, Prod, Go, Owning, HeldLabels,
       queueVars
  <2> QED
    BY <2>1, ApartQuiet
<1>2. ASSUME NEW p \in Procs, Work(p)  PROVE Apart'
  BY <1>2, AddApart, RemoveApart, CleanApart DEF Work
<1>3. CASE \/ \E option \in Options, on \in BOOLEAN : SetOption(option, on)
           \/ \E i \in Items : Expire(i)
           \/ UNCHANGED vars
  <2>1. UNCHANGED <<fifo, stack, pc, item>>
    BY <1>3 DEF SetOption, Expire, vars, queueVars
  <2> QED
    BY <2>1, ApartQuiet
<1> QED
  BY <1>1, <1>2, <1>3 DEF Next

(* At first there is none. *)
LEMMA InitApart == Init => Apart
<1> SUFFICES ASSUME Init PROVE Apart
  OBVIOUS
<1>1. DOMAIN fifo = {} /\ DOMAIN stack = {}
  BY DEF Init
<1>2. ListsApart
  BY <1>1 DEF ListsApart, IsInjective, Range
<1>3. OwnedApart
  BY DEF Init, OwnedApart, Owns, Owning, HeldLabels
<1> QED
  BY <1>2, <1>3 DEF Apart

(* Lists without repetitions that share nothing have as many items as places. *)
LEMMA ApartDistinct == TypeOK /\ Apart => ItemsDistinct
<1> SUFFICES ASSUME TypeOK, Apart PROVE ItemsDistinct
  OBVIOUS
<1>1. /\ IsFiniteSet(Range(fifo)) /\ Cardinality(Range(fifo)) = Len(fifo)
      /\ IsFiniteSet(Range(stack)) /\ Cardinality(Range(stack)) = Len(stack)
      /\ Len(fifo) \in Nat /\ Len(stack) \in Nat
  BY Distinctly, LenProperties DEF TypeOK, Apart, ListsApart
<1>2. Cardinality(Queued) = Length
  <2>1. Cardinality(Range(fifo) \cap Range(stack)) = 0
    BY FS_EmptySet DEF Apart, ListsApart
  <2>2. Cardinality(Range(fifo) \cup Range(stack)) = Len(fifo) + Len(stack) - 0
    BY <1>1, <2>1, FS_Union
  <2> QED
    BY <1>1, <2>2 DEF Queued, Length
<1>3. \A p \in Procs : pc[p] \in HeldLabels => Owns(p)
  BY DEF Owns, Owning
<1> QED
  BY <1>2, <1>3 DEF ItemsDistinct, Apart, OwnedApart

(***************************************************************************)
(* No item is queued twice, none is in both lists, and what one call has   *)
(* taken is neither queued nor taken by another: remove, discard and clean *)
(* compete for the first item without a lock and one of them gets it.      *)
(***************************************************************************)
THEOREM DistinctHolds == Spec => []ItemsDistinct
<1>1. Accounted => TypeOK
  BY DEF Accounted
<1>2. Init => Accounted /\ Apart
  BY InitAccounted, InitApart
<1>3. Accounted /\ Apart /\ [Next]_vars => (Accounted /\ Apart)'
  BY <1>1, NextAccounted, NextApart
<1>4. Accounted /\ Apart => ItemsDistinct
  BY <1>1, ApartDistinct
<1> QED
  BY <1>2, <1>3, <1>4, PTL DEF Spec

-----------------------------------------------------------------------------
(* Every step of a call puts an item, gets one, returns one or changes     *)
(* nothing of what the callers see.  Without adaptive LIFO the queue is    *)
(* first in, first out.                                                    *)

\* adaptive LIFO is never on: nobody goes near the stack
NoLifo ==
    /\ "lifo" \notin flags
    /\ stack = <<>>
    /\ \A p \in Procs : pc[p] \notin {"pushLifo", "lifo", "abort"}

\* At first nothing is on the stack, and LIFO is on only if it may be;
LEMMA NoLifoInit == Init => NoLifo
  BY DEF Init, NoLifo

\* nobody switches it on, so no call takes the way to the stack.
LEMMA NoLifoNext ==
  ASSUME "lifo" \notin Options, Accounted, NoLifo, [Next]_vars
  PROVE  NoLifo'
<1>1. ASSUME NEW p \in Procs, Call(p) PROVE NoLifo'
  BY <1>1 DEF Call, CallAdd, CallRemove, CallClean, Prod, Go, Goto, queueVars,
              NoLifo, Accounted, TypeOK
<1>2. ASSUME NEW p \in Procs, Add(p) PROVE NoLifo'
  BY <1>2 DEF Add, EnqGatePass, EnqGateLimit, EnqItem, EnqNoMem, AddFail, PushFifo, PushLifo,
              IncCount, AddDone, EnqToLifo, Return, Go, Goto, queueVars,
              NoLifo, Accounted, TypeOK
<1>3. ASSUME NEW p \in Procs, Remove(p) PROVE NoLifo'
  BY <1>3 DEF Remove, DeqGatePass, DeqGateEmpty, Deq, FifoRemove, LifoRemove, PostProcessDeq,
              RemoveDone, Dropped, DeqBack, Return, Go, Goto, queueVars,
              NoLifo, Accounted, TypeOK
<1>4. ASSUME NEW p \in Procs, Clean(p) PROVE NoLifo'
  BY <1>4 DEF Clean, CleanGate, CleanLook, CleanTake, CleanCount, CleanPost, CleanBack,
              Return, Go, Goto, queueVars, NoLifo, Accounted, TypeOK
<1>5. ASSUME NEW option \in Options, NEW on \in BOOLEAN, SetOption(option, on) PROVE NoLifo'
  BY <1>5 DEF SetOption, queueVars, NoLifo
<1>6. ASSUME NEW i \in Items, Expire(i) PROVE NoLifo'
  BY <1>6 DEF Expire, queueVars, NoLifo
<1>7. CASE UNCHANGED vars
  BY <1>7 DEF vars, queueVars, NoLifo
<1> QED
  BY <1>1, <1>2, <1>3, <1>4, <1>5, <1>6, <1>7 DEF Next, Work

-----------------------------------------------------------------------------
(* What a step of p does to the abstract state. *)

\* p neither takes an item from the list nor gives one to its caller
LEMMA Stutters ==
  ASSUME Accounted, NEW p \in Procs, NEW to \in Labels, Goto(p, to), fifo' = fifo, stack' = stack,
         \A q \in Procs : q # p => item'[q] = item[q],
         pc[p] \in HeldLabels <=> to \in HeldLabels,
         pc[p] \in HeldLabels => item'[p] = item[p]
  PROVE  UNCHANGED <<fifo, stack, Given>>
<1>1. \A q \in Procs : pc'[q] = IF q = p THEN to ELSE pc[q]
  BY DEF Goto, Accounted, TypeOK
<1>2. \A q \in Procs : Given'[q] = Given[q]
  <2> TAKE q \in Procs
  <2>1. CASE q = p
    BY <1>1, <2>1 DEF Given
  <2>2. CASE q # p
    BY <1>1, <2>2 DEF Given
  <2> QED
    BY <2>1, <2>2
<1>3. Given' = Given
  BY <1>2 DEF Given
<1> QED
  BY <1>3

\* the place that a call with an item holds is one the queue does not use
LEMMA RoomToPush ==
  ASSUME Accounted, NEW p \in Procs, pc[p] \in {"pushFifo", "pushLifo"}
  PROVE  Abs!HasPlace
<1>1. In(EnqLabels) >= 1 /\ In(EnqLabels) \in Nat
  <2> DEFINE placed == {q \in Procs : pc[q] \in EnqLabels}
  <2>1. IsFiniteSet(placed)
    BY GatesAssumption, FS_Subset
  <2>2. p \in placed
    BY DEF EnqLabels
  <2>3. placed # {} /\ Cardinality(placed) \in Nat /\ Cardinality(placed) # 0
    BY <2>1, <2>2, FS_EmptySet, FS_CardinalityType
  <2> QED
    BY <2>3 DEF In
<1>2. enqSem + In(EnqLabels) + Length = MaxDepth /\ enqSem \in Nat
  BY DEF Accounted, PermitsAccounted, TypeOK
<1>3. Len(fifo) \in Nat /\ Len(stack) \in Nat
  BY LenProperties DEF Accounted, TypeOK
<1> QED
  BY <1>1, <1>2, <1>3, GatesAssumption DEF Abs!HasPlace, Length

\* An add to the list is a Put: there is room, and nobody has taken the item,
LEMMA Puts ==
  ASSUME Accounted, NEW p \in Procs, PushFifo(p)
  PROVE  Abs!Put
<1> USE DEF Accounted
<1>1. /\ pc[p] = "pushFifo" /\ item[p] \in Items /\ fifo \in Seq(Items)
      /\ fifo' = Append(fifo, item[p]) /\ stack' = stack
  BY DEF PushFifo, Go, TypeOK
<1>2. /\ Len(fifo) \in Nat /\ Len(fifo') = Len(fifo) + 1 /\ fifo' \in Seq(Items)
      /\ fifo'[Len(fifo) + 1] = item[p]
      /\ \A i \in 1..Len(fifo) : fifo'[i] = fifo[i]
  BY <1>1, AppendProperties, LenProperties
<1>3. Abs!HasPlace
  BY <1>1, RoomToPush
<1>4. SubSeq(fifo', 1, Len(fifo)) = fifo
  <2> DEFINE front == SubSeq(fifo', 1, Len(fifo))
  <2>1. \A i \in 1..Len(fifo) : fifo'[i] \in Items
    BY <1>1, <1>2, ElementOfSeq
  <2>2. /\ front \in Seq(Items)
        /\ Len(front) = IF 1 <= Len(fifo) THEN Len(fifo) - 1 + 1 ELSE 0
        /\ \A i \in 1..(Len(fifo) - 1 + 1) : front[i] = fifo'[1 + i - 1]
    BY <1>2, <2>1, SubSeqProperties
  <2>3. Len(front) = Len(fifo)
    BY <1>2, <2>2
  <2>4. \A i \in 1..Len(front) : front[i] = fifo[i]
    BY <1>2, <2>2, <2>3
  <2> HIDE DEF front
  <2> QED
    BY <1>1, <2>2, <2>3, <2>4, SeqEqual
<1>5. UNCHANGED Given
  <2>1. \A q \in Procs : pc'[q] = IF q = p THEN "incCount" ELSE pc[q]
    BY DEF PushFifo, Go, Goto, TypeOK
  <2>2. \A q \in Procs : Given'[q] = Given[q]
    BY <1>1, <2>1 DEF Given, HeldLabels, PushFifo
  <2> QED
    BY <2>2 DEF Given
<1> QED
  BY <1>1, <1>2, <1>3, <1>4, <1>5 DEF Abs!Put

\* and one to the stack a PutTop.
LEMMA PutsTop ==
  ASSUME Accounted, NEW p \in Procs, PushLifo(p)
  PROVE  Abs!PutTop
<1>1. /\ pc[p] = "pushLifo" /\ item[p] \in Items /\ stack \in Seq(Items)
      /\ stack' = <<item[p]>> \o stack /\ fifo' = fifo
  BY DEF PushLifo, Go, Accounted, TypeOK
<1>2. stack' # <<>> /\ Head(stack') = item[p] /\ Tail(stack') = stack
  BY <1>1
<1>3. UNCHANGED Given
  <2>1. \A q \in Procs : pc'[q] = IF q = p THEN "incCount" ELSE pc[q]
    BY DEF PushLifo, Go, Goto, Accounted, TypeOK
  <2>2. \A q \in Procs : Given'[q] = Given[q]
    BY <1>1, <2>1 DEF Given, HeldLabels, PushLifo
  <2> QED
    BY <2>2 DEF Given
<1>4. Abs!HasPlace
  BY <1>1, RoomToPush
<1> QED
  BY <1>1, <1>2, <1>3, <1>4 DEF Abs!PutTop

\* p holds an item of its own before or after the step, as the step says
LEMMA GivenMoves ==
  ASSUME Accounted, NEW p \in Procs, NEW to \in Labels, Goto(p, to),
         \A q \in Procs : q # p => item'[q] = item[q]
  PROVE  Given' = [Given EXCEPT ![p] = IF to \in HeldLabels THEN item'[p] ELSE NoItem]
<1>1. \A q \in Procs : pc'[q] = IF q = p THEN to ELSE pc[q]
  BY DEF Goto, Accounted, TypeOK
<1> DEFINE mine == IF to \in HeldLabels THEN item'[p] ELSE NoItem
<1>2. \A q \in Procs : Given'[q] = IF q = p THEN mine ELSE Given[q]
  <2> TAKE q \in Procs
  <2>1. CASE q = p
    BY <1>1, <2>1 DEF Given
  <2>2. CASE q # p
    BY <1>1, <2>2 DEF Given
  <2> QED
    BY <2>1, <2>2
<1>3. Given' = [q \in Procs |-> IF q = p THEN mine ELSE Given[q]]
  BY <1>2 DEF Given
<1>4. [Given EXCEPT ![p] = mine] = [q \in Procs |-> IF q = p THEN mine ELSE Given[q]]
  BY DEF Given
<1> QED
  BY <1>3, <1>4

(* shr_q_add puts its item when it pushes it. *)
LEMMA AddRefines ==
  ASSUME Accounted, NEW p \in Procs, Add(p)
  PROVE  [Abs!AbsNext]_(Abs!absVars)
<1>1. CASE PushFifo(p)
  BY <1>1, Puts DEF Abs!AbsNext
<1>2. CASE PushLifo(p)
  BY <1>2, PutsTop DEF Abs!AbsNext
<1>3. CASE ~PushFifo(p) /\ ~PushLifo(p)
  <2> SUFFICES UNCHANGED <<fifo, stack, Given>>
    BY DEF Abs!absVars
  <2> USE DEF Labels, AddLabels, RemoveLabels, CleanLabels, HeldLabels
  <2>1. CASE EnqGatePass(p)
    <3> DEFINE to == "enqItem"
    <3>1. /\ Goto(p, to) /\ to \in Labels /\ pc[p] = "enqGate" /\ fifo' = fifo /\ stack' = stack
          /\ \A q \in Procs : q # p => item'[q] = item[q]
          /\ pc[p] \in HeldLabels => item'[p] = item[p]
      BY <2>1 DEF EnqGatePass, Go, Accounted, TypeOK
    <3>2. pc[p] \in HeldLabels <=> to \in HeldLabels
      BY <3>1
    <3> HIDE DEF to
    <3> QED
      BY <3>1, <3>2, Stutters
  <2>2. CASE EnqGateLimit(p)
    <3> DEFINE to == "idle"
    <3>1. /\ Goto(p, to) /\ to \in Labels /\ pc[p] = "enqGate" /\ fifo' = fifo /\ stack' = stack
          /\ \A q \in Procs : q # p => item'[q] = item[q]
          /\ pc[p] \in HeldLabels => item'[p] = item[p]
      BY <2>2 DEF EnqGateLimit, Return, Hold, queueVars, Accounted, TypeOK
    <3>2. pc[p] \in HeldLabels <=> to \in HeldLabels
      BY <3>1
    <3> HIDE DEF to
    <3> QED
      BY <3>1, <3>2, Stutters
  <2>3. CASE EnqItem(p)
    <3> DEFINE to == IF EnqToLifo THEN "pushLifo" ELSE "pushFifo"
    <3>1. /\ Goto(p, to) /\ to \in Labels /\ pc[p] = "enqItem" /\ fifo' = fifo /\ stack' = stack
          /\ \A q \in Procs : q # p => item'[q] = item[q]
          /\ pc[p] \in HeldLabels => item'[p] = item[p]
      BY <2>3 DEF EnqItem, Go, Hold, queueVars, Accounted, TypeOK
    <3>2. pc[p] \in HeldLabels <=> to \in HeldLabels
      BY <3>1
    <3> HIDE DEF to
    <3> QED
      BY <3>1, <3>2, Stutters
  <2>4. CASE EnqNoMem(p)
    <3> DEFINE to == "addFail"
    <3>1. /\ Goto(p, to) /\ to \in Labels /\ pc[p] = "enqItem" /\ fifo' = fifo /\ stack' = stack
          /\ \A q \in Procs : q # p => item'[q] = item[q]
          /\ pc[p] \in HeldLabels => item'[p] = item[p]
      BY <2>4 DEF EnqNoMem, Go, queueVars, Accounted, TypeOK
    <3>2. pc[p] \in HeldLabels <=> to \in HeldLabels
      BY <3>1
    <3> HIDE DEF to
    <3> QED
      BY <3>1, <3>2, Stutters
  <2>5. CASE AddFail(p)
    <3> DEFINE to == "idle"
    <3>1. /\ Goto(p, to) /\ to \in Labels /\ pc[p] = "addFail" /\ fifo' = fifo /\ stack' = stack
          /\ \A q \in Procs : q # p => item'[q] = item[q]
          /\ pc[p] \in HeldLabels => item'[p] = item[p]
      BY <2>5 DEF AddFail, Return, Hold, Accounted, TypeOK
    <3>2. pc[p] \in HeldLabels <=> to \in HeldLabels
      BY <3>1
    <3> HIDE DEF to
    <3> QED
      BY <3>1, <3>2, Stutters
  <2>6. CASE IncCount(p)
    <3> DEFINE to == "addDone"
    <3>1. /\ Goto(p, to) /\ to \in Labels /\ pc[p] = "incCount" /\ fifo' = fifo /\ stack' = stack
          /\ \A q \in Procs : q # p => item'[q] = item[q]
          /\ pc[p] \in HeldLabels => item'[p] = item[p]
      BY <2>6 DEF IncCount, Go, Hold, Accounted, TypeOK
    <3>2. pc[p] \in HeldLabels <=> to \in HeldLabels
      BY <3>1
    <3> HIDE DEF to
    <3> QED
      BY <3>1, <3>2, Stutters
  <2>7. CASE AddDone(p)
    <3> DEFINE to == "idle"
    <3>1. /\ Goto(p, to) /\ to \in Labels /\ pc[p] = "addDone" /\ fifo' = fifo /\ stack' = stack
          /\ \A q \in Procs : q # p => item'[q] = item[q]
          /\ pc[p] \in HeldLabels => item'[p] = item[p]
      BY <2>7 DEF AddDone, Return, Hold, Accounted, TypeOK
    <3>2. pc[p] \in HeldLabels <=> to \in HeldLabels
      BY <3>1
    <3> HIDE DEF to
    <3> QED
      BY <3>1, <3>2, Stutters
  <2> QED
    BY <1>3, <2>1, <2>2, <2>3, <2>4, <2>5, <2>6, <2>7 DEF Add
<1> QED
  BY <1>1, <1>2, <1>3

(* The two ways an item leaves the lists: the first one of either, by a call that *)
(* holds none.                                                                    *)
LEMMA Gets ==
  ASSUME Accounted, NEW p \in Procs, NEW to \in HeldLabels, Goto(p, to),
         pc[p] \notin HeldLabels, fifo # <<>>, fifo' = Tail(fifo), item'[p] = Head(fifo),
         stack' = stack, \A q \in Procs : q # p => item'[q] = item[q]
  PROVE  Abs!Get(p)
<1>1. Given' = [Given EXCEPT ![p] = Head(fifo)]
  BY GivenMoves DEF Labels, AddLabels, RemoveLabels, CleanLabels, HeldLabels
<1>2. Given[p] = NoItem
  BY DEF Given
<1> QED
  BY <1>1, <1>2 DEF Abs!Get, Abs!Give

\* The same of the first item of the stack.
LEMMA GetsTop ==
  ASSUME Accounted, NEW p \in Procs, NEW to \in HeldLabels, Goto(p, to),
         pc[p] \notin HeldLabels, stack # <<>>, stack' = Tail(stack), item'[p] = Head(stack),
         fifo' = fifo, \A q \in Procs : q # p => item'[q] = item[q]
  PROVE  Abs!GetTop(p)
<1>1. Given' = [Given EXCEPT ![p] = Head(stack)]
  BY GivenMoves DEF Labels, AddLabels, RemoveLabels, CleanLabels, HeldLabels
<1>2. Given[p] = NoItem
  BY DEF Given
<1> QED
  BY <1>1, <1>2 DEF Abs!GetTop, Abs!Give

(* A call gives the item it holds to its caller, or throws it away. *)
LEMMA Returns ==
  ASSUME Accounted, NEW p \in Procs, NEW to \in Labels \ HeldLabels, Goto(p, to),
         pc[p] \in HeldLabels, fifo' = fifo, stack' = stack,
         \A q \in Procs : q # p => item'[q] = item[q]
  PROVE  Abs!Return(p)
<1>1. Given' = [Given EXCEPT ![p] = NoItem]
  BY GivenMoves
<1>2. Given[p] = item[p] /\ item[p] # NoItem
  BY GatesAssumption DEF Given, Accounted, TypeOK
<1> QED
  BY <1>1, <1>2 DEF Abs!Return

(* shr_q_remove gets its item when it moves the head of the list, and returns *)
(* or discards it when it posts the place.                                    *)
LEMMA RemoveRefines ==
  ASSUME Accounted, NEW p \in Procs, Remove(p)
  PROVE  [Abs!AbsNext]_(Abs!absVars)
<1> USE DEF Labels, AddLabels, RemoveLabels, CleanLabels, HeldLabels
<1>1. CASE FifoRemove(p) /\ fifo # <<>>
  <2>1. Abs!Get(p)
    BY <1>1, Gets DEF FifoRemove, Go, Hold, Accounted, TypeOK
  <2> QED
    BY <2>1 DEF Abs!AbsNext
<1>2. CASE RemoveDone(p) \/ Dropped(p)
  <2>1. Abs!Return(p)
    BY <1>2, Returns DEF RemoveDone, Dropped, Return, Go, Hold, Accounted, TypeOK
  <2> QED
    BY <2>1 DEF Abs!AbsNext
<1>3. CASE LifoRemove(p) /\ stack # <<>>
  <2>1. Abs!GetTop(p)
    BY <1>3, GetsTop DEF LifoRemove, Go, Hold, Accounted, TypeOK
  <2> QED
    BY <2>1 DEF Abs!AbsNext
<1>4. CASE /\ ~(FifoRemove(p) /\ fifo # <<>>) /\ ~RemoveDone(p) /\ ~Dropped(p)
           /\ ~(LifoRemove(p) /\ stack # <<>>)
  <2> SUFFICES UNCHANGED <<fifo, stack, Given>>
    BY DEF Abs!absVars
  <2>1. CASE DeqGatePass(p)
    <3> DEFINE to == "deq"
    <3>1. /\ Goto(p, to) /\ to \in Labels /\ pc[p] = "deqGate" /\ fifo' = fifo /\ stack' = stack
          /\ \A q \in Procs : q # p => item'[q] = item[q]
          /\ pc[p] \in HeldLabels => item'[p] = item[p]
      BY <2>1 DEF DeqGatePass, Go, Accounted, TypeOK
    <3>2. pc[p] \in HeldLabels <=> to \in HeldLabels
      BY <3>1
    <3> HIDE DEF to
    <3> QED
      BY <3>1, <3>2, Stutters
  <2>2. CASE DeqGateEmpty(p)
    <3> DEFINE to == "idle"
    <3>1. /\ Goto(p, to) /\ to \in Labels /\ pc[p] = "deqGate" /\ fifo' = fifo /\ stack' = stack
          /\ \A q \in Procs : q # p => item'[q] = item[q]
          /\ pc[p] \in HeldLabels => item'[p] = item[p]
      BY <2>2 DEF DeqGateEmpty, Return, Hold, queueVars, Accounted, TypeOK
    <3>2. pc[p] \in HeldLabels <=> to \in HeldLabels
      BY <3>1
    <3> HIDE DEF to
    <3> QED
      BY <3>1, <3>2, Stutters
  <2>3. CASE Deq(p)
    <3> DEFINE to == IF stack # <<>> THEN "lifo" ELSE IF fifo # <<>> THEN "fifo" ELSE "deqBack"
    <3>1. /\ Goto(p, to) /\ to \in Labels /\ pc[p] = "deq" /\ fifo' = fifo /\ stack' = stack
          /\ \A q \in Procs : q # p => item'[q] = item[q]
          /\ pc[p] \in HeldLabels => item'[p] = item[p]
      BY <2>3 DEF Deq, Go, queueVars, Accounted, TypeOK
    <3>2. pc[p] \in HeldLabels <=> to \in HeldLabels
      BY <3>1
    <3> HIDE DEF to
    <3> QED
      BY <3>1, <3>2, Stutters
  <2>4. CASE FifoRemove(p)
    <3> DEFINE to == "deq"
    <3>1. /\ Goto(p, to) /\ to \in Labels /\ pc[p] = "fifo" /\ fifo' = fifo /\ stack' = stack
          /\ \A q \in Procs : q # p => item'[q] = item[q]
          /\ pc[p] \in HeldLabels => item'[p] = item[p]
      BY <1>4, <2>4 DEF FifoRemove, Go, Accounted, TypeOK
    <3>2. pc[p] \in HeldLabels <=> to \in HeldLabels
      BY <3>1
    <3> HIDE DEF to
    <3> QED
      BY <3>1, <3>2, Stutters
  <2>5. CASE PostProcessDeq(p)
    <3> DEFINE to == IF Expired(p) THEN "dropped" ELSE "removeDone"
    <3>1. /\ Goto(p, to) /\ to \in Labels /\ pc[p] = "taken" /\ fifo' = fifo /\ stack' = stack
          /\ \A q \in Procs : q # p => item'[q] = item[q]
          /\ pc[p] \in HeldLabels => item'[p] = item[p]
      BY <2>5 DEF PostProcessDeq, Go, Accounted, TypeOK
    <3>2. pc[p] \in HeldLabels <=> to \in HeldLabels
      BY <3>1
    <3> HIDE DEF to
    <3> QED
      BY <3>1, <3>2, Stutters
  <2>6. CASE DeqBack(p)
    <3> DEFINE to == "idle"
    <3>1. /\ Goto(p, to) /\ to \in Labels /\ pc[p] = "deqBack" /\ fifo' = fifo /\ stack' = stack
          /\ \A q \in Procs : q # p => item'[q] = item[q]
          /\ pc[p] \in HeldLabels => item'[p] = item[p]
      BY <2>6 DEF DeqBack, Return, Hold, Accounted, TypeOK
    <3>2. pc[p] \in HeldLabels <=> to \in HeldLabels
      BY <3>1
    <3> HIDE DEF to
    <3> QED
      BY <3>1, <3>2, Stutters
  <2>7. CASE LifoRemove(p)
    <3> DEFINE to == "abort"
    <3>1. /\ Goto(p, to) /\ to \in Labels /\ pc[p] = "lifo" /\ fifo' = fifo /\ stack' = stack
          /\ \A q \in Procs : q # p => item'[q] = item[q]
          /\ pc[p] \in HeldLabels => item'[p] = item[p]
      BY <1>4, <2>7 DEF LifoRemove, Go, Accounted, TypeOK
    <3>2. pc[p] \in HeldLabels <=> to \in HeldLabels
      BY <3>1
    <3> HIDE DEF to
    <3> QED
      BY <3>1, <3>2, Stutters
  <2> QED
    BY <1>4, <2>1, <2>2, <2>3, <2>4, <2>5, <2>6, <2>7 DEF Remove
<1> QED
  BY <1>1, <1>2, <1>3, <1>4

(* shr_q_clean gets an item when its remove_front succeeds, and throws it away. *)
LEMMA CleanRefines ==
  ASSUME Accounted, NEW p \in Procs, Clean(p)
  PROVE  [Abs!AbsNext]_(Abs!absVars)
<1> USE DEF Labels, AddLabels, RemoveLabels, CleanLabels, HeldLabels
<1> DEFINE first == fifo # <<>> /\ Head(fifo) = item[p]
<1>1. CASE CleanTake(p) /\ first
  <2>1. Abs!Get(p)
    BY <1>1, Gets DEF CleanTake, Accounted, TypeOK
  <2> QED
    BY <2>1 DEF Abs!AbsNext
<1>2. CASE CleanPost(p)
  <2>1. Abs!Return(p)
    BY <1>2, Returns DEF CleanPost, Go, Hold, Accounted, TypeOK
  <2> QED
    BY <2>1 DEF Abs!AbsNext
<1>3. CASE ~(CleanTake(p) /\ first) /\ ~CleanPost(p)
  <2> SUFFICES UNCHANGED <<fifo, stack, Given>>
    BY DEF Abs!absVars
  <2>1. CASE CleanGate(p)
    <3> DEFINE to == IF deqSem > 0 THEN "cleanLook" ELSE "idle"
    <3>1. /\ Goto(p, to) /\ to \in Labels /\ pc[p] = "cleanGate" /\ fifo' = fifo /\ stack' = stack
          /\ \A q \in Procs : q # p => item'[q] = item[q]
          /\ pc[p] \in HeldLabels => item'[p] = item[p]
      BY <2>1 DEF CleanGate, Return, Hold, Accounted, TypeOK
    <3>2. pc[p] \in HeldLabels <=> to \in HeldLabels
      BY <3>1
    <3> HIDE DEF to
    <3> QED
      BY <3>1, <3>2, Stutters
  <2>2. CASE CleanLook(p)
    <3> DEFINE to == IF fifo # <<>> /\ Head(fifo) \in old THEN "cleanTake" ELSE "cleanBack"
    <3>1. /\ Goto(p, to) /\ to \in Labels /\ pc[p] = "cleanLook" /\ fifo' = fifo /\ stack' = stack
          /\ \A q \in Procs : q # p => item'[q] = item[q]
          /\ pc[p] \in HeldLabels => item'[p] = item[p]
      BY <2>2 DEF CleanLook, Hold, queueVars, Accounted, TypeOK
    <3>2. pc[p] \in HeldLabels <=> to \in HeldLabels
      BY <3>1
    <3> HIDE DEF to
    <3> QED
      BY <3>1, <3>2, Stutters
  <2>3. CASE CleanTake(p)
    <3> DEFINE to == "cleanBack"
    <3>1. /\ Goto(p, to) /\ to \in Labels /\ pc[p] = "cleanTake" /\ fifo' = fifo /\ stack' = stack
          /\ \A q \in Procs : q # p => item'[q] = item[q]
          /\ pc[p] \in HeldLabels => item'[p] = item[p]
      BY <1>3, <2>3 DEF CleanTake, Hold, Accounted, TypeOK
    <3>2. pc[p] \in HeldLabels <=> to \in HeldLabels
      BY <3>1
    <3> HIDE DEF to
    <3> QED
      BY <3>1, <3>2, Stutters
  <2>4. CASE CleanCount(p)
    <3> DEFINE to == "cleanPost"
    <3>1. /\ Goto(p, to) /\ to \in Labels /\ pc[p] = "cleanCount" /\ fifo' = fifo /\ stack' = stack
          /\ \A q \in Procs : q # p => item'[q] = item[q]
          /\ pc[p] \in HeldLabels => item'[p] = item[p]
      BY <2>4 DEF CleanCount, Go, Accounted, TypeOK
    <3>2. pc[p] \in HeldLabels <=> to \in HeldLabels
      BY <3>1
    <3> HIDE DEF to
    <3> QED
      BY <3>1, <3>2, Stutters
  <2>5. CASE CleanBack(p)
    <3> DEFINE to == "idle"
    <3>1. /\ Goto(p, to) /\ to \in Labels /\ pc[p] = "cleanBack" /\ fifo' = fifo /\ stack' = stack
          /\ \A q \in Procs : q # p => item'[q] = item[q]
          /\ pc[p] \in HeldLabels => item'[p] = item[p]
      BY <2>5 DEF CleanBack, Return, Hold, Accounted, TypeOK
    <3>2. pc[p] \in HeldLabels <=> to \in HeldLabels
      BY <3>1
    <3> HIDE DEF to
    <3> QED
      BY <3>1, <3>2, Stutters
  <2> QED
    BY <1>3, <2>1, <2>2, <2>3, <2>4, <2>5 DEF Clean
<1> QED
  BY <1>1, <1>2, <1>3

(* To begin a call, or to make one of a single step, changes nothing the callers see. *)
LEMMA CallRefines ==
  ASSUME Accounted, NEW p \in Procs, Call(p)
  PROVE  UNCHANGED <<fifo, stack, Given>>
<1> USE DEF Labels, AddLabels, RemoveLabels, CleanLabels, HeldLabels
<1>1. CASE CallAdd(p)
  <2> DEFINE to == "enqGate"
  <2>1. /\ Goto(p, to) /\ to \in Labels /\ pc[p] = "idle" /\ fifo' = fifo /\ stack' = stack
        /\ \A q \in Procs : q # p => item'[q] = item[q]
        /\ pc[p] \in HeldLabels => item'[p] = item[p]
    BY <1>1 DEF CallAdd, Go, Hold, queueVars, Accounted, TypeOK
  <2>2. pc[p] \in HeldLabels <=> to \in HeldLabels
    BY <2>1
  <2> HIDE DEF to
  <2> QED
    BY <2>1, <2>2, Stutters
<1>2. CASE CallRemove(p)
  <2> DEFINE to == "deqGate"
  <2>1. /\ Goto(p, to) /\ to \in Labels /\ pc[p] = "idle" /\ fifo' = fifo /\ stack' = stack
        /\ \A q \in Procs : q # p => item'[q] = item[q]
        /\ pc[p] \in HeldLabels => item'[p] = item[p]
    BY <1>2 DEF CallRemove, Go, queueVars, Accounted, TypeOK
  <2>2. pc[p] \in HeldLabels <=> to \in HeldLabels
    BY <2>1
  <2> HIDE DEF to
  <2> QED
    BY <2>1, <2>2, Stutters
<1>3. CASE CallClean(p)
  <2> DEFINE to == "cleanGate"
  <2>1. /\ Goto(p, to) /\ to \in Labels /\ pc[p] = "idle" /\ fifo' = fifo /\ stack' = stack
        /\ \A q \in Procs : q # p => item'[q] = item[q]
        /\ pc[p] \in HeldLabels => item'[p] = item[p]
    BY <1>3 DEF CallClean, Go, queueVars, Accounted, TypeOK
  <2>2. pc[p] \in HeldLabels <=> to \in HeldLabels
    BY <2>1
  <2> HIDE DEF to
  <2> QED
    BY <2>1, <2>2, Stutters
<1>4. CASE Prod(p)
  BY <1>4 DEF Prod, Given
<1> QED
  BY <1>1, <1>2, <1>3, <1>4 DEF Call

\* The queue begins empty, and no item is given.
LEMMA InitRefines == Init => Abs!AbsInit
  BY DEF Init, Abs!AbsInit, Given, HeldLabels

\* Every step is one of the abstract queue, or none.
LEMMA NextRefines ==
  ASSUME Accounted, [Next]_vars
  PROVE  [Abs!AbsNext]_(Abs!absVars)
<1>1. ASSUME NEW p \in Procs, Call(p) \/ Work(p) PROVE [Abs!AbsNext]_(Abs!absVars)
  BY <1>1, CallRefines, AddRefines, RemoveRefines, CleanRefines DEF Work, Abs!absVars
<1>2. ASSUME UNCHANGED <<queueVars, pc, item>> PROVE [Abs!AbsNext]_(Abs!absVars)
  BY <1>2 DEF queueVars, Given, Abs!absVars
<1> QED
  BY <1>1, <1>2 DEF Next, SetOption, Expire, vars

(***************************************************************************)
(* The queue of QueueGates is AbsQueue's, for any number of callers that   *)
(* add, remove, clean and prod in any order, with discarding and LIFO mode *)
(* switched on and off at any time.                                        *)
(***************************************************************************)
THEOREM QueueImplemented == Spec => AbsQueueSpec
<1>1. Accounted /\ [Next]_vars => [Abs!AbsNext]_(Abs!absVars)
  BY NextRefines
<1>2. Spec => []Accounted
  BY InitAccounted, NextAccounted, PTL DEF Spec
<1> QED
  BY <1>1, <1>2, InitRefines, PTL DEF Spec, AbsQueueSpec, Abs!AbsSpec

(***************************************************************************)
(* A queue that is never put into LIFO mode is first in, first out: its    *)
(* stack (lifo_remove, STACK_HEAD) is never used.                          *)
(***************************************************************************)
THEOREM FifoQueue == "lifo" \notin Options => (Spec => AbsQueueSpec /\ [](stack = <<>>))
<1> SUFFICES ASSUME "lifo" \notin Options PROVE Spec => AbsQueueSpec /\ [](stack = <<>>)
  OBVIOUS
<1>1. Init => Accounted /\ NoLifo
  BY InitAccounted, NoLifoInit
<1>2. Accounted /\ NoLifo /\ [Next]_vars => (Accounted /\ NoLifo)'
  BY NextAccounted, NoLifoNext
<1>3. Accounted /\ NoLifo => stack = <<>>
  BY DEF NoLifo
<1> QED
  BY <1>1, <1>2, <1>3, QueueImplemented, PTL DEF Spec
=============================================================================
