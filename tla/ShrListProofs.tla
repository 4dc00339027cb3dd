--------------------------- MODULE ShrListProofs ---------------------------
(***************************************************************************)
(* Proofs about ShrList: its steps keep every variable in its type and     *)
(* never follow a local variable that is not a node, and the permits of    *)
(* the two semaphores are conserved, for any number of processes, calls    *)
(* and nodes.                                                              *)
(***************************************************************************)
EXTENDS ShrList, FiniteSetTheorems, SequenceTheorems, TLAPS

ListInv == TypeOK /\ LocalsOK

\* The nodes that are there at first are the dummies of the two lists.
LEMMA InitInv == Init => ListInv
<1> SUFFICES ASSUME Init PROVE ListInv
  OBVIOUS
<1> USE SizesAssumption, ProgramsAssumption, ProcsAssumption
<1>1. NoLocals \in Locals
  BY DEF NoLocals, Locals, Lists, Word, Zero, W, Nodes, Null
<1>2. TypeOK
  BY <1>1 DEF Init, TypeOK, Word, W, Zero, Null, Nodes, Lists, Labels, Items
<1>3. LocalsOK
  BY DEF Init, LocalsOK, RefersToNodes, UsesRef, UsesSlot, UsesBefore, HoldLabels
<1> QED
  BY <1>2, <1>3 DEF ListInv

(* A call that returns leaves the others with a call to finish. *)
LEMMA FinishTypes ==
  ASSUME TypeOK, LocalsOK, NEW p \in Procs, pc[p] # "idle" \/ MayCall(p), Finish(p)
  PROVE  /\ todo' \in [Procs -> Seq(Calls)]
         /\ prologue' \in Seq(Calls)
         /\ dead' \subseteq Procs
         /\ given' \in [Procs -> Items \cup {NoItem}]
         /\ pc' \in [Procs -> Labels]
         /\ loc' \in [Procs -> Locals]
         /\ pc' = [pc EXCEPT ![p] = "idle"]
         /\ loc' = [loc EXCEPT ![p] = NoLocals]
         /\ \A q \in Procs : pc'[q] # "idle" => MayCall(q)'
<1>1. MayCall(p)
  BY DEF LocalsOK
<1>2. NoLocals \in Locals
  BY SizesAssumption DEF NoLocals, Locals, Lists, Word, Zero, W, Nodes, Null
<1>3. /\ dead' \subseteq Procs
      /\ given' \in [Procs -> Items \cup {NoItem}]
      /\ pc' \in [Procs -> Labels]
      /\ loc' \in [Procs -> Locals]
      /\ pc' = [pc EXCEPT ![p] = "idle"]
      /\ loc' = [loc EXCEPT ![p] = NoLocals]
  BY <1>2 DEF Finish, Goto, Set, TypeOK, Labels
<1>4. CASE prologue # <<>>
  <2>a. prologue \in Seq(Calls)
    BY DEF TypeOK
  <2>b. prologue' = Tail(prologue) /\ todo' = todo
    BY <1>4, Zenon DEF Finish
  <2>c. Tail(prologue) \in Seq(Calls)
    BY <2>a, <1>4, HeadTailProperties, Zenon
  <2>1. prologue' \in Seq(Calls) /\ todo' = todo
    BY <2>b, <2>c, Zenon
  <2>2. \A q \in Procs : pc'[q] = "idle"
    BY <1>1, <1>3, <1>4 DEF LocalsOK, MayCall, TypeOK
  <2> QED
    BY <1>3, <2>1, <2>2 DEF TypeOK
<1>5. CASE prologue = <<>>
  <2>1. todo[p] # <<>>
    BY <1>1, <1>5 DEF MayCall
  <2>2. /\ prologue' = prologue
        /\ todo' = [todo EXCEPT ![p] = Tail(@)]
    BY <1>5 DEF Finish
  <2>a. todo \in [Procs -> Seq(Calls)]
    BY DEF TypeOK
  <2>b. Tail(todo[p]) \in Seq(Calls)
    BY <2>a, <2>1, HeadTailProperties, Zenon
  <2>3. todo' \in [Procs -> Seq(Calls)]
    BY <2>2, <2>a, <2>b
  <2>4. \A q \in Procs : pc'[q] # "idle" => MayCall(q)'
    BY <1>3, <1>5, <2>2 DEF LocalsOK, MayCall, TypeOK
  <2> QED
    BY <1>3, <2>2, <2>3, <2>4 DEF TypeOK
<1> QED
  BY <1>4, <1>5

(* A step that only moves p on and sets its local variables. *)
LEMMA LocalStep ==
  ASSUME TypeOK, LocalsOK, NEW p \in Procs, NEW label \in Labels, NEW l \in Locals,
         RefersToNodes(label, l), MayCall(p),
         Goto(p, label), Set(p, l), UNCHANGED callVars
  PROVE  /\ pc' \in [Procs -> Labels]
         /\ loc' \in [Procs -> Locals]
         /\ LocalsOK'
<1>1. /\ pc' = [pc EXCEPT ![p] = label]
      /\ loc' = [loc EXCEPT ![p] = l]
  BY DEF Goto, Set
<1>2. pc \in [Procs -> Labels] /\ loc \in [Procs -> Locals]
  BY DEF TypeOK
<1>3. \A q \in Procs : RefersToNodes(pc'[q], loc'[q])
  BY <1>1, <1>2 DEF LocalsOK
<1>4. \A q \in Procs : MayCall(q)' <=> MayCall(q)
  BY DEF MayCall, callVars
<1>5. \A q \in Procs : pc'[q] # "idle" => MayCall(q)'
  BY <1>1, <1>2, <1>4 DEF LocalsOK
<1> QED
  BY <1>1, <1>2, <1>3, <1>5 DEF LocalsOK, RefersToNodes

(* The same, the local variables unchanged. *)
LEMMA LabelStep ==
  ASSUME TypeOK, LocalsOK, NEW p \in Procs, NEW label \in Labels,
         RefersToNodes(label, loc[p]), MayCall(p),
         Goto(p, label), UNCHANGED loc, UNCHANGED callVars
  PROVE  /\ pc' \in [Procs -> Labels]
         /\ loc' \in [Procs -> Locals]
         /\ LocalsOK'
<1>1. loc \in [Procs -> Locals]
  BY DEF TypeOK
<1>2. Set(p, loc[p])
  BY <1>1 DEF Set
<1> QED
  BY <1>1, <1>2, LocalStep

(* The call that returns. *)
LEMMA FinishStep ==
  ASSUME TypeOK, LocalsOK, NEW p \in Procs, pc[p] # "idle" \/ MayCall(p), Finish(p)
  PROVE  /\ todo' \in [Procs -> Seq(Calls)] /\ prologue' \in Seq(Calls)
         /\ dead' \subseteq Procs /\ given' \in [Procs -> Items \cup {NoItem}]
         /\ pc' \in [Procs -> Labels] /\ loc' \in [Procs -> Locals]
         /\ LocalsOK'
<1>1. RefersToNodes("idle", NoLocals)
  BY DEF RefersToNodes, UsesRef, UsesSlot, UsesBefore, HoldLabels
<1>2. \A q \in Procs : RefersToNodes(pc'[q], loc'[q])
  BY <1>1, FinishTypes DEF LocalsOK, TypeOK
<1> QED
  BY <1>2, FinishTypes DEF LocalsOK, RefersToNodes

(* What holds where a call is in progress. *)
LEMMA InCall ==
  ASSUME ListInv, NEW p \in Procs, NEW label \in Labels, At(p, label), label # "idle"
  PROVE  /\ TypeOK /\ LocalsOK
         /\ loc[p] \in Locals
         /\ MayCall(p)
         /\ pc[p] = label
         /\ RefersToNodes(label, loc[p])
BY DEF ListInv, LocalsOK, TypeOK, At

\* Semaphores and counters: nothing of the lists changes.
LEMMA GatesInv ==
  ASSUME ListInv, NEW p \in Procs, Gates(p)
  PROVE  ListInv'
<1> TypeOK /\ LocalsOK
  BY DEF ListInv
<1> loc[p] \in Locals
  BY DEF TypeOK
<1>1. CASE EnqGateTry(p)
  <2>1. UNCHANGED <<memVars, deqSem, count>> /\ MayCall(p)
    BY <1>1 DEF EnqGateTry
  <2>2. CASE enqSem > 0
    <3>1. enqSem' = enqSem - 1 /\ Goto(p, "poolGen") /\ UNCHANGED <<loc, callVars, given>>
      BY <1>1, <2>2 DEF EnqGateTry
    <3>2. RefersToNodes("poolGen", loc[p]) /\ "poolGen" \in Labels
      BY DEF RefersToNodes, UsesRef, UsesSlot, UsesBefore, HoldLabels, Labels
    <3>3. pc' \in [Procs -> Labels] /\ loc' \in [Procs -> Locals] /\ LocalsOK'
      BY <2>1, <3>1, <3>2, LabelStep
    <3> QED
      BY <2>1, <2>2, <3>1, <3>3 DEF TypeOK, ListInv, memVars, callVars
  <2>3. CASE ~(enqSem > 0)
    <3>1. Finish(p) /\ UNCHANGED enqSem
      BY <1>1, <2>3 DEF EnqGateTry
    <3> QED
      BY <2>1, <3>1, FinishStep DEF TypeOK, ListInv, memVars
  <2> QED
    BY <2>2, <2>3
<1>2. CASE DeqGateTry(p)
  <2>1. UNCHANGED <<memVars, enqSem, count>> /\ MayCall(p)
    BY <1>2 DEF DeqGateTry
  <2>2. CASE deqSem > 0
    <3>1. deqSem' = deqSem - 1 /\ Goto(p, "deqHead") /\ UNCHANGED <<loc, callVars, given>>
      BY <1>2, <2>2 DEF DeqGateTry
    <3>2. RefersToNodes("deqHead", loc[p]) /\ "deqHead" \in Labels
      BY DEF RefersToNodes, UsesRef, UsesSlot, UsesBefore, HoldLabels, Labels
    <3>3. pc' \in [Procs -> Labels] /\ loc' \in [Procs -> Locals] /\ LocalsOK'
      BY <2>1, <3>1, <3>2, LabelStep
    <3> QED
      BY <2>1, <2>2, <3>1, <3>3 DEF TypeOK, ListInv, memVars, callVars
  <2>3. CASE ~(deqSem > 0)
    <3>1. Finish(p) /\ UNCHANGED deqSem
      BY <1>2, <2>3 DEF DeqGateTry
    <3> QED
      BY <2>1, <3>1, FinishStep DEF TypeOK, ListInv, memVars
  <2> QED
    BY <2>2, <2>3
<1>3. CASE PostDeq(p)
  <2>1. pc[p] # "idle" /\ deqSem' = deqSem + 1 /\ Finish(p) /\ UNCHANGED <<memVars, enqSem, count>>
    BY <1>3 DEF PostDeq, At
  <2> QED
    BY <2>1, FinishStep DEF TypeOK, ListInv, memVars
<1>4. CASE PostEnq(p)
  <2>1. pc[p] # "idle" /\ enqSem' = enqSem + 1 /\ Finish(p) /\ UNCHANGED <<memVars, deqSem, count>>
    BY <1>4 DEF PostEnq, At
  <2> QED
    BY <2>1, FinishStep DEF TypeOK, ListInv, memVars
<1>5. CASE IncCount(p)
  <2>1. MayCall(p)
    BY <1>5 DEF IncCount, At, LocalsOK
  <2>2. RefersToNodes("postDeq", loc[p]) /\ "postDeq" \in Labels
    BY DEF RefersToNodes, UsesRef, UsesSlot, UsesBefore, HoldLabels, Labels
  <2>3. pc' \in [Procs -> Labels] /\ loc' \in [Procs -> Locals] /\ LocalsOK'
    BY <1>5, <2>1, <2>2, LabelStep DEF IncCount
  <2> QED
    BY <1>5, <2>3 DEF IncCount, TypeOK, ListInv, memVars, callVars
<1>6. CASE DecCount(p)
  <2>1. MayCall(p)
    BY <1>6 DEF DecCount, At, LocalsOK
  <2>2. RefersToNodes("postEnq", loc[p]) /\ "postEnq" \in Labels
    BY DEF RefersToNodes, UsesRef, UsesSlot, UsesBefore, HoldLabels, Labels
  <2>3. pc' \in [Procs -> Labels] /\ loc' \in [Procs -> Locals] /\ LocalsOK'
    BY <1>6, <2>1, <2>2, LabelStep DEF DecCount
  <2> QED
    BY <1>6, <2>3 DEF DecCount, TypeOK, ListInv, memVars, callVars
<1> QED
  BY <1>1, <1>2, <1>3, <1>4, <1>5, <1>6 DEF Gates

\* remove_front: what it reads out of the head are nodes.
LEMMA RemoveFrontInv ==
  ASSUME ListInv, NEW p \in Procs, RemoveFront(p)
  PROVE  ListInv'
<1> TypeOK /\ LocalsOK
  BY DEF ListInv
<1> USE DEF Labels
<1>1. CASE FrontTest(p)
  <2>1. loc[p] \in Locals /\ MayCall(p)
    BY <1>1, InCall DEF FrontTest
  <2> DEFINE label == IF loc[p].ref # Null /\ loc[p].ref # tail[loc[p].list].lo
                        THEN "frontNext" ELSE FrontRetry(p)
  <2>2. label \in Labels /\ RefersToNodes(label, loc[p])
    BY <2>1 DEF FrontRetry, Locals, RefersToNodes, UsesRef, UsesSlot, UsesBefore, HoldLabels
  <2>3. Goto(p, label) /\ UNCHANGED <<memVars, gateVars, callVars, loc, given>>
    BY <1>1 DEF FrontTest
  <2> HIDE DEF label
  <2>4. pc' \in [Procs -> Labels] /\ loc' \in [Procs -> Locals] /\ LocalsOK'
    BY <2>1, <2>2, <2>3, LabelStep
  <2> QED
    BY <2>3, <2>4 DEF TypeOK, ListInv, memVars, gateVars, callVars
<1>2. CASE FrontNext(p)
  <2>1. loc[p] \in Locals /\ MayCall(p) /\ RefersToNodes("frontNext", loc[p])
    BY <1>2, InCall DEF FrontNext
  <2>2. loc[p].ref \in Nodes
    BY <2>1 DEF RefersToNodes, UsesRef
  <2> DEFINE l == [loc[p] EXCEPT !.next = word[loc[p].ref].lo]
  <2>3. word[loc[p].ref].lo \in Nodes \cup {Null}
    BY <2>2 DEF TypeOK, Word
  <2>4. l \in Locals /\ l.ref = loc[p].ref
    BY <2>1, <2>3 DEF Locals
  <2>5. RefersToNodes("frontCas", l)
    BY <2>2, <2>4 DEF RefersToNodes, UsesRef, UsesSlot, UsesBefore, HoldLabels
  <2>6. Goto(p, "frontCas") /\ Set(p, l) /\ UNCHANGED <<memVars, gateVars, callVars, given>>
    BY <1>2 DEF FrontNext
  <2> HIDE DEF l
  <2>7. pc' \in [Procs -> Labels] /\ loc' \in [Procs -> Locals] /\ LocalsOK'
    BY <2>1, <2>4, <2>5, <2>6, LocalStep
  <2> QED
    BY <2>6, <2>7 DEF TypeOK, ListInv, memVars, gateVars, callVars
<1>3. CASE FrontCas(p)
  <2>1. loc[p] \in Locals /\ MayCall(p) /\ RefersToNodes("frontCas", loc[p])
    BY <1>3, InCall DEF FrontCas
  <2>2. loc[p].ref \in Nodes
    BY <2>1 DEF RefersToNodes, UsesRef
  <2>3. UNCHANGED <<word, val, tail, idCntr, dataAlloc, gateVars, callVars>>
    BY <1>3 DEF FrontCas
  <2>4. CASE HeadUnchanged(p)
    <3> DEFINE l == [loc[p] EXCEPT !.slot = loc[p].ref]
    <3>1. /\ head' = [head EXCEPT ![loc[p].list] = W(loc[p].next, loc[p].refGen + 1)]
          /\ Set(p, l) /\ Goto(p, "frontZero")
          /\ given' = IF loc[p].list = "queue"
                        THEN [given EXCEPT ![p] = loc[p].data] ELSE given
      BY <1>3, <2>4 DEF FrontCas
    <3>2. l \in Locals /\ l.slot \in Nodes
      BY <2>1, <2>2 DEF Locals
    <3>3. RefersToNodes("frontZero", l)
      BY <3>2 DEF RefersToNodes, UsesRef, UsesSlot, UsesBefore, HoldLabels
    <3> HIDE DEF l
    <3>4. pc' \in [Procs -> Labels] /\ loc' \in [Procs -> Locals] /\ LocalsOK'
      BY <2>1, <2>3, <3>1, <3>2, <3>3, LocalStep
    <3>5. head' \in [Lists -> Word]
      BY <2>1, <3>1 DEF TypeOK, Locals, Word, W
    <3>6. given' \in [Procs -> Items \cup {NoItem}]
      BY <2>1, <3>1 DEF TypeOK, Locals
    <3> QED
      BY <2>3, <3>4, <3>5, <3>6 DEF TypeOK, ListInv, gateVars, callVars
  <2>5. CASE ~HeadUnchanged(p)
    <3>1. Goto(p, FrontRetry(p)) /\ UNCHANGED <<head, loc, given>>
      BY <1>3, <2>5 DEF FrontCas
    <3>2. FrontRetry(p) \in Labels /\ RefersToNodes(FrontRetry(p), loc[p])
      BY DEF FrontRetry, RefersToNodes, UsesRef, UsesSlot, UsesBefore, HoldLabels
    <3>3. pc' \in [Procs -> Labels] /\ loc' \in [Procs -> Locals] /\ LocalsOK'
      BY <2>1, <2>3, <3>1, <3>2, LabelStep
    <3> QED
      BY <2>3, <3>1, <3>3 DEF TypeOK, ListInv, gateVars, callVars
  <2> QED
    BY <2>4, <2>5
<1>4. CASE FrontZero(p)
  <2>1. loc[p] \in Locals /\ MayCall(p) /\ RefersToNodes("frontZero", loc[p])
    BY <1>4, InCall DEF FrontZero
  <2>2. loc[p].slot \in Nodes
    BY <2>1 DEF RefersToNodes, UsesSlot, HoldLabels
  <2>3. word' = [word EXCEPT ![loc[p].slot] = Zero]
        /\ UNCHANGED <<val, head, tail, idCntr, dataAlloc, gateVars, callVars, given>>
    BY <1>4 DEF FrontZero
  <2>4. word' \in [Nodes -> Word]
    BY <2>3 DEF TypeOK, Word, Zero, W
  <2>5. CASE loc[p].list = "free"
    <3>1. Goto(p, "poolClear") /\ UNCHANGED loc
      BY <1>4, <2>5 DEF FrontZero
    <3>2. RefersToNodes("poolClear", loc[p])
      BY <2>2 DEF RefersToNodes, UsesRef, UsesSlot, UsesBefore, HoldLabels
    <3>3. pc' \in [Procs -> Labels] /\ loc' \in [Procs -> Locals] /\ LocalsOK'
      BY <2>1, <2>3, <3>1, <3>2, LabelStep
    <3> QED
      BY <2>3, <2>4, <3>3 DEF TypeOK, ListInv, gateVars, callVars
  <2>6. CASE loc[p].list # "free"
    <3> DEFINE l == [loc[p] EXCEPT !.list = "free"]
    <3>1. Goto(p, "endGen") /\ Set(p, l)
      BY <1>4, <2>6 DEF FrontZero
    <3>2. l \in Locals /\ l.slot = loc[p].slot
      BY <2>1 DEF Locals, Lists
    <3>3. RefersToNodes("endGen", l)
      BY <2>2, <3>2 DEF RefersToNodes, UsesRef, UsesSlot, UsesBefore, HoldLabels
    <3> HIDE DEF l
    <3>4. pc' \in [Procs -> Labels] /\ loc' \in [Procs -> Locals] /\ LocalsOK'
      BY <2>1, <2>3, <3>1, <3>2, <3>3, LocalStep
    <3> QED
      BY <2>3, <2>4, <3>4 DEF TypeOK, ListInv, gateVars, callVars
  <2> QED
    BY <2>5, <2>6
<1> QED
  BY <1>1, <1>2, <1>3, <1>4 DEF RemoveFront

(* A step that only reads: it moves p on and sets p's local variables. *)
LEMMA ReadStep ==
  ASSUME ListInv, NEW p \in Procs, NEW label \in Labels, NEW l \in Locals,
         RefersToNodes(label, l), MayCall(p), Goto(p, label), Set(p, l),
         UNCHANGED <<memVars, gateVars, callVars, given>>
  PROVE  ListInv'
<1>1. pc' \in [Procs -> Labels] /\ loc' \in [Procs -> Locals] /\ LocalsOK'
  BY LocalStep DEF ListInv
<1> QED
  BY <1>1 DEF TypeOK, ListInv, memVars, gateVars, callVars

(* A step that only branches. *)
LEMMA BranchStep ==
  ASSUME ListInv, NEW p \in Procs, NEW label \in Labels,
         RefersToNodes(label, loc[p]), MayCall(p), Goto(p, label),
         UNCHANGED <<memVars, gateVars, callVars, loc, given>>
  PROVE  ListInv'
<1>1. pc' \in [Procs -> Labels] /\ loc' \in [Procs -> Locals] /\ LocalsOK'
  BY LabelStep DEF ListInv
<1> QED
  BY <1>1 DEF TypeOK, ListInv, memVars, gateVars, callVars

\* alloc_idx_slots: a node out of the pool or the next new one.
LEMMA AllocInv ==
  ASSUME ListInv, NEW p \in Procs, Alloc(p)
  PROVE  ListInv'
<1> TypeOK /\ LocalsOK
  BY DEF ListInv
<1> USE DEF Labels
<1>1. CASE PoolGen(p)
  <2>1. loc[p] \in Locals /\ MayCall(p) /\ RefersToNodes("poolGen", loc[p])
    BY <1>1, InCall DEF PoolGen
  <2> DEFINE l == [loc[p] EXCEPT !.list = "free", !.refGen = head["free"].hi]
  <2>2. l \in Locals
    BY <2>1 DEF TypeOK, Locals, Word, Lists, Items, RefersToNodes, UsesRef, UsesSlot,
                UsesBefore, HoldLabels
  <2>3. RefersToNodes("poolHead", l)
    BY <2>1, <2>2 DEF RefersToNodes, UsesRef, UsesSlot, UsesBefore, HoldLabels
  <2>4. Goto(p, "poolHead") /\ Set(p, l) /\ UNCHANGED <<memVars, gateVars, callVars, given>>
    BY <1>1 DEF PoolGen
  <2> HIDE DEF l
  <2> QED
    BY <2>1, <2>2, <2>3, <2>4, ReadStep
<1>2. CASE PoolHead(p)
  <2>1. loc[p] \in Locals /\ MayCall(p) /\ RefersToNodes("poolHead", loc[p])
    BY <1>2, InCall DEF PoolHead
  <2> DEFINE l == [loc[p] EXCEPT !.ref = head["free"].lo]
  <2>2. l \in Locals
    BY <2>1 DEF TypeOK, Locals, Word, Lists, Items, RefersToNodes, UsesRef, UsesSlot,
                UsesBefore, HoldLabels
  <2>3. RefersToNodes("poolTest", l)
    BY <2>1, <2>2 DEF RefersToNodes, UsesRef, UsesSlot, UsesBefore, HoldLabels
  <2>4. Goto(p, "poolTest") /\ Set(p, l) /\ UNCHANGED <<memVars, gateVars, callVars, given>>
    BY <1>2 DEF PoolHead
  <2> HIDE DEF l
  <2> QED
    BY <2>1, <2>2, <2>3, <2>4, ReadStep
<1>3. CASE PoolTest(p)
  <2>1. loc[p] \in Locals /\ MayCall(p) /\ RefersToNodes("poolTest", loc[p])
    BY <1>3, InCall DEF PoolTest
  <2> DEFINE label == IF loc[p].ref # tail["free"].lo THEN "frontTest" ELSE "bump"
  <2>2. label \in Labels /\ RefersToNodes(label, loc[p])
    BY <2>1 DEF Locals, Word, RefersToNodes, UsesRef, UsesSlot, UsesBefore, HoldLabels
  <2>3. Goto(p, label) /\ UNCHANGED <<memVars, gateVars, callVars, loc, given>>
    BY <1>3 DEF PoolTest
  <2> HIDE DEF label
  <2> QED
    BY <2>1, <2>2, <2>3, BranchStep
<1>4. CASE PoolClear(p)
  <2>1. loc[p] \in Locals /\ MayCall(p) /\ RefersToNodes("poolClear", loc[p])
    BY <1>4, InCall DEF PoolClear
  <2>2. RefersToNodes("store", loc[p])
    BY <2>1 DEF RefersToNodes, UsesRef, UsesSlot, UsesBefore, HoldLabels
  <2>3. pc' \in [Procs -> Labels] /\ loc' \in [Procs -> Locals] /\ LocalsOK'
    BY <1>4, <2>1, <2>2, LabelStep DEF PoolClear
  <2>4. word' \in [Nodes -> Word] /\ val' \in [Nodes -> Items \cup {NoItem}]
    BY <1>4 DEF PoolClear, TypeOK, Word, Zero, W
  <2> QED
    BY <1>4, <2>3, <2>4 DEF PoolClear, TypeOK, ListInv, gateVars, callVars
<1>5. CASE Bump(p)
  <2>1. loc[p] \in Locals /\ MayCall(p)
    BY <1>5, InCall DEF Bump
  <2>2. UNCHANGED <<word, val, head, tail, idCntr, gateVars, callVars, given>>
    BY <1>5 DEF Bump
  <2>3. CASE dataAlloc <= MaxNodes
    <3> DEFINE l == [loc[p] EXCEPT !.slot = dataAlloc]
    <3>1. Set(p, l) /\ dataAlloc' = dataAlloc + 1 /\ Goto(p, "store")
      BY <1>5, <2>3 DEF Bump
    <3>2. dataAlloc \in Nodes /\ dataAlloc' \in 1..(MaxNodes + 1)
      BY <2>3, <3>1, SizesAssumption DEF TypeOK, Nodes
    <3>3. l \in Locals /\ l.slot = dataAlloc
      BY <2>1, <3>2 DEF Locals
    <3>4. RefersToNodes("store", l)
      BY <3>2, <3>3 DEF RefersToNodes, UsesRef, UsesSlot, UsesBefore, HoldLabels
    <3> HIDE DEF l
    <3>5. pc' \in [Procs -> Labels] /\ loc' \in [Procs -> Locals] /\ LocalsOK'
      BY <2>1, <2>2, <3>1, <3>3, <3>4, LocalStep
    <3> QED
      BY <2>2, <3>2, <3>5 DEF TypeOK, ListInv, gateVars, callVars
  <2>4. CASE ~(dataAlloc <= MaxNodes)
    <3>1. Goto(p, "postEnq") /\ UNCHANGED <<loc, dataAlloc>>
      BY <1>5, <2>4 DEF Bump
    <3>2. RefersToNodes("postEnq", loc[p])
      BY DEF RefersToNodes, UsesRef, UsesSlot, UsesBefore, HoldLabels
    <3>3. pc' \in [Procs -> Labels] /\ loc' \in [Procs -> Locals] /\ LocalsOK'
      BY <2>1, <2>2, <3>1, <3>2, LabelStep
    <3> QED
      BY <2>2, <3>1, <3>3 DEF TypeOK, ListInv, gateVars, callVars
  <2> QED
    BY <2>3, <2>4
<1>6. CASE Store(p)
  <2>1. loc[p] \in Locals /\ MayCall(p) /\ RefersToNodes("store", loc[p])
    BY <1>6, InCall DEF Store
  <2> DEFINE l == [loc[p] EXCEPT !.list = "queue"]
  <2>2. l \in Locals /\ l.slot = loc[p].slot
    BY <2>1 DEF Locals, Lists
  <2>3. RefersToNodes("endGen", l)
    BY <2>1, <2>2 DEF RefersToNodes, UsesRef, UsesSlot, UsesBefore, HoldLabels
  <2>4. /\ val' = [val EXCEPT ![loc[p].slot] = NewItem(p)]
        /\ Set(p, l) /\ Goto(p, "endGen")
        /\ UNCHANGED <<word, head, tail, idCntr, dataAlloc, gateVars, callVars, given>>
    BY <1>6 DEF Store
  <2>5. NewItem(p) \in Items
    BY LenProperties DEF NewItem, Items, TypeOK
  <2>6. val' \in [Nodes -> Items \cup {NoItem}]
    BY <2>4, <2>5 DEF TypeOK
  <2> HIDE DEF l
  <2>7. pc' \in [Procs -> Labels] /\ loc' \in [Procs -> Locals] /\ LocalsOK'
    BY <2>1, <2>2, <2>3, <2>4, LocalStep
  <2> QED
    BY <2>4, <2>6, <2>7 DEF TypeOK, ListInv, gateVars, callVars
<1> QED
  BY <1>1, <1>2, <1>3, <1>4, <1>5, <1>6 DEF Alloc

\* add_end: what is linked is the caller's node, behind a node.
LEMMA AddEndInv ==
  ASSUME ListInv, NEW p \in Procs, AddEnd(p)
  PROVE  ListInv'
<1> TypeOK /\ LocalsOK
  BY DEF ListInv
<1> USE DEF Labels
<1>1. CASE EndGen(p)
  <2>1. loc[p] \in Locals /\ MayCall(p) /\ RefersToNodes("endGen", loc[p])
    BY <1>1, InCall DEF EndGen
  <2> DEFINE l == [loc[p] EXCEPT !.gen = idCntr]
  <2>2. l \in Locals /\ l.slot = loc[p].slot
    BY <2>1 DEF Locals, TypeOK
  <2>3. loc[p].slot \in Nodes /\ RefersToNodes("endStore", l)
    BY <2>1, <2>2 DEF RefersToNodes, UsesRef, UsesSlot, UsesBefore, HoldLabels
  <2>4. /\ Set(p, l) /\ idCntr' = idCntr + 1
        /\ word' = [word EXCEPT ![loc[p].slot].lo = loc[p].slot]
        /\ Goto(p, "endStore")
        /\ UNCHANGED <<val, head, tail, dataAlloc, gateVars, callVars, given>>
    BY <1>1 DEF EndGen
  <2>a. word \in [Nodes -> Word] /\ idCntr \in Nat
    BY DEF TypeOK
  <2>b. [word[loc[p].slot] EXCEPT !.lo = loc[p].slot] \in Word
    BY <2>3, <2>a DEF Word
  <2>5. word' \in [Nodes -> Word] /\ idCntr' \in Nat
    BY <2>3, <2>4, <2>a, <2>b
  <2> HIDE DEF l
  <2>6. pc' \in [Procs -> Labels] /\ loc' \in [Procs -> Locals] /\ LocalsOK'
    BY <2>1, <2>2, <2>3, <2>4, LocalStep
  <2> QED
    BY <2>4, <2>5, <2>6 DEF TypeOK, ListInv, gateVars, callVars
<1>2. CASE EndStore(p)
  <2>1. loc[p] \in Locals /\ MayCall(p) /\ RefersToNodes("endStore", loc[p])
    BY <1>2, InCall DEF EndStore
  <2>2. RefersToNodes("endLo", loc[p])
    BY <2>1 DEF RefersToNodes, UsesRef, UsesSlot, UsesBefore, HoldLabels
  <2>3. pc' \in [Procs -> Labels] /\ loc' \in [Procs -> Locals] /\ LocalsOK'
    BY <1>2, <2>1, <2>2, LabelStep DEF EndStore
  <2>a. word \in [Nodes -> Word] /\ loc[p].slot \in Nodes
    BY <2>1 DEF TypeOK, RefersToNodes, UsesSlot, HoldLabels
  <2>b. [word[loc[p].slot] EXCEPT !.hi = loc[p].gen] \in Word
    BY <2>1, <2>a DEF Word, Locals
  <2>4. word' \in [Nodes -> Word]
    BY <1>2, <2>a, <2>b DEF EndStore
  <2> QED
    BY <1>2, <2>3, <2>4 DEF EndStore, TypeOK, ListInv, gateVars, callVars
<1>3. CASE EndLo(p)
  <2>1. loc[p] \in Locals /\ MayCall(p) /\ RefersToNodes("endLo", loc[p])
    BY <1>3, InCall DEF EndLo
  <2> DEFINE l == [loc[p] EXCEPT !.before.lo = tail[loc[p].list].lo]
  <2>2. l \in Locals /\ l.slot = loc[p].slot
    BY <2>1 DEF TypeOK, Locals, Word, Lists, Items, RefersToNodes, UsesRef, UsesSlot,
                UsesBefore, HoldLabels
  <2>3. RefersToNodes("endHi", l)
    BY <2>1, <2>2 DEF RefersToNodes, UsesRef, UsesSlot, UsesBefore, HoldLabels
  <2>4. Goto(p, "endHi") /\ Set(p, l) /\ UNCHANGED <<memVars, gateVars, callVars, given>>
    BY <1>3 DEF EndLo
  <2> HIDE DEF l
  <2> QED
    BY <2>1, <2>2, <2>3, <2>4, ReadStep
<1>4. CASE EndHi(p)
  <2>1. loc[p] \in Locals /\ MayCall(p) /\ RefersToNodes("endHi", loc[p])
    BY <1>4, InCall DEF EndHi
  <2> DEFINE l == [loc[p] EXCEPT !.before.hi = tail[loc[p].list].hi]
  <2>2. l \in Locals /\ l.slot = loc[p].slot
    BY <2>1 DEF TypeOK, Locals, Word, Lists, Items, RefersToNodes, UsesRef, UsesSlot,
                UsesBefore, HoldLabels
  <2>3. RefersToNodes("endTest", l)
    BY <2>1, <2>2 DEF RefersToNodes, UsesRef, UsesSlot, UsesBefore, HoldLabels
  <2>4. Goto(p, "endTest") /\ Set(p, l) /\ UNCHANGED <<memVars, gateVars, callVars, given>>
    BY <1>4 DEF EndHi
  <2> HIDE DEF l
  <2> QED
    BY <2>1, <2>2, <2>3, <2>4, ReadStep
<1>5. CASE EndTest(p)
  <2>1. loc[p] \in Locals /\ MayCall(p) /\ RefersToNodes("endTest", loc[p])
    BY <1>5, InCall DEF EndTest
  <2> DEFINE label == IF loc[p].before.lo = Null THEN "abort"
                      ELSE IF word[loc[p].before.lo].lo = loc[p].before.lo
                           THEN "endLink" ELSE "helpLo"
  <2>2. label \in Labels /\ RefersToNodes(label, loc[p])
    BY <2>1 DEF Locals, Word, RefersToNodes, UsesRef, UsesSlot, UsesBefore, HoldLabels
  <2>3. Goto(p, label) /\ UNCHANGED <<memVars, gateVars, callVars, loc, given>>
    BY <1>5 DEF EndTest
  <2> HIDE DEF label
  <2> QED
    BY <2>1, <2>2, <2>3, BranchStep
<1>6. CASE EndLink(p)
  <2>1. loc[p] \in Locals /\ MayCall(p) /\ RefersToNodes("endLink", loc[p])
    BY <1>6, InCall DEF EndLink
  <2>2. loc[p].slot \in Nodes /\ Linked(p) \in Word
    BY <2>1 DEF Linked, W, Word, Locals, RefersToNodes, UsesRef, UsesSlot, UsesBefore, HoldLabels
  <2>3. UNCHANGED <<val, head, tail, idCntr, dataAlloc, gateVars, callVars, loc, given>>
    BY <1>6 DEF EndLink
  <2> DEFINE fits == word[loc[p].before.lo] = loc[p].before
             label == IF fits THEN "endSwing" ELSE "endLo"
  <2>4. Goto(p, label) /\ word' \in [Nodes -> Word]
    BY <1>6, <2>2 DEF EndLink, TypeOK
  <2>5. label \in Labels /\ RefersToNodes(label, loc[p])
    BY <2>1, <2>2 DEF RefersToNodes, UsesRef, UsesSlot, UsesBefore, HoldLabels
  <2> HIDE DEF label
  <2>6. pc' \in [Procs -> Labels] /\ loc' \in [Procs -> Locals] /\ LocalsOK'
    BY <2>1, <2>3, <2>4, <2>5, LabelStep
  <2> QED
    BY <2>3, <2>4, <2>6 DEF TypeOK, ListInv, gateVars, callVars
<1>7. CASE EndSwing(p)
  <2>1. loc[p] \in Locals /\ MayCall(p) /\ RefersToNodes("endSwing", loc[p])
    BY <1>7, InCall DEF EndSwing
  <2>2. Linked(p) \in Word
    BY <2>1 DEF Linked, W, Word, Locals, RefersToNodes, UsesRef, UsesSlot, UsesBefore, HoldLabels
  <2>3. tail' \in [Lists -> Word]
    BY <1>7, <2>2 DEF EndSwing, SwingTail, TypeOK
  <2> DEFINE label == IF loc[p].list = "queue" THEN "incCount" ELSE "decCount"
  <2>4. label \in Labels /\ RefersToNodes(label, loc[p])
    BY DEF RefersToNodes, UsesRef, UsesSlot, UsesBefore, HoldLabels
  <2>5. /\ Goto(p, label)
        /\ UNCHANGED <<word, val, head, idCntr, dataAlloc, gateVars, callVars, loc, given>>
    BY <1>7 DEF EndSwing
  <2> HIDE DEF label
  <2>6. pc' \in [Procs -> Labels] /\ loc' \in [Procs -> Locals] /\ LocalsOK'
    BY <2>1, <2>4, <2>5, LabelStep
  <2> QED
    BY <2>3, <2>5, <2>6 DEF TypeOK, ListInv, gateVars, callVars
<1>8. CASE HelpLo(p)
  <2>1. loc[p] \in Locals /\ MayCall(p) /\ RefersToNodes("helpLo", loc[p])
    BY <1>8, InCall DEF HelpLo
  <2> DEFINE l == [loc[p] EXCEPT !.after.lo = word[loc[p].before.lo].lo]
  <2>2. l \in Locals /\ l.slot = loc[p].slot /\ l.before = loc[p].before
    BY <2>1 DEF TypeOK, Locals, Word, Lists, Items, RefersToNodes, UsesRef, UsesSlot,
                UsesBefore, HoldLabels
  <2>3. RefersToNodes("helpHi", l)
    BY <2>1, <2>2 DEF RefersToNodes, UsesRef, UsesSlot, UsesBefore, HoldLabels
  <2>4. Goto(p, "helpHi") /\ Set(p, l) /\ UNCHANGED <<memVars, gateVars, callVars, given>>
    BY <1>8 DEF HelpLo
  <2> HIDE DEF l
  <2> QED
    BY <2>1, <2>2, <2>3, <2>4, ReadStep
<1>9. CASE HelpHi(p)
  <2>1. loc[p] \in Locals /\ MayCall(p) /\ RefersToNodes("helpHi", loc[p])
    BY <1>9, InCall DEF HelpHi
  <2> DEFINE l == [loc[p] EXCEPT !.after.hi = word[loc[p].before.lo].hi]
  <2>2. l \in Locals /\ l.slot = loc[p].slot /\ l.before = loc[p].before
    BY <2>1 DEF TypeOK, Locals, Word, Lists, Items, RefersToNodes, UsesRef, UsesSlot,
                UsesBefore, HoldLabels
  <2>3. RefersToNodes("helpSwing", l)
    BY <2>1, <2>2 DEF RefersToNodes, UsesRef, UsesSlot, UsesBefore, HoldLabels
  <2>4. Goto(p, "helpSwing") /\ Set(p, l) /\ UNCHANGED <<memVars, gateVars, callVars, given>>
    BY <1>9 DEF HelpHi
  <2> HIDE DEF l
  <2> QED
    BY <2>1, <2>2, <2>3, <2>4, ReadStep
<1>10. CASE HelpSwing(p)
  <2>1. loc[p] \in Locals /\ MayCall(p) /\ RefersToNodes("helpSwing", loc[p])
    BY <1>10, InCall DEF HelpSwing
  <2>2. tail' \in [Lists -> Word]
    BY <1>10, <2>1 DEF HelpSwing, SwingTail, TypeOK, Locals
  <2>3. RefersToNodes("endLo", loc[p])
    BY <2>1 DEF RefersToNodes, UsesRef, UsesSlot, UsesBefore, HoldLabels
  <2>4. pc' \in [Procs -> Labels] /\ loc' \in [Procs -> Locals] /\ LocalsOK'
    BY <1>10, <2>1, <2>3, LabelStep DEF HelpSwing
  <2> QED
    BY <1>10, <2>2, <2>4 DEF HelpSwing, TypeOK, ListInv, gateVars, callVars
<1> QED
  BY <1>1, <1>2, <1>3, <1>4, <1>5, <1>6, <1>7, <1>8, <1>9, <1>10 DEF AddEnd

\* deq and fifo_remove: the node that was the head is the one given to the pool.
LEMMA FifoRemoveInv ==
  ASSUME ListInv, NEW p \in Procs, FifoRemove(p)
  PROVE  ListInv'
<1> TypeOK /\ LocalsOK
  BY DEF ListInv
<1> USE DEF Labels
<1>1. CASE DeqHead(p)
  <2>1. loc[p] \in Locals /\ MayCall(p) /\ RefersToNodes("deqHead", loc[p])
    BY <1>1, InCall DEF DeqHead
  <2> DEFINE l == [loc[p] EXCEPT !.list = "queue", !.ref = head["queue"].lo]
  <2>2. l \in Locals
    BY <2>1 DEF TypeOK, Locals, Word, Lists, Items, RefersToNodes, UsesRef, UsesSlot,
                UsesBefore, HoldLabels
  <2>3. RefersToNodes("deqTest", l)
    BY <2>1, <2>2 DEF RefersToNodes, UsesRef, UsesSlot, UsesBefore, HoldLabels
  <2>4. Goto(p, "deqTest") /\ Set(p, l) /\ UNCHANGED <<memVars, gateVars, callVars, given>>
    BY <1>1 DEF DeqHead
  <2> HIDE DEF l
  <2> QED
    BY <2>1, <2>2, <2>3, <2>4, ReadStep
<1>2. CASE DeqTest(p)
  <2>1. loc[p] \in Locals /\ MayCall(p) /\ RefersToNodes("deqTest", loc[p])
    BY <1>2, InCall DEF DeqTest
  <2> DEFINE label == IF loc[p].ref = tail["queue"].lo THEN "postDeq" ELSE "fifoGen"
  <2>2. label \in Labels /\ RefersToNodes(label, loc[p])
    BY <2>1 DEF Locals, Word, RefersToNodes, UsesRef, UsesSlot, UsesBefore, HoldLabels
  <2>3. Goto(p, label) /\ UNCHANGED <<memVars, gateVars, callVars, loc, given>>
    BY <1>2 DEF DeqTest
  <2> HIDE DEF label
  <2> QED
    BY <2>1, <2>2, <2>3, BranchStep
<1>3. CASE FifoGen(p)
  <2>1. loc[p] \in Locals /\ MayCall(p) /\ RefersToNodes("fifoGen", loc[p])
    BY <1>3, InCall DEF FifoGen
  <2> DEFINE l == [loc[p] EXCEPT !.refGen = head["queue"].hi]
  <2>2. l \in Locals
    BY <2>1 DEF TypeOK, Locals, Word, Lists, Items, RefersToNodes, UsesRef, UsesSlot,
                UsesBefore, HoldLabels
  <2>3. RefersToNodes("fifoHead", l)
    BY <2>1, <2>2 DEF RefersToNodes, UsesRef, UsesSlot, UsesBefore, HoldLabels
  <2>4. Goto(p, "fifoHead") /\ Set(p, l) /\ UNCHANGED <<memVars, gateVars, callVars, given>>
    BY <1>3 DEF FifoGen
  <2> HIDE DEF l
  <2> QED
    BY <2>1, <2>2, <2>3, <2>4, ReadStep
<1>4. CASE FifoHead(p)
  <2>1. loc[p] \in Locals /\ MayCall(p) /\ RefersToNodes("fifoHead", loc[p])
    BY <1>4, InCall DEF FifoHead
  <2> DEFINE l == [loc[p] EXCEPT !.ref = head["queue"].lo]
  <2>2. l \in Locals
    BY <2>1 DEF TypeOK, Locals, Word, Lists, Items, RefersToNodes, UsesRef, UsesSlot,
                UsesBefore, HoldLabels
  <2>3. RefersToNodes("fifoTest", l)
    BY <2>1, <2>2 DEF RefersToNodes, UsesRef, UsesSlot, UsesBefore, HoldLabels
  <2>4. Goto(p, "fifoTest") /\ Set(p, l) /\ UNCHANGED <<memVars, gateVars, callVars, given>>
    BY <1>4 DEF FifoHead
  <2> HIDE DEF l
  <2> QED
    BY <2>1, <2>2, <2>3, <2>4, ReadStep
<1>5. CASE FifoTest(p)
  <2>1. loc[p] \in Locals /\ MayCall(p) /\ RefersToNodes("fifoTest", loc[p])
    BY <1>5, InCall DEF FifoTest
  <2> DEFINE label == IF loc[p].ref = tail["queue"].lo THEN "deqHead" ELSE "fifoNext"
  <2>2. label \in Labels /\ RefersToNodes(label, loc[p])
    BY <2>1 DEF Locals, Word, RefersToNodes, UsesRef, UsesSlot, UsesBefore, HoldLabels
  <2>3. Goto(p, label) /\ UNCHANGED <<memVars, gateVars, callVars, loc, given>>
    BY <1>5 DEF FifoTest
  <2> HIDE DEF label
  <2> QED
    BY <2>1, <2>2, <2>3, BranchStep
<1>6. CASE FifoNext(p)
  <2>1. loc[p] \in Locals /\ MayCall(p)
    BY <1>6, InCall DEF FifoNext
  <2>2. UNCHANGED <<memVars, gateVars, callVars, given>>
    BY <1>6 DEF FifoNext
  <2>3. CASE loc[p].ref = Null
    <3>1. Goto(p, "abort") /\ UNCHANGED loc
      BY <1>6, <2>3 DEF FifoNext
    <3>2. RefersToNodes("abort", loc[p])
      BY DEF RefersToNodes, UsesRef, UsesSlot, UsesBefore, HoldLabels
    <3> QED
      BY <2>1, <2>2, <3>1, <3>2, BranchStep
  <2>4. CASE loc[p].ref # Null
    <3> DEFINE next  == word[loc[p].ref].lo
               l     == [loc[p] EXCEPT !.next = next]
               label == IF next = Null THEN "deqHead" ELSE "fifoData"
    <3>1. next \in Nodes \cup {Null}
      BY <2>1, <2>4 DEF TypeOK, Word, Locals
    <3>2. l \in Locals /\ l.next = next
      BY <2>1, <3>1 DEF Locals
    <3>3. label \in Labels /\ RefersToNodes(label, l)
      BY <3>1, <3>2 DEF RefersToNodes, UsesRef, UsesSlot, UsesBefore, HoldLabels
    <3>4. Goto(p, label) /\ Set(p, l)
      BY <1>6, <2>4 DEF FifoNext
    <3> HIDE DEF l, label
    <3> QED
      BY <2>1, <2>2, <3>2, <3>3, <3>4, ReadStep
  <2> QED
    BY <2>3, <2>4
<1>7. CASE FifoData(p)
  <2>1. loc[p] \in Locals /\ MayCall(p) /\ RefersToNodes("fifoData", loc[p])
    BY <1>7, InCall DEF FifoData
  <2> DEFINE data  == val[loc[p].next]
             l     == [loc[p] EXCEPT !.data = data]
             label == IF data = NoItem THEN "deqHead" ELSE "frontTest"
  <2>2. data \in Items \cup {NoItem}
    BY <2>1 DEF TypeOK, RefersToNodes
  <2>3. l \in Locals
    BY <2>1, <2>2 DEF Locals
  <2>4. label \in Labels /\ RefersToNodes(label, l)
    BY DEF RefersToNodes, UsesRef, UsesSlot, UsesBefore, HoldLabels
  <2>5. Goto(p, label) /\ Set(p, l) /\ UNCHANGED <<memVars, gateVars, callVars, given>>
    BY <1>7 DEF FifoData
  <2> HIDE DEF l, label
  <2> QED
    BY <2>1, <2>3, <2>4, <2>5, ReadStep
<1> QED
  BY <1>1, <1>2, <1>3, <1>4, <1>5, <1>6, <1>7 DEF FifoRemove

\* A crash changes no node,
LEMMA CrashInv ==
  ASSUME ListInv, NEW p \in Procs, Crash(p)
  PROVE  ListInv'
BY DEF ListInv, TypeOK, LocalsOK, Crash, memVars, gateVars, MayCall, RefersToNodes

\* and neither does a step of somebody else.
LEMMA StutterInv ==
  ASSUME ListInv, UNCHANGED vars
  PROVE  ListInv'
BY DEF ListInv, TypeOK, LocalsOK, vars, memVars, gateVars, callVars, MayCall, RefersToNodes

(***************************************************************************)
(* Every variable keeps its type and no step follows a local variable that *)
(* is not a node: what add_end, remove_front and fifo_remove dereference   *)
(* is a slot of the array, whatever the other processes do.                *)
(***************************************************************************)
THEOREM TypeCorrect == Spec => [](TypeOK /\ LocalsOK)
<1>1. Init => ListInv
  BY InitInv
<1>2. ListInv /\ [Next]_vars => ListInv'
  <2> SUFFICES ASSUME ListInv, [Next]_vars PROVE ListInv'
    OBVIOUS
  <2>1. CASE UNCHANGED vars
    BY <2>1, StutterInv
  <2>2. CASE Done
    BY <2>2, StutterInv DEF Done
  <2>3. ASSUME NEW p \in Procs, Step(p) PROVE ListInv'
    BY <2>3, GatesInv, AllocInv, RemoveFrontInv, AddEndInv, FifoRemoveInv DEF Step
  <2>4. ASSUME NEW p \in Procs, Crash(p) PROVE ListInv'
    BY <2>4, CrashInv
  <2> QED
    BY <2>1, <2>2, <2>3, <2>4 DEF Next
<1>3. ListInv => TypeOK /\ LocalsOK
  BY DEF ListInv
<1> QED
  BY <1>1, <1>2, <1>3, PTL DEF Spec

(* A step inside a call leaves the semaphores and who is in a call as they are. *)
InnerStep(p) ==
  /\ pc[p] # "idle"
  /\ \E label \in Labels \ {"idle"} : Goto(p, label)
  /\ UNCHANGED <<enqSem, deqSem>>

\* Between the gates a call keeps its permits.
LEMMA InnerSteps ==
  ASSUME TypeOK, NEW p \in Procs,
         IncCount(p) \/ DecCount(p) \/ Alloc(p) \/ RemoveFront(p) \/ AddEnd(p) \/ FifoRemove(p)
  PROVE  InnerStep(p)
<1> USE DEF InnerStep, At, Labels, memVars, gateVars
<1>1. IncCount(p) \/ DecCount(p) => InnerStep(p)
  BY DEF IncCount, DecCount
<1>2. PoolGen(p) \/ PoolHead(p) \/ PoolTest(p) \/ PoolClear(p) => InnerStep(p)
  BY DEF PoolGen, PoolHead, PoolTest, PoolClear
<1>3. Bump(p) \/ Store(p) => InnerStep(p)
  BY DEF Bump, Store
<1>4. FrontTest(p) \/ FrontNext(p) \/ FrontCas(p) \/ FrontZero(p) => InnerStep(p)
  BY DEF FrontTest, FrontNext, FrontCas, FrontZero, FrontRetry
<1>5. EndGen(p) \/ EndStore(p) \/ EndLo(p) \/ EndHi(p) => InnerStep(p)
  BY DEF EndGen, EndStore, EndLo, EndHi
<1>6. EndTest(p) \/ EndLink(p) \/ EndSwing(p) => InnerStep(p)
  BY DEF EndTest, EndLink, EndSwing
<1>7. HelpLo(p) \/ HelpHi(p) \/ HelpSwing(p) => InnerStep(p)
  BY DEF HelpLo, HelpHi, HelpSwing
<1>8. DeqHead(p) \/ DeqTest(p) \/ FifoGen(p) \/ FifoHead(p) => InnerStep(p)
  BY DEF DeqHead, DeqTest, FifoGen, FifoHead
<1>9. FifoTest(p) \/ FifoNext(p) \/ FifoData(p) => InnerStep(p)
  BY DEF FifoTest, FifoNext, FifoData
<1> QED
  BY <1>1, <1>2, <1>3, <1>4, <1>5, <1>6, <1>7, <1>8, <1>9
     DEF Alloc, RemoveFront, AddEnd, FifoRemove

\* How the number of busy processes changes with one of them.
LEMMA BusyFinite ==
  /\ IsFiniteSet(Busy) /\ Cardinality(Busy) \in Nat
  /\ \A p \in Procs : /\ p \notin Busy => Cardinality(Busy \cup {p}) = Cardinality(Busy) + 1
                      /\ p \in Busy => Cardinality(Busy \ {p}) = Cardinality(Busy) - 1
<1>1. IsFiniteSet(Busy)
  BY ProcsAssumption, FS_Subset DEF Busy
<1> QED
  BY <1>1, FS_CardinalityType, FS_AddElement, FS_RemoveElement

\* A step moves a permit between a semaphore and a call, or none.
LEMMA PermitsStep ==
  ASSUME ListInv, PermitsConserved, NEW p \in Procs, Step(p)
  PROVE  PermitsConserved'
<1> TypeOK /\ LocalsOK
  BY DEF ListInv
<1>1. pc \in [Procs -> Labels] /\ enqSem \in Nat /\ deqSem \in Nat /\ MaxDepth \in Nat
  BY SizesAssumption DEF TypeOK
<1>2. ASSUME Finish(p), p \in Busy \/ MayCall(p)
      PROVE  Busy' = Busy \ {p}
  <2>1. pc' = [pc EXCEPT ![p] = "idle"]
    BY <1>2, FinishTypes DEF Busy
  <2> QED
    BY <1>1, <2>1 DEF Busy
<1>3. ASSUME NEW label \in Labels \ {"idle"}, Goto(p, label)
      PROVE  Busy' = Busy \cup {p}
  BY <1>1, <1>3 DEF Goto, Busy
<1>4. CASE EnqGateTry(p)
  <2>1. p \notin Busy /\ MayCall(p) /\ deqSem' = deqSem
    BY <1>4 DEF EnqGateTry, At, Busy
  <2>2. CASE enqSem > 0
    <3>1. enqSem' = enqSem - 1 /\ Busy' = Busy \cup {p}
      BY <1>3, <1>4, <2>2 DEF EnqGateTry, Labels
    <3> QED
      BY <1>1, <2>1, <3>1, BusyFinite DEF PermitsConserved
  <2>3. CASE ~(enqSem > 0)
    <3>1. enqSem' = enqSem /\ Busy' = Busy
      BY <1>2, <1>4, <2>1, <2>3 DEF EnqGateTry
    <3> QED
      BY <2>1, <3>1 DEF PermitsConserved
  <2> QED
    BY <2>2, <2>3
<1>5. CASE DeqGateTry(p)
  <2>1. p \notin Busy /\ MayCall(p) /\ enqSem' = enqSem
    BY <1>5 DEF DeqGateTry, At, Busy
  <2>2. CASE deqSem > 0
    <3>1. deqSem' = deqSem - 1 /\ Busy' = Busy \cup {p}
      BY <1>3, <1>5, <2>2 DEF DeqGateTry, Labels
    <3> QED
      BY <1>1, <2>1, <3>1, BusyFinite DEF PermitsConserved
  <2>3. CASE ~(deqSem > 0)
    <3>1. deqSem' = deqSem /\ Busy' = Busy
      BY <1>2, <1>5, <2>1, <2>3 DEF DeqGateTry
    <3> QED
      BY <2>1, <3>1 DEF PermitsConserved
  <2> QED
    BY <2>2, <2>3
<1>6. CASE PostDeq(p)
  <2>1. p \in Busy /\ deqSem' = deqSem + 1 /\ enqSem' = enqSem /\ Busy' = Busy \ {p}
    BY <1>2, <1>6 DEF PostDeq, At, Busy
  <2> QED
    BY <1>1, <2>1, BusyFinite DEF PermitsConserved
<1>7. CASE PostEnq(p)
  <2>1. p \in Busy /\ enqSem' = enqSem + 1 /\ deqSem' = deqSem /\ Busy' = Busy \ {p}
    BY <1>2, <1>7 DEF PostEnq, At, Busy
  <2> QED
    BY <1>1, <2>1, BusyFinite DEF PermitsConserved
<1>8. CASE InnerStep(p)
  <2>1. p \in Busy /\ Busy' = Busy \cup {p} /\ UNCHANGED <<enqSem, deqSem>>
    BY <1>3, <1>8 DEF InnerStep, Busy
  <2>2. Busy' = Busy
    BY <2>1
  <2> QED
    BY <2>1, <2>2 DEF PermitsConserved
<1> QED
  BY <1>4, <1>5, <1>6, <1>7, <1>8, InnerSteps DEF Step, Gates

(***************************************************************************)
(* No permit is made or lost: MaxDepth, the value ENQ_SEM is created with, *)
(* is at every moment the two semaphores plus one permit for each call in  *)
(* progress or killed, for any number of processes and calls.  Hence at    *)
(* most MaxDepth calls are past the gates and neither semaphore ever       *)
(* exceeds max_depth.                                                      *)
(***************************************************************************)
THEOREM Permits == Spec => []PermitsConserved
<1>1. Init => PermitsConserved
  <2> SUFFICES ASSUME Init PROVE PermitsConserved
    OBVIOUS
  <2>1. Busy = {} /\ enqSem = MaxDepth /\ deqSem = 0
    BY DEF Init, Busy
  <2> QED
    BY <2>1, FS_EmptySet, SizesAssumption DEF PermitsConserved
<1>2. TypeOK /\ LocalsOK /\ PermitsConserved /\ [Next]_vars => PermitsConserved'
  <2> SUFFICES ASSUME ListInv, PermitsConserved, [Next]_vars PROVE PermitsConserved'
    BY DEF ListInv
  <2>1. ASSUME NEW p \in Procs, Step(p) PROVE PermitsConserved'
    BY <2>1, PermitsStep
  <2>2. ASSUME UNCHANGED vars \/ \E p \in Procs : Crash(p) PROVE PermitsConserved'
    <3>1. UNCHANGED <<enqSem, deqSem, pc>>
      BY <2>2 DEF vars, gateVars, Crash
    <3>2. Busy' = Busy
      BY <3>1 DEF Busy
    <3> QED
      BY <3>1, <3>2 DEF PermitsConserved
  <2> QED
    BY <2>1, <2>2 DEF Next, Done
<1> QED
  BY <1>1, <1>2, TypeCorrect, PTL DEF Spec
=============================================================================
