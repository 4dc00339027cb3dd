---------------------------- MODULE ShrListQueue ----------------------------
(***************************************************************************)
(* The queue of ShrList, from the chains of ShrListChains: the semaphores  *)
(* and COUNT account for its items, a remove with a permit finds one, and  *)
(* the queue is that of AbsQueue.  At the end, the programs that never     *)
(* come to FreshAgain: those that begin with an add and a remove.          *)
(***************************************************************************)
EXTENDS ShrListChains

\* how many calls hold a permit, and how many have an item between the list and COUNT
EnqHolders == {q \in Procs : HoldsEnq(q)}
DeqHolders == {q \in Procs : HoldsDeq(q)}
Late       == {q \in Procs : Uncounted(q)}
Early      == {q \in Procs : Taken(q)}

EnqHeld == Cardinality(EnqHolders)
DeqHeld == Cardinality(DeqHolders)
Lates   == Cardinality(Late)
Earlies == Cardinality(Early)

\* the semaphores and COUNT account for the n items of the queue
Sums(n) ==
    /\ enqSem + EnqHeld + n = MaxDepth
    /\ deqSem + DeqHeld = n
    /\ count = n - Lates + Earlies

\* the accounts, with the items counted along the chain
Accounts(c) == Sums(Len(c["queue"]) - 1)

\* A set of processes that one process enters or leaves.
LEMMA Counted ==
  ASSUME NEW p \in Procs, NEW S, NEW T, S \subseteq Procs, T \subseteq Procs,
         \A q \in Procs : q # p => (q \in T <=> q \in S)
  PROVE  /\ Cardinality(S) \in Nat /\ Cardinality(T) \in Nat
         /\ (p \in T <=> p \in S) => Cardinality(T) = Cardinality(S)
         /\ p \in S /\ p \notin T => Cardinality(T) = Cardinality(S) - 1
         /\ p \notin S /\ p \in T => Cardinality(T) = Cardinality(S) + 1
<1>1. IsFiniteSet(S) /\ IsFiniteSet(T)
  BY ProcsAssumption, FS_Subset
<1>2. Cardinality(S) \in Nat /\ Cardinality(T) \in Nat
  BY <1>1, FS_CardinalityType
<1>3. (p \in T <=> p \in S) => T = S
  OBVIOUS
<1>4. p \in S /\ p \notin T => T = S \ {p}
  OBVIOUS
<1>5. p \notin S /\ p \in T => T = S \cup {p}
  OBVIOUS
<1>6. p \in S => Cardinality(S \ {p}) = Cardinality(S) - 1
  BY <1>1, FS_RemoveElement
<1>7. p \notin S => Cardinality(S \cup {p}) = Cardinality(S) + 1
  BY <1>1, FS_AddElement
<1> QED BY <1>2, <1>3, <1>4, <1>5, <1>6, <1>7

\* What the four counts become when p goes on.
LEMMA Held4 ==
  ASSUME NEW p \in Procs, OthersStay(p)
  PROVE  /\ EnqHeld \in Nat /\ DeqHeld \in Nat /\ Lates \in Nat /\ Earlies \in Nat
         /\ EnqHeld' \in Nat /\ DeqHeld' \in Nat /\ Lates' \in Nat /\ Earlies' \in Nat
         /\ (HoldsEnq(p)' <=> HoldsEnq(p)) => EnqHeld' = EnqHeld
         /\ HoldsEnq(p) /\ ~HoldsEnq(p)' => EnqHeld' = EnqHeld - 1
         /\ ~HoldsEnq(p) /\ HoldsEnq(p)' => EnqHeld' = EnqHeld + 1
         /\ (HoldsDeq(p)' <=> HoldsDeq(p)) => DeqHeld' = DeqHeld
         /\ HoldsDeq(p) /\ ~HoldsDeq(p)' => DeqHeld' = DeqHeld - 1
         /\ ~HoldsDeq(p) /\ HoldsDeq(p)' => DeqHeld' = DeqHeld + 1
         /\ (Uncounted(p)' <=> Uncounted(p)) => Lates' = Lates
         /\ Uncounted(p) /\ ~Uncounted(p)' => Lates' = Lates - 1
         /\ ~Uncounted(p) /\ Uncounted(p)' => Lates' = Lates + 1
         /\ (Taken(p)' <=> Taken(p)) => Earlies' = Earlies
         /\ Taken(p) /\ ~Taken(p)' => Earlies' = Earlies - 1
         /\ ~Taken(p) /\ Taken(p)' => Earlies' = Earlies + 1
<1>1. \A q \in Procs : q # p =>
         /\ HoldsEnq(q)' <=> HoldsEnq(q)
         /\ HoldsDeq(q)' <=> HoldsDeq(q)
         /\ Uncounted(q)' <=> Uncounted(q)
         /\ Taken(q)' <=> Taken(q)
  <2> TAKE q \in Procs
  <2> HAVE q # p
  <2>1. pc'[q] = pc[q] /\ loc'[q] = loc[q]
    BY DEF OthersStay
  <2>2. (Unlinked(q)' <=> Unlinked(q)) /\ (Uncounted(q)' <=> Uncounted(q))
    BY <2>1 DEF Unlinked, Uncounted
  <2>3. (Looking(q)' <=> Looking(q)) /\ (Taken(q)' <=> Taken(q))
    BY <2>1 DEF Looking, Taken
  <2> QED BY <2>1, <2>2, <2>3 DEF HoldsEnq, HoldsDeq
<1>2. /\ EnqHolders \subseteq Procs /\ EnqHolders' \subseteq Procs
      /\ \A q \in Procs : (q \in EnqHolders <=> HoldsEnq(q)) /\ (q \in EnqHolders' <=> HoldsEnq(q)')
  BY DEF EnqHolders
<1>3. /\ DeqHolders \subseteq Procs /\ DeqHolders' \subseteq Procs
      /\ \A q \in Procs : (q \in DeqHolders <=> HoldsDeq(q)) /\ (q \in DeqHolders' <=> HoldsDeq(q)')
  BY DEF DeqHolders
<1>4. /\ Late \subseteq Procs /\ Late' \subseteq Procs
      /\ \A q \in Procs : (q \in Late <=> Uncounted(q)) /\ (q \in Late' <=> Uncounted(q)')
  BY DEF Late
<1>5. /\ Early \subseteq Procs /\ Early' \subseteq Procs
      /\ \A q \in Procs : (q \in Early <=> Taken(q)) /\ (q \in Early' <=> Taken(q)')
  BY DEF Early
<1>6. /\ EnqHeld \in Nat /\ EnqHeld' \in Nat
      /\ (HoldsEnq(p)' <=> HoldsEnq(p)) => EnqHeld' = EnqHeld
      /\ HoldsEnq(p) /\ ~HoldsEnq(p)' => EnqHeld' = EnqHeld - 1
      /\ ~HoldsEnq(p) /\ HoldsEnq(p)' => EnqHeld' = EnqHeld + 1
  BY <1>1, <1>2, Counted DEF EnqHeld
<1>7. /\ DeqHeld \in Nat /\ DeqHeld' \in Nat
      /\ (HoldsDeq(p)' <=> HoldsDeq(p)) => DeqHeld' = DeqHeld
      /\ HoldsDeq(p) /\ ~HoldsDeq(p)' => DeqHeld' = DeqHeld - 1
      /\ ~HoldsDeq(p) /\ HoldsDeq(p)' => DeqHeld' = DeqHeld + 1
  BY <1>1, <1>3, Counted DEF DeqHeld
<1>8. /\ Lates \in Nat /\ Lates' \in Nat
      /\ (Uncounted(p)' <=> Uncounted(p)) => Lates' = Lates
      /\ Uncounted(p) /\ ~Uncounted(p)' => Lates' = Lates - 1
      /\ ~Uncounted(p) /\ Uncounted(p)' => Lates' = Lates + 1
  BY <1>1, <1>4, Counted DEF Lates
<1>9. /\ Earlies \in Nat /\ Earlies' \in Nat
      /\ (Taken(p)' <=> Taken(p)) => Earlies' = Earlies
      /\ Taken(p) /\ ~Taken(p)' => Earlies' = Earlies - 1
      /\ ~Taken(p) /\ Taken(p)' => Earlies' = Earlies + 1
  BY <1>1, <1>5, Counted DEF Earlies
<1> QED BY <1>6, <1>7, <1>8, <1>9

\* What the accounts say in the terms of the model.
LEMMA NumberIs ==
  /\ Number(HoldsEnq) = EnqHeld /\ Number(HoldsDeq) = DeqHeld
  /\ Number(Uncounted) = Lates /\ Number(Taken) = Earlies
BY DEF Number, EnqHeld, DeqHeld, Lates, Earlies, EnqHolders, DeqHolders, Late, Early

-----------------------------------------------------------------------------
(* Where a call is on its way.                                             *)

\* A step of p moves nobody else.
LEMMA StepStays ==
  ASSUME TypeOK, NEW p \in Procs, Step(p)
  PROVE  OthersStay(p)
<1>1. ASSUME NEW label, Goto(p, label), UNCHANGED loc \/ \E l : Set(p, l) PROVE OthersStay(p)
  BY <1>1, Moved
<1>2. Finish(p) => OthersStay(p)
  BY <1>1 DEF Finish
<1>3. CASE Gates(p)
  BY <1>1, <1>2, <1>3
     DEF Gates, EnqGateTry, DeqGateTry, PostDeq, PostEnq, IncCount, DecCount
<1>4. CASE Alloc(p)
  BY <1>1, <1>4 DEF Alloc, PoolGen, PoolHead, PoolTest, PoolClear, Bump, Store, memVars
<1>5. CASE RemoveFront(p)
  BY <1>1, <1>5 DEF RemoveFront, FrontTest, FrontNext, FrontCas, FrontZero
<1>6. CASE AddEnd(p)
  <2>1. CASE EndGen(p) \/ EndStore(p) \/ EndLo(p) \/ EndHi(p) \/ EndTest(p)
    BY <1>1, <2>1 DEF EndGen, EndStore, EndLo, EndHi, EndTest
  <2>2. CASE EndLink(p) \/ EndSwing(p) \/ HelpLo(p) \/ HelpHi(p) \/ HelpSwing(p)
    BY <1>1, <2>2 DEF EndLink, EndSwing, HelpLo, HelpHi, HelpSwing
  <2> QED BY <1>6, <2>1, <2>2 DEF AddEnd
<1>7. CASE FifoRemove(p)
  <2>1. CASE DeqHead(p) \/ DeqTest(p) \/ FifoGen(p) \/ FifoHead(p) \/ FifoTest(p)
    BY <1>1, <2>1 DEF DeqHead, DeqTest, FifoGen, FifoHead, FifoTest
  <2>2. CASE FifoNext(p) \/ FifoData(p)
    BY <1>1, <2>2 DEF FifoNext, FifoData
  <2> QED BY <1>7, <2>1, <2>2 DEF FifoRemove
<1> QED BY <1>3, <1>4, <1>5, <1>6, <1>7 DEF Step

\* A step that leaves p in its part of the call: before its item is linked or taken, or after.
SamePhase(p) ==
    /\ HoldsEnq(p)' <=> HoldsEnq(p)
    /\ HoldsDeq(p)' <=> HoldsDeq(p)
    /\ Uncounted(p)' <=> Uncounted(p)
    /\ Taken(p)' <=> Taken(p)

\* What an add does before its node is in the queue.
StillUnlinked(p) == Unlinked(p) /\ Unlinked(p)'
StillLooking(p)  == Looking(p) /\ (Looking(p)' \/ pc'[p] = "postDeq")
StillTaken(p)    == Taken(p) /\ Taken(p)'

\* Whatever stays on its side of the exchange stays in its phase.
LEMMA Phases ==
  ASSUME NEW p \in Procs
  PROVE  /\ StillUnlinked(p) => SamePhase(p)
         /\ Unlinked(p) /\ pc'[p] = "postEnq" => SamePhase(p)
         /\ StillLooking(p) => SamePhase(p)
         /\ StillTaken(p) => SamePhase(p)
         /\ Uncounted(p) /\ Uncounted(p)' => SamePhase(p)
<1> USE DEF SamePhase, HoldsEnq, HoldsDeq, Unlinked, Uncounted, Looking, Taken,
            PoolLabels, FrontLabels, EndLabels, FifoLabels
<1>1. StillUnlinked(p) => SamePhase(p)
  BY DEF StillUnlinked
<1>2. Unlinked(p) /\ pc'[p] = "postEnq" => SamePhase(p)
  OBVIOUS
<1>3. StillLooking(p) => SamePhase(p)
  BY DEF StillLooking
<1>4. StillTaken(p) => SamePhase(p)
  BY DEF StillTaken
<1>5. Uncounted(p) /\ Uncounted(p)' => SamePhase(p)
  OBVIOUS
<1> QED BY <1>1, <1>2, <1>3, <1>4, <1>5

\* alloc_idx_slots is called before the item is linked,
LEMMA AllocPhase ==
  ASSUME ListInv, NEW c, ChainInv(c), NEW p \in Procs, Alloc(p)
  PROVE  SamePhase(p)
<1>1. TypeOK /\ loc[p] \in Locals /\ Fronts(p)
  BY Knows
<1> USE DEF Unlinked, PoolLabels, FrontLabels, EndLabels
<1>2. CASE PoolGen(p) \/ PoolHead(p) \/ PoolClear(p)
  <2>1. pc[p] \in PoolLabels /\ pc'[p] \in PoolLabels
    BY <1>1, <1>2, Moved DEF PoolGen, PoolHead, PoolClear, At
  <2> QED BY <2>1, Phases DEF StillUnlinked
<1>3. CASE PoolTest(p)
  <2>1. pc[p] = "poolTest" /\ pc'[p] \in {"frontTest", "bump"} /\ loc'[p] = loc[p]
    BY <1>1, <1>3, Moved DEF PoolTest, At
  <2>2. loc[p].list = "free"
    BY <1>1, <2>1 DEF Fronts
  <2> QED BY <2>1, <2>2, Phases DEF StillUnlinked
<1>4. CASE Bump(p)
  <2>1. pc[p] = "bump" /\ pc'[p] \in {"store", "postEnq"}
    BY <1>1, <1>4, Moved DEF Bump, At
  <2> QED BY <2>1, Phases DEF StillUnlinked
<1>5. CASE Store(p)
  <2>1. /\ pc[p] = "store" /\ pc'[p] = "endGen"
        /\ loc'[p] = [loc[p] EXCEPT !.list = "queue"]
    BY <1>1, <1>5, Moved DEF Store, At
  <2>2. loc'[p].list = "queue"
    BY <1>1, <2>1 DEF Locals
  <2> QED BY <2>1, <2>2, Phases DEF StillUnlinked
<1> QED BY <1>2, <1>3, <1>4, <1>5 DEF Alloc

\* remove_front moves a remove on only when it takes an item from the queue,
LEMMA FrontPhase ==
  ASSUME ListInv, NEW c, ChainInv(c), NEW p \in Procs, RemoveFront(p),
         ~(Unlinks(p) /\ loc[p].list = "queue")
  PROVE  SamePhase(p)
<1>1. TypeOK /\ loc[p] \in Locals /\ loc[p].list \in {"free", "queue"}
  BY Knows DEF Lists
<1>2. CASE FrontTest(p) \/ FrontNext(p) \/ (FrontCas(p) /\ ~HeadUnchanged(p))
  <2>1. /\ pc[p] \in FrontLabels /\ pc'[p] \in FrontLabels \cup {FrontRetry(p)}
        /\ loc'[p] = loc[p] \/ loc'[p] = [loc[p] EXCEPT !.next = word[loc[p].ref].lo]
    <3>1. CASE FrontTest(p)
      BY <1>1, <3>1, Moved DEF FrontTest, At, FrontLabels
    <3>2. CASE FrontNext(p)
      BY <1>1, <3>2, Moved DEF FrontNext, At, FrontLabels
    <3>3. CASE FrontCas(p) /\ ~HeadUnchanged(p)
      BY <1>1, <3>3, Moved DEF FrontCas, At, FrontLabels
    <3> QED BY <1>2, <3>1, <3>2, <3>3
  <2>2. loc'[p].list = loc[p].list
    BY <1>1, <2>1 DEF Locals
  <2>3. CASE loc[p].list = "free"
    <3>1. Unlinked(p) /\ Unlinked(p)'
      BY <2>1, <2>2, <2>3 DEF Unlinked, PoolLabels, FrontRetry
    <3> QED BY <3>1, Phases DEF StillUnlinked
  <2>4. CASE loc[p].list = "queue"
    <3>1. Looking(p) /\ Looking(p)'
      BY <2>1, <2>2, <2>4 DEF Looking, FifoLabels, FrontRetry
    <3> QED BY <3>1, Phases DEF StillLooking
  <2> QED BY <1>1, <2>3, <2>4
<1>3. CASE FrontCas(p) /\ HeadUnchanged(p)
  <2>1. loc[p].list = "free"
    BY <1>1, <1>3 DEF Unlinks
  <2>2. /\ pc[p] = "frontCas" /\ pc'[p] = "frontZero"
        /\ loc'[p] = [loc[p] EXCEPT !.slot = loc[p].ref]
    BY <1>1, <1>3, Moved DEF FrontCas, At
  <2>3. loc'[p].list = "free"
    BY <1>1, <2>1, <2>2 DEF Locals
  <2>4. Unlinked(p) /\ Unlinked(p)'
    BY <2>1, <2>2, <2>3 DEF Unlinked, FrontLabels
  <2> QED BY <2>4, Phases DEF StillUnlinked
<1>4. CASE FrontZero(p) /\ loc[p].list = "free"
  <2>1. pc[p] = "frontZero" /\ pc'[p] = "poolClear"
    BY <1>1, <1>4, Moved DEF FrontZero, At
  <2>2. Unlinked(p) /\ Unlinked(p)'
    BY <1>4, <2>1 DEF Unlinked, PoolLabels
  <2> QED BY <2>2, Phases DEF StillUnlinked
<1>5. CASE FrontZero(p) /\ loc[p].list = "queue"
  <2>1. pc[p] = "frontZero" /\ pc'[p] = "endGen" /\ loc'[p] = [loc[p] EXCEPT !.list = "free"]
    BY <1>1, <1>5, Moved DEF FrontZero, At
  <2>2. loc'[p].list = "free"
    BY <1>1, <2>1 DEF Locals
  <2>3. Taken(p) /\ Taken(p)'
    BY <1>5, <2>1, <2>2 DEF Taken, EndLabels
  <2> QED BY <2>3, Phases DEF StillTaken
<1> QED BY <1>1, <1>2, <1>3, <1>4, <1>5 DEF RemoveFront

\* add_end moves an add on only when it links its node to the queue,
LEMMA EndPhase ==
  ASSUME ListInv, NEW c, ChainInv(c), NEW p \in Procs, AddEnd(p), pc'[p] # "abort",
         ~(Links(p) /\ loc[p].list = "queue")
  PROVE  SamePhase(p)
<1>1. TypeOK /\ loc[p] \in Locals /\ loc[p].list \in {"free", "queue"}
  BY Knows DEF Lists
<1>2. CASE EndSwing(p)
  <2>1. /\ pc[p] = "endSwing"
        /\ pc'[p] = IF loc[p].list = "queue" THEN "incCount" ELSE "decCount"
    BY <1>1, <1>2, Moved DEF EndSwing, At
  <2>2. (Uncounted(p) /\ Uncounted(p)') \/ (Taken(p) /\ Taken(p)')
    BY <1>1, <2>1 DEF Uncounted, Taken, EndLabels
  <2> QED BY <2>2, Phases DEF StillTaken
<1>3. CASE Links(p)
  <2>1. pc[p] = "endLink" /\ pc'[p] = "endSwing" /\ loc'[p] = loc[p] /\ loc[p].list = "free"
    BY <1>1, <1>3, Moved DEF Links, EndLink, At
  <2>2. Taken(p) /\ Taken(p)'
    BY <2>1 DEF Taken, EndLabels
  <2> QED BY <2>2, Phases DEF StillTaken
<1>4. CASE ~EndSwing(p) /\ ~Links(p)
  <2>1. pc[p] \in EndLabels /\ pc'[p] \in EndLabels /\ loc'[p].list = loc[p].list
    <3>1. CASE EndGen(p)
      <4>1. /\ pc[p] = "endGen" /\ pc'[p] = "endStore"
            /\ loc'[p] = [loc[p] EXCEPT !.gen = idCntr]
        BY <1>1, <3>1, Moved DEF EndGen, At
      <4> QED BY <1>1, <4>1 DEF EndLabels, Locals
    <3>2. CASE EndStore(p)
      BY <1>1, <3>2, Moved DEF EndStore, At, EndLabels
    <3>3. CASE EndLo(p)
      <4>1. /\ pc[p] = "endLo" /\ pc'[p] = "endHi"
            /\ loc'[p] = [loc[p] EXCEPT !.before.lo = tail[loc[p].list].lo]
        BY <1>1, <3>3, Moved DEF EndLo, At
      <4> QED BY <1>1, <4>1 DEF EndLabels, Locals
    <3>4. CASE EndHi(p)
      <4>1. /\ pc[p] = "endHi" /\ pc'[p] = "endTest"
            /\ loc'[p] = [loc[p] EXCEPT !.before.hi = tail[loc[p].list].hi]
        BY <1>1, <3>4, Moved DEF EndHi, At
      <4> QED BY <1>1, <4>1 DEF EndLabels, Locals
    <3>5. CASE EndTest(p)
      <4> DEFINE label == IF loc[p].before.lo = Null THEN "abort"
                          ELSE IF word[loc[p].before.lo].lo = loc[p].before.lo THEN "endLink"
                          ELSE "helpLo"
      <4>1. pc[p] = "endTest" /\ Goto(p, label) /\ UNCHANGED loc
        BY <3>5 DEF EndTest, At
      <4>2. label \in {"abort", "endLink", "helpLo"}
        OBVIOUS
      <4> HIDE DEF label
      <4>3. pc'[p] = label /\ loc'[p] = loc[p]
        BY <1>1, <4>1, Moved
      <4> QED BY <4>1, <4>2, <4>3 DEF EndLabels
    <3>6. CASE EndLink(p)
      BY <1>1, <1>4, <3>6, Moved DEF EndLink, Links, At, EndLabels
    <3>7. CASE HelpLo(p)
      <4>1. /\ pc[p] = "helpLo" /\ pc'[p] = "helpHi"
            /\ loc'[p] = [loc[p] EXCEPT !.after.lo = word[loc[p].before.lo].lo]
        BY <1>1, <3>7, Moved DEF HelpLo, At
      <4> QED BY <1>1, <4>1 DEF EndLabels, Locals
    <3>8. CASE HelpHi(p)
      <4>1. /\ pc[p] = "helpHi" /\ pc'[p] = "helpSwing"
            /\ loc'[p] = [loc[p] EXCEPT !.after.hi = word[loc[p].before.lo].hi]
        BY <1>1, <3>8, Moved DEF HelpHi, At
      <4> QED BY <1>1, <4>1 DEF EndLabels, Locals
    <3>9. CASE HelpSwing(p)
      BY <1>1, <3>9, Moved DEF HelpSwing, At, EndLabels
    <3> QED BY <1>4, <3>1, <3>2, <3>3, <3>4, <3>5, <3>6, <3>7, <3>8, <3>9 DEF AddEnd
  <2>2. (Unlinked(p) /\ Unlinked(p)') \/ (Taken(p) /\ Taken(p)')
    BY <1>1, <2>1 DEF Unlinked, Taken
  <2> QED BY <2>2, Phases DEF StillUnlinked, StillTaken
<1> QED BY <1>2, <1>3, <1>4

\* and fifo_remove leaves the call where it is.
LEMMA FifoPhase ==
  ASSUME ListInv, NEW c, ChainInv(c), NEW p \in Procs, FifoRemove(p), pc'[p] # "abort"
  PROVE  SamePhase(p)
<1>1. TypeOK /\ loc[p] \in Locals /\ Fronts(p)
  BY Knows
<1> USE DEF Looking, FifoLabels, FrontLabels
<1>2. CASE DeqHead(p) \/ DeqTest(p) \/ FifoGen(p) \/ FifoHead(p) \/ FifoTest(p)
  <2>1. pc[p] \in FifoLabels /\ pc'[p] \in FifoLabels \cup {"postDeq"}
    BY <1>1, <1>2, Moved DEF DeqHead, DeqTest, FifoGen, FifoHead, FifoTest, At
  <2> QED BY <2>1, Phases DEF StillLooking
<1>3. CASE FifoNext(p)
  <2>1. pc[p] = "fifoNext" /\ pc'[p] \in {"abort", "deqHead", "fifoData"}
    <3> DEFINE label == IF word[loc[p].ref].lo = Null THEN "deqHead" ELSE "fifoData"
    <3>1. pc[p] = "fifoNext" /\ (Goto(p, "abort") \/ Goto(p, label))
      BY <1>3 DEF FifoNext, At
    <3>2. label \in {"deqHead", "fifoData"}
      OBVIOUS
    <3> HIDE DEF label
    <3> QED BY <1>1, <3>1, <3>2, Moved
  <2> QED BY <2>1, Phases DEF StillLooking
<1>4. CASE FifoData(p)
  <2>1. /\ pc[p] = "fifoData" /\ pc'[p] \in {"deqHead", "frontTest"}
        /\ loc'[p] = [loc[p] EXCEPT !.data = val[loc[p].next]]
    <3> DEFINE label == IF val[loc[p].next] = NoItem THEN "deqHead" ELSE "frontTest"
    <3>1. pc[p] = "fifoData" /\ Goto(p, label) /\ Set(p, [loc[p] EXCEPT !.data = val[loc[p].next]])
      BY <1>4 DEF FifoData, At
    <3>2. label \in {"deqHead", "frontTest"}
      OBVIOUS
    <3> HIDE DEF label
    <3> QED BY <1>1, <3>1, <3>2, Moved
  <2>2. loc'[p].list = "queue"
    BY <1>1, <2>1 DEF Locals, Fronts
  <2> QED BY <2>1, <2>2, Phases DEF StillLooking
<1> QED BY <1>2, <1>3, <1>4 DEF FifoRemove

\* A step inside a call that neither links to the queue nor takes from it.
LEMMA InnerAccounts ==
  ASSUME ListInv, NEW p \in Procs, OthersStay(p), SamePhase(p),
         UNCHANGED <<enqSem, deqSem, count>>, NEW n \in Nat, Sums(n)
  PROVE  Sums(n)'
BY Held4 DEF SamePhase, Sums

\* The gates and the counter.
LEMMA GatesAccounts ==
  ASSUME ListInv, NEW p \in Procs, Gates(p), NEW n \in Nat, Sums(n)
  PROVE  Sums(n)'
<1>1. TypeOK /\ OthersStay(p)
  BY StepStays DEF ListInv, Step
<1>2. enqSem \in Nat /\ deqSem \in Nat /\ count \in Int /\ MaxDepth \in Nat
  BY <1>1, SizesAssumption DEF TypeOK
<1>f. Finish(p) => pc'[p] = "idle"
  BY <1>1, Moved DEF Finish
<1> USE DEF HoldsEnq, HoldsDeq, Unlinked, Uncounted, Looking, Taken,
            PoolLabels, FrontLabels, EndLabels, FifoLabels
<1>3. CASE EnqGateTry(p)
  <2>1. CASE enqSem > 0
    <3>1. /\ pc[p] = "idle" /\ pc'[p] = "poolGen"
          /\ enqSem' = enqSem - 1 /\ deqSem' = deqSem /\ count' = count
      BY <1>1, <1>3, <2>1, Moved DEF EnqGateTry, At
    <3>2. EnqHeld' = EnqHeld + 1 /\ DeqHeld' = DeqHeld /\ Lates' = Lates /\ Earlies' = Earlies
      BY <1>1, <3>1, Held4
    <3> QED BY <1>1, <1>2, <3>1, <3>2, Held4 DEF Sums
  <2>2. CASE ~(enqSem > 0)
    <3>1. pc[p] = "idle" /\ pc'[p] = "idle" /\ UNCHANGED <<enqSem, deqSem, count>>
      BY <1>3, <1>f, <2>2 DEF EnqGateTry, At
    <3> QED BY <1>1, <3>1, InnerAccounts DEF SamePhase
  <2> QED BY <2>1, <2>2
<1>4. CASE DeqGateTry(p)
  <2>1. CASE deqSem > 0
    <3>1. /\ pc[p] = "idle" /\ pc'[p] = "deqHead"
          /\ deqSem' = deqSem - 1 /\ enqSem' = enqSem /\ count' = count
      BY <1>1, <1>4, <2>1, Moved DEF DeqGateTry, At
    <3>2. DeqHeld' = DeqHeld + 1 /\ EnqHeld' = EnqHeld /\ Lates' = Lates /\ Earlies' = Earlies
      BY <1>1, <3>1, Held4
    <3> QED BY <1>1, <1>2, <3>1, <3>2, Held4 DEF Sums
  <2>2. CASE ~(deqSem > 0)
    <3>1. pc[p] = "idle" /\ pc'[p] = "idle" /\ UNCHANGED <<enqSem, deqSem, count>>
      BY <1>4, <1>f, <2>2 DEF DeqGateTry, At
    <3> QED BY <1>1, <3>1, InnerAccounts DEF SamePhase
  <2> QED BY <2>1, <2>2
<1>5. CASE PostDeq(p)
  <2>1. /\ pc[p] = "postDeq" /\ pc'[p] = "idle"
        /\ deqSem' = deqSem + 1 /\ enqSem' = enqSem /\ count' = count
    BY <1>5, <1>f DEF PostDeq, At
  <2>2. DeqHeld' = DeqHeld - 1 /\ EnqHeld' = EnqHeld /\ Lates' = Lates /\ Earlies' = Earlies
    BY <1>1, <2>1, Held4
  <2> QED BY <1>1, <1>2, <2>1, <2>2, Held4 DEF Sums
<1>6. CASE PostEnq(p)
  <2>1. /\ pc[p] = "postEnq" /\ pc'[p] = "idle"
        /\ enqSem' = enqSem + 1 /\ deqSem' = deqSem /\ count' = count
    BY <1>6, <1>f DEF PostEnq, At
  <2>2. EnqHeld' = EnqHeld - 1 /\ DeqHeld' = DeqHeld /\ Lates' = Lates /\ Earlies' = Earlies
    BY <1>1, <2>1, Held4
  <2> QED BY <1>1, <1>2, <2>1, <2>2, Held4 DEF Sums
<1>7. CASE IncCount(p)
  <2>1. /\ pc[p] = "incCount" /\ pc'[p] = "postDeq"
        /\ count' = count + 1 /\ enqSem' = enqSem /\ deqSem' = deqSem
    BY <1>1, <1>7, Moved DEF IncCount, At
  <2>2. Lates' = Lates - 1 /\ EnqHeld' = EnqHeld /\ DeqHeld' = DeqHeld /\ Earlies' = Earlies
    BY <1>1, <2>1, Held4
  <2> QED BY <1>1, <1>2, <2>1, <2>2, Held4 DEF Sums
<1>8. CASE DecCount(p)
  <2>1. /\ pc[p] = "decCount" /\ pc'[p] = "postEnq"
        /\ count' = count - 1 /\ enqSem' = enqSem /\ deqSem' = deqSem
    BY <1>1, <1>8, Moved DEF DecCount, At
  <2>2. Earlies' = Earlies - 1 /\ EnqHeld' = EnqHeld /\ DeqHeld' = DeqHeld /\ Lates' = Lates
    BY <1>1, <2>1, Held4
  <2> QED BY <1>1, <1>2, <2>1, <2>2, Held4 DEF Sums
<1> QED BY <1>3, <1>4, <1>5, <1>6, <1>7, <1>8 DEF Gates

\* An item enters the queue: an add's permit of ENQ_SEM becomes one of DEQ_SEM.
LEMMA LinkAccounts ==
  ASSUME ListInv, NEW p \in Procs, Links(p), loc[p].list = "queue", NEW n \in Nat, Sums(n)
  PROVE  Sums(n + 1)'
<1>1. TypeOK /\ OthersStay(p)
  BY StepStays DEF ListInv, Step, AddEnd, Links
<1>2. /\ pc[p] = "endLink" /\ pc'[p] = "endSwing" /\ loc'[p] = loc[p]
      /\ UNCHANGED <<enqSem, deqSem, count>>
  BY <1>1, Moved DEF Links, EndLink, At, gateVars
<1>3. enqSem \in Nat /\ deqSem \in Nat /\ count \in Int /\ MaxDepth \in Nat
  BY <1>1, SizesAssumption DEF TypeOK
<1>4. /\ EnqHeld' = EnqHeld - 1 /\ DeqHeld' = DeqHeld + 1
      /\ Lates' = Lates + 1 /\ Earlies' = Earlies
  BY <1>1, <1>2, Held4
     DEF HoldsEnq, HoldsDeq, Unlinked, Uncounted, Looking, Taken,
         PoolLabels, FrontLabels, EndLabels, FifoLabels
<1> QED BY <1>1, <1>2, <1>3, <1>4, Held4 DEF Sums

\* An item leaves the queue: a remove's permit of DEQ_SEM becomes one of ENQ_SEM.
LEMMA TakeAccounts ==
  ASSUME ListInv, NEW p \in Procs, Unlinks(p), loc[p].list = "queue", NEW n \in Nat, n >= 1, Sums(n)
  PROVE  Sums(n - 1)'
<1>1. TypeOK /\ OthersStay(p) /\ loc[p] \in Locals
  BY StepStays DEF ListInv, Step, RemoveFront, Unlinks, TypeOK
<1>2. /\ pc[p] = "frontCas" /\ pc'[p] = "frontZero"
      /\ loc'[p] = [loc[p] EXCEPT !.slot = loc[p].ref]
      /\ UNCHANGED <<enqSem, deqSem, count>>
  BY <1>1, Moved DEF Unlinks, FrontCas, At, gateVars
<1>3. enqSem \in Nat /\ deqSem \in Nat /\ count \in Int /\ MaxDepth \in Nat
  BY <1>1, SizesAssumption DEF TypeOK
<1>l. loc'[p].list = "queue"
  BY <1>1, <1>2 DEF Locals
<1>4. /\ EnqHeld' = EnqHeld + 1 /\ DeqHeld' = DeqHeld - 1
      /\ Lates' = Lates /\ Earlies' = Earlies + 1
  BY <1>1, <1>2, <1>l, Held4
     DEF HoldsEnq, HoldsDeq, Unlinked, Uncounted, Looking, Taken,
         PoolLabels, FrontLabels, EndLabels, FifoLabels
<1> QED BY <1>1, <1>2, <1>3, <1>4, Held4 DEF Sums

\* The step of a process keeps the accounts.
LEMMA StepAccounts ==
  ASSUME ListInv, NEW c, ChainInv(c), NEW p \in Procs, Step(p), Accounts(c),
         NEW d, ChainInv(d)',
         \/ Links(p) /\ d = Grown(c, p)
         \/ Unlinks(p) /\ d = Shrunk(c, p)
         \/ ~Links(p) /\ ~Unlinks(p) /\ d = c
  PROVE  Accounts(d)'
<1>1. /\ TypeOK /\ OthersStay(p) /\ loc[p] \in Locals /\ loc[p].list \in Lists
      /\ "queue" \in Lists
  BY StepStays, Knows DEF ListInv, Lists
<1>2. c \in [Lists -> Seq(Nodes)] /\ Len(c["queue"]) \in Nat /\ Len(c["queue"]) >= 1
  BY <1>1, ChainNodes DEF ChainInv
<1> DEFINE n == Len(c["queue"]) - 1
<1>3. n \in Nat /\ Sums(n)
  BY <1>2 DEF Accounts
<1>a. pc'[p] # "abort"
  BY DEF ChainInv, Fronts
<1>4. CASE Links(p) /\ loc[p].list = "queue"
  <2>1. d = Grown(c, p)
    BY <1>4 DEF Links, Unlinks, EndLink, FrontCas, At
  <2>2. d["queue"] = Append(c["queue"], loc[p].slot)
    BY <1>1, <1>2, <1>4, <2>1 DEF Grown
  <2>3. loc[p].slot \in Nodes /\ c["queue"] \in Seq(Nodes)
    BY <1>1, <1>2, <1>4, Knows DEF Links, EndLink, At, HoldsNode, HoldLabels
  <2>4. Len(d["queue"]) = Len(c["queue"]) + 1
    BY <2>2, <2>3, AppendProperties
  <2>5. Sums(n + 1)'
    BY <1>3, <1>4, LinkAccounts
  <2>6. Len(d["queue"]) - 1 = n + 1
    BY <1>2, <2>4
  <2> HIDE DEF n
  <2> QED BY <2>5, <2>6 DEF Accounts
<1>5. CASE Unlinks(p) /\ loc[p].list = "queue"
  <2>1. d = Shrunk(c, p)
    BY <1>5 DEF Links, Unlinks, EndLink, FrontCas, At
  <2>2. d["queue"] = Tail(c["queue"])
    BY <1>1, <1>2, <1>5, <2>1 DEF Shrunk
  <2>3. Len(c["queue"]) >= 2 /\ c["queue"] \in Seq(Nodes)
    BY <1>1, <1>2, <1>5, FrontTaken DEF Unlinks, FrontCas, At
  <2>4. Len(d["queue"]) = Len(c["queue"]) - 1
    BY <1>2, <2>2, <2>3
  <2>5. n >= 1 
    BY <1>2, <2>3
  <2>6. Sums(n - 1)'
    BY <1>3, <1>5, <2>5, TakeAccounts
  <2>7. Len(d["queue"]) - 1 = n - 1
    BY <1>2, <2>4
  <2> HIDE DEF n
  <2> QED BY <2>6, <2>7 DEF Accounts
<1>6. CASE ~(Links(p) /\ loc[p].list = "queue") /\ ~(Unlinks(p) /\ loc[p].list = "queue")
  <2>1. d["queue"] = c["queue"]
    BY <1>1, <1>2, <1>6 DEF Grown, Shrunk
  <2>2. CASE Gates(p)
    <3>1. Sums(n)'
      BY <1>3, <2>2, GatesAccounts
    <3> QED BY <2>1, <3>1 DEF Accounts
  <2>3. CASE ~Gates(p)
    <3>1. SamePhase(p)
      BY <1>6, <1>a, <2>3, AllocPhase, FrontPhase, EndPhase, FifoPhase DEF Step
    <3>2. UNCHANGED <<enqSem, deqSem, count>>
      <4>1. CASE Alloc(p)
        BY <4>1 DEF Alloc, PoolGen, PoolHead, PoolTest, PoolClear, Bump, Store, gateVars
      <4>2. CASE RemoveFront(p)
        BY <4>2 DEF RemoveFront, FrontTest, FrontNext, FrontCas, FrontZero, gateVars
      <4>3. CASE AddEnd(p)
        BY <4>3 DEF AddEnd, EndGen, EndStore, EndLo, EndHi, EndTest, EndLink, EndSwing,
                    HelpLo, HelpHi, HelpSwing, gateVars
      <4>4. CASE FifoRemove(p)
        BY <4>4 DEF FifoRemove, DeqHead, DeqTest, FifoGen, FifoHead, FifoTest, FifoNext,
                    FifoData, gateVars
      <4> QED BY <2>3, <4>1, <4>2, <4>3, <4>4 DEF Step
    <3>3. Sums(n)'
      BY <1>1, <1>3, <3>1, <3>2, InnerAccounts
    <3> QED BY <2>1, <3>3 DEF Accounts
  <2> QED BY <2>2, <2>3
<1> QED BY <1>4, <1>5, <1>6

\* A killed process keeps its part of the accounts.
LEMMA StillAccounts ==
  ASSUME NEW c, Accounts(c), UNCHANGED <<gateVars, pc, loc>>
  PROVE  Accounts(c)'
<1>1. /\ EnqHolders' = EnqHolders /\ DeqHolders' = DeqHolders /\ Late' = Late /\ Early' = Early
  BY DEF EnqHolders, DeqHolders, Late, Early, HoldsEnq, HoldsDeq, Unlinked, Uncounted,
         Looking, Taken
<1>2. UNCHANGED <<enqSem, deqSem, count>>
  BY DEF gateVars
<1> QED BY <1>1, <1>2 DEF Accounts, Sums, EnqHeld, DeqHeld, Lates, Earlies

\* All permits are in ENQ_SEM at first.
LEMMA FirstAccounts ==
  ASSUME Init
  PROVE  Accounts([l \in Lists |-> IF l = "free" THEN <<1>> ELSE <<2>>])
<1> DEFINE c == [l \in Lists |-> IF l = "free" THEN <<1>> ELSE <<2>>]
<1>1. Len(c["queue"]) - 1 = 0
  BY DEF Lists
<1>2. EnqHolders = {} /\ DeqHolders = {} /\ Late = {} /\ Early = {}
  BY DEF Init, EnqHolders, DeqHolders, Late, Early, HoldsEnq, HoldsDeq, Unlinked, Uncounted,
         Looking, Taken, PoolLabels, FrontLabels, EndLabels, FifoLabels
<1>3. EnqHeld = 0 /\ DeqHeld = 0 /\ Lates = 0 /\ Earlies = 0
  BY <1>2, FS_EmptySet DEF EnqHeld, DeqHeld, Lates, Earlies
<1>4. enqSem = MaxDepth /\ deqSem = 0 /\ count = 0 /\ MaxDepth \in Nat
  BY SizesAssumption DEF Init
<1>5. Sums(0)
  BY <1>3, <1>4 DEF Sums
<1> HIDE DEF c
<1>6. Accounts(c)
  BY <1>1, <1>5 DEF Accounts
<1> QED BY <1>6 DEF c

-----------------------------------------------------------------------------
(* What the accounts say.                                                  *)

\* The number of items in the queue.
LEMMA QueuedLength ==
  ASSUME ListInv, NEW c, ChainInv(c)
  PROVE  /\ Len(Queued) = Len(c["queue"]) - 1 /\ Len(Queued) \in Nat
         /\ Queued = [i \in 1..(Len(c["queue"]) - 1) |-> val[c["queue"][i + 1]]]
         /\ Chain("queue") = c["queue"]
<1> DEFINE s == c["queue"]
<1>1. /\ TypeOK /\ "queue" \in Lists
      /\ c \in [Lists -> Seq(Nodes)] /\ \A l \in Lists : Linking(c[l], l)
  BY DEF ListInv, ChainInv, Lists
<1>2. Chain("queue") = s
  BY <1>1, ChainIs
<1>3. Len(s) \in Nat /\ Len(s) >= 1 /\ \A i \in 1..Len(s) : s[i] \in Nodes
  BY <1>1, ChainNodes
<1> HIDE DEF s
<1>4. Queued = [i \in 1..(Len(s) - 1) |-> IF s[i + 1] = Null THEN NoItem ELSE val[s[i + 1]]]
  BY <1>2 DEF Queued
<1>5. \A i \in 1..(Len(s) - 1) : i + 1 \in 1..Len(s)
  BY <1>3
<1>6. \A i \in 1..(Len(s) - 1) : s[i + 1] # Null
  BY <1>3, <1>5, SizesAssumption DEF Nodes, Null
<1>7. Queued = [i \in 1..(Len(s) - 1) |-> val[s[i + 1]]]
  BY <1>4, <1>6
<1>8. Len(Queued) = Len(s) - 1
  <2> DEFINE m == Len(s) - 1
  <2>1. m \in Nat
    BY <1>3
  <2>2. \A i : Len([i2 \in 1..m |-> val[s[i2 + 1]]]) = m
    <3> HIDE DEF m
    <3> QED BY <2>1
  <2> QED BY <1>7, <2>2
<1> QED BY <1>2, <1>3, <1>7, <1>8 DEF s

\* A call that is past one of its gates and in a set of calls is counted.
LEMMA Members ==
  /\ EnqHeld \in Nat /\ DeqHeld \in Nat /\ Lates \in Nat /\ Earlies \in Nat
  /\ Lates <= DeqHeld /\ Earlies <= EnqHeld
  /\ \A p \in Procs : HoldsEnq(p) => EnqHeld >= 1
  /\ \A p \in Procs : HoldsDeq(p) => DeqHeld >= 1
  /\ \A p, q \in Procs : HoldsDeq(p) /\ HoldsDeq(q) /\ p # q => DeqHeld >= 2
<1>1. /\ IsFiniteSet(EnqHolders) /\ IsFiniteSet(DeqHolders)
      /\ IsFiniteSet(Late) /\ IsFiniteSet(Early)
  BY ProcsAssumption, FS_Subset DEF EnqHolders, DeqHolders, Late, Early
<1>2. Late \subseteq DeqHolders /\ Early \subseteq EnqHolders
  BY DEF EnqHolders, DeqHolders, Late, Early, HoldsEnq, HoldsDeq
<1>3. EnqHeld \in Nat /\ DeqHeld \in Nat /\ Lates \in Nat /\ Earlies \in Nat
  BY <1>1, FS_CardinalityType DEF EnqHeld, DeqHeld, Lates, Earlies
<1>4. Lates <= DeqHeld /\ Earlies <= EnqHeld
  BY <1>1, <1>2, FS_Subset DEF EnqHeld, DeqHeld, Lates, Earlies
<1>5. ASSUME NEW S, IsFiniteSet(S), NEW p \in S PROVE Cardinality(S) >= 1
  <2>1. Cardinality({p}) = 1
    BY FS_Singleton
  <2>2. Cardinality({p}) <= Cardinality(S)
    BY <1>5, FS_Subset
  <2>3. Cardinality(S) \in Nat
    BY <1>5, FS_CardinalityType
  <2> QED BY <2>1, <2>2, <2>3
<1>6. ASSUME NEW S, IsFiniteSet(S), NEW p \in S, NEW q \in S, p # q PROVE Cardinality(S) >= 2
  <2>1. IsFiniteSet({p}) /\ Cardinality({p}) = 1
    BY FS_Singleton
  <2>2. Cardinality({p} \cup {q}) = 2
    BY <1>6, <2>1, FS_AddElement
  <2>3. Cardinality({p} \cup {q}) <= Cardinality(S)
    BY <1>6, FS_Subset
  <2>4. Cardinality(S) \in Nat
    BY <1>6, FS_CardinalityType
  <2> QED BY <2>2, <2>3, <2>4
<1>7. \A p \in Procs : HoldsEnq(p) => EnqHeld >= 1
  BY <1>1, <1>5 DEF EnqHeld, EnqHolders
<1>8. \A p \in Procs : HoldsDeq(p) => DeqHeld >= 1
  BY <1>1, <1>5 DEF DeqHeld, DeqHolders
<1>9. \A p, q \in Procs : HoldsDeq(p) /\ HoldsDeq(q) /\ p # q => DeqHeld >= 2
  BY <1>1, <1>6 DEF DeqHeld, DeqHolders
<1> QED BY <1>3, <1>4, <1>7, <1>8, <1>9

\* The accounts along the chain are ItemsAccounted.
LEMMA AccountsHold ==
  ASSUME ListInv, NEW c, ChainInv(c), Accounts(c)
  PROVE  ItemsAccounted
<1> DEFINE n == Len(c["queue"]) - 1
<1>1. Len(Queued) = n /\ n \in Nat
  BY QueuedLength
<1>2. Sums(n)
  BY DEF Accounts
<1>3. TypeOK /\ enqSem \in Nat /\ deqSem \in Nat /\ count \in Int
  BY DEF ListInv, TypeOK
<1> HIDE DEF n
<1>4. /\ enqSem + Number(HoldsEnq) + n = MaxDepth
      /\ deqSem + Number(HoldsDeq) = n
      /\ count = n - Number(Uncounted) + Number(Taken)
  BY <1>2, NumberIs DEF Sums
<1>5. count >= deqSem
  BY <1>1, <1>2, <1>3, Members DEF Sums
<1> QED BY <1>1, <1>4, <1>5 DEF ItemsAccounted

\* A permit of DEQ_SEM means an item, and one more when the tail is behind: a head that is
\* still the head is not the tail.
LEMMA NothingHidden ==
  ASSUME ListInv, NEW c, ChainInv(c), Accounts(c)
  PROVE  EmptyOnlyIfStale
<1> SUFFICES ASSUME NEW p \in Procs, pc[p] = "deqTest", loc[p].ref = tail["queue"].lo,
                    loc[p].ref = head["queue"].lo
             PROVE  FALSE
  BY DEF EmptyOnlyIfStale
<1> DEFINE s == c["queue"]
<1>1. /\ "queue" \in Lists
      /\ c \in [Lists -> Seq(Nodes)] /\ (\A l \in Lists : Linking(c[l], l)) /\ Tails(c)
  BY DEF ChainInv, Lists
<1>2. /\ Len(s) \in Nat /\ Len(s) >= 1 /\ s[1] = head["queue"].lo /\ Last(s) = s[Len(s)]
      /\ \A i, j \in 1..Len(s) : s[i] = s[j] => i = j
  BY <1>1, ChainNodes DEF Linking
<1>3. HoldsDeq(p)
  BY DEF HoldsDeq, Looking, FifoLabels
<1>4. deqSem + DeqHeld = Len(s) - 1 /\ deqSem \in Nat
  BY DEF Accounts, Sums, ListInv, TypeOK
<1>5. Len(s) >= 2
  BY <1>2, <1>3, <1>4, Members
<1>6. tail["queue"].lo = s[1]
  BY <1>2
<1>7. tail["queue"].lo # Last(s)
  <2>1. 1 \in 1..Len(s) /\ Len(s) \in 1..Len(s) /\ 1 # Len(s)
    BY <1>2, <1>5
  <2> QED BY <1>2, <1>6, <2>1
<1>8. Lags(c, "queue")
  BY <1>1, <1>7, TailPlace
<1>9. PICK q \in Procs : pc[q] = "endSwing" /\ loc[q].list = "queue"
  BY <1>8 DEF Lags
<1>10. HoldsDeq(q) /\ q # p
  BY <1>9 DEF HoldsDeq, Uncounted
<1>11. Len(s) >= 3
  BY <1>2, <1>3, <1>4, <1>10, Members
<1>12. s[1] = s[Len(s) - 1]
  BY <1>6, <1>8 DEF Lags
<1> QED
  <2>1. 1 \in 1..Len(s) /\ Len(s) - 1 \in 1..Len(s) /\ 1 # Len(s) - 1
    BY <1>2, <1>11
  <2> QED BY <1>2, <1>12, <2>1

-----------------------------------------------------------------------------
(* The items.                                                              *)

\* the items of the adds of a run
AddItems == Procs \X (1..MaxCalls)

\* The items on the way, in the queue and given are those of this run's adds.
ItemsOK(c) ==
    /\ \A i \in 2..Len(c["queue"]) : val[c["queue"][i]] \in AddItems
    /\ \A p \in Procs :
          pc[p] \in EndLabels /\ loc[p].list = "queue" => val[loc[p].slot] \in AddItems
    /\ \A p \in Procs : Len(prologue) + Len(todo[p]) <= MaxCalls
    /\ \A p \in Procs : given[p] # NoItem => Taken(p) \/ pc[p] = "postEnq"

\* Only the values of a node that a process holds are written.
LEMMA ValueStep ==
  ASSUME ListInv, NEW p \in Procs, Step(p)
  PROVE  \/ val' = val
         \/ PoolClear(p) /\ HoldsNode(p) /\ val' = [val EXCEPT ![loc[p].slot] = NoItem]
         \/ Store(p) /\ HoldsNode(p) /\ val' = [val EXCEPT ![loc[p].slot] = NewItem(p)]
<1>1. CASE Gates(p)
  BY <1>1 DEF Gates, EnqGateTry, DeqGateTry, PostDeq, PostEnq, IncCount, DecCount, memVars
<1>2. CASE Alloc(p)
  BY <1>2 DEF Alloc, PoolGen, PoolHead, PoolTest, PoolClear, Bump, Store, memVars, At,
              HoldsNode, HoldLabels
<1>3. CASE RemoveFront(p)
  BY <1>3 DEF RemoveFront, FrontTest, FrontNext, FrontCas, FrontZero, memVars
<1>4. CASE AddEnd(p)
  BY <1>4 DEF AddEnd, EndGen, EndStore, EndLo, EndHi, EndTest, EndLink, EndSwing,
              HelpLo, HelpHi, HelpSwing, memVars
<1>5. CASE FifoRemove(p)
  BY <1>5 DEF FifoRemove, DeqHead, DeqTest, FifoGen, FifoHead, FifoTest, FifoNext, FifoData, memVars
<1> QED BY <1>1, <1>2, <1>3, <1>4, <1>5 DEF Step

\* A step keeps the calls left, or a call returns.
LEMMA CallStep ==
  ASSUME ListInv, NEW p \in Procs, Step(p)
  PROVE  \/ UNCHANGED <<callVars, given>>
         \/ UNCHANGED callVars /\ Unlinks(p) /\ loc[p].list = "queue"
              /\ given' = [given EXCEPT ![p] = loc[p].data]
         \/ Finish(p) /\ MayCall(p)
<1>1. CASE Gates(p)
  BY <1>1 DEF Gates, EnqGateTry, DeqGateTry, PostDeq, PostEnq, IncCount, DecCount, At,
              ListInv, LocalsOK
<1>2. CASE Alloc(p)
  BY <1>2 DEF Alloc, PoolGen, PoolHead, PoolTest, PoolClear, Bump, Store
<1>3. CASE RemoveFront(p)
  BY <1>3 DEF RemoveFront, FrontTest, FrontNext, FrontCas, FrontZero, Unlinks
<1>4. CASE AddEnd(p)
  BY <1>4 DEF AddEnd, EndGen, EndStore, EndLo, EndHi, EndTest, EndLink, EndSwing,
              HelpLo, HelpHi, HelpSwing
<1>5. CASE FifoRemove(p)
  BY <1>5 DEF FifoRemove, DeqHead, DeqTest, FifoGen, FifoHead, FifoTest, FifoNext, FifoData
<1> QED BY <1>1, <1>2, <1>3, <1>4, <1>5 DEF Step

\* No call is added.
LEMMA FewerCalls ==
  ASSUME ListInv, NEW p \in Procs, Step(p), NEW q \in Procs,
         Len(prologue) + Len(todo[q]) <= MaxCalls
  PROVE  Len(prologue') + Len(todo'[q]) <= MaxCalls
<1>1. CASE UNCHANGED callVars
  BY <1>1 DEF callVars
<1>2. CASE Finish(p) /\ MayCall(p)
  <2>1. prologue \in Seq(Calls) /\ todo \in [Procs -> Seq(Calls)] /\ MaxCalls \in Nat
    BY ProgramsAssumption DEF ListInv, TypeOK
  <2>2. CASE prologue # <<>>
    <3>1. prologue' = Tail(prologue) /\ todo' = todo
      BY <1>2, <2>2, Zenon DEF Finish
    <3>2. Len(Tail(prologue)) = Len(prologue) - 1 /\ Len(prologue) \in Nat /\ Len(todo[q]) \in Nat
      BY <2>1, <2>2
    <3> QED BY <2>1, <3>1, <3>2
  <2>3. CASE prologue = <<>>
    <3>1. prologue' = prologue /\ todo' = [todo EXCEPT ![p] = Tail(todo[p])] /\ todo[p] # <<>>
      BY <1>2, <2>3 DEF Finish, MayCall
    <3>2. todo[p] \in Seq(Calls) /\ todo[q] \in Seq(Calls)
      BY <2>1
    <3>3. Len(Tail(todo[p])) = Len(todo[p]) - 1 /\ Len(todo[p]) \in Nat
      BY <3>1, <3>2
    <3>4. Len(todo'[q]) <= Len(todo[q]) /\ Len(todo[q]) \in Nat /\ Len(todo'[q]) \in Nat
      <4>1. CASE q = p
        <5>1. todo'[q] = Tail(todo[p])
          BY <2>1, <3>1, <4>1
        <5> QED BY <3>3, <4>1, <5>1
      <4>2. CASE q # p
        <5>1. todo'[q] = todo[q]
          BY <2>1, <3>1, <4>2
        <5> QED BY <3>2, <5>1
      <4> QED BY <4>1, <4>2
    <3>5. Len(prologue) \in Nat
      BY <2>1
    <3> QED BY <2>1, <3>1, <3>4, <3>5
  <2> QED BY <2>2, <2>3
<1> QED BY <1>1, <1>2, CallStep

\* The item of an add is one of the run's.
LEMMA NewItemIs ==
  ASSUME ListInv, NEW p \in Procs, MayCall(p), Len(prologue) + Len(todo[p]) <= MaxCalls
  PROVE  NewItem(p) \in AddItems
<1>1. prologue \in Seq(Calls) /\ todo[p] \in Seq(Calls) /\ MaxCalls \in Nat
  BY ProgramsAssumption DEF ListInv, TypeOK
<1>2. Len(prologue) \in Nat /\ Len(todo[p]) \in Nat
  BY <1>1
<1>3. Len(prologue) + Len(todo[p]) >= 1
  <2>1. prologue # <<>> \/ todo[p] # <<>>
    BY DEF MayCall
  <2>2. CASE prologue # <<>>
    <3>1. Len(prologue) >= 1
      BY <1>1, <2>2
    <3> QED BY <1>2, <3>1
  <2>3. CASE todo[p] # <<>>
    <3>1. Len(todo[p]) >= 1
      BY <1>1, <2>3
    <3> QED BY <1>2, <3>1
  <2> QED BY <2>1, <2>2, <2>3
<1> QED BY <1>1, <1>2, <1>3 DEF NewItem, AddItems

\* Who is in add_end with an item has stored it, or was there before.
LEMMA EndEntry ==
  ASSUME ListInv, NEW c, ChainInv(c), NEW p \in Procs, Step(p),
         pc'[p] \in EndLabels, loc'[p].list = "queue"
  PROVE  \/ Store(p) /\ loc'[p].slot = loc[p].slot
         \/ /\ pc[p] \in EndLabels /\ loc[p].list = "queue" /\ loc'[p].slot = loc[p].slot
            /\ val' = val
<1>1. TypeOK /\ loc[p] \in Locals
  BY Knows
<1> USE DEF EndLabels
<1>2. ASSUME Finish(p) PROVE FALSE
  BY <1>1, <1>2, Moved DEF Finish
<1>3. CASE Gates(p)
  BY <1>1, <1>2, <1>3, Moved DEF Gates, EnqGateTry, DeqGateTry, PostDeq, PostEnq, IncCount, DecCount
<1>4. CASE Alloc(p)
  <2>1. CASE PoolGen(p) \/ PoolHead(p) \/ PoolTest(p) \/ PoolClear(p) \/ Bump(p)
    BY <1>1, <2>1, Moved DEF PoolGen, PoolHead, PoolTest, PoolClear, Bump
  <2>2. CASE Store(p)
    <3>1. loc'[p] = [loc[p] EXCEPT !.list = "queue"]
      BY <1>1, <2>2, Moved DEF Store
    <3> QED BY <1>1, <2>2, <3>1 DEF Locals
  <2> QED BY <1>4, <2>1, <2>2 DEF Alloc
<1>5. CASE RemoveFront(p)
  <2>1. CASE FrontTest(p) \/ FrontNext(p) \/ FrontCas(p)
    BY <1>1, <2>1, Moved DEF FrontTest, FrontNext, FrontCas, FrontRetry
  <2>2. CASE FrontZero(p)
    <3>1. loc[p].list = "free" \/ loc'[p] = [loc[p] EXCEPT !.list = "free"]
      BY <1>1, <2>2, Moved DEF FrontZero
    <3>2. loc[p].list = "free" => pc'[p] = "poolClear"
      BY <1>1, <2>2, Moved DEF FrontZero
    <3> QED BY <1>1, <3>1, <3>2 DEF Locals
  <2> QED BY <1>5, <2>1, <2>2 DEF RemoveFront
<1>6. CASE AddEnd(p)
  <2>0. pc[p] \in EndLabels \cup {"endSwing"} /\ val' = val
    BY <1>6 DEF AddEnd, EndGen, EndStore, EndLo, EndHi, EndTest, EndLink, EndSwing,
                HelpLo, HelpHi, HelpSwing, At, memVars
  <2>1. CASE EndSwing(p)
    BY <1>1, <2>1, Moved DEF EndSwing
  <2>2. CASE ~EndSwing(p)
    <3>1. pc[p] # "endSwing"
      BY <1>6, <2>2 DEF AddEnd, EndGen, EndStore, EndLo, EndHi, EndTest, EndLink,
                HelpLo, HelpHi, HelpSwing, At
    <3>2. \/ loc'[p] = loc[p]
          \/ loc'[p] = [loc[p] EXCEPT !.gen = idCntr]
          \/ loc'[p] = [loc[p] EXCEPT !.before.lo = tail[loc[p].list].lo]
          \/ loc'[p] = [loc[p] EXCEPT !.before.hi = tail[loc[p].list].hi]
          \/ loc'[p] = [loc[p] EXCEPT !.after.lo = word[loc[p].before.lo].lo]
          \/ loc'[p] = [loc[p] EXCEPT !.after.hi = word[loc[p].before.lo].hi]
      <4>1. ASSUME NEW l, Set(p, l) PROVE loc'[p] = l
        BY <1>1, <4>1 DEF Set, TypeOK
      <4>2. CASE EndGen(p) \/ EndLo(p) \/ EndHi(p) \/ HelpLo(p) \/ HelpHi(p)
        BY <4>1, <4>2 DEF EndGen, EndLo, EndHi, HelpLo, HelpHi
      <4>3. CASE EndStore(p) \/ EndTest(p) \/ EndLink(p) \/ HelpSwing(p)
        BY <4>3 DEF EndStore, EndTest, EndLink, HelpSwing
      <4> QED BY <1>6, <2>2, <4>2, <4>3 DEF AddEnd
    <3>3. loc'[p].slot = loc[p].slot /\ loc'[p].list = loc[p].list
      BY <1>1, <3>2 DEF Locals
    <3> QED BY <2>0, <3>1, <3>3
  <2> QED BY <2>1, <2>2
<1>7. CASE FifoRemove(p)
  <2>1. CASE DeqHead(p) \/ DeqTest(p) \/ FifoGen(p) \/ FifoHead(p) \/ FifoTest(p)
    BY <1>1, <2>1, Moved DEF DeqHead, DeqTest, FifoGen, FifoHead, FifoTest
  <2>2. CASE FifoNext(p)
    <3> DEFINE label == IF word[loc[p].ref].lo = Null THEN "deqHead" ELSE "fifoData"
    <3>1. Goto(p, "abort") \/ Goto(p, label)
      BY <2>2 DEF FifoNext
    <3>2. label \in {"deqHead", "fifoData"}
      OBVIOUS
    <3> HIDE DEF label
    <3> QED BY <1>1, <3>1, <3>2, Moved
  <2>3. CASE FifoData(p)
    <3> DEFINE label == IF val[loc[p].next] = NoItem THEN "deqHead" ELSE "frontTest"
    <3>1. Goto(p, label)
      BY <2>3 DEF FifoData
    <3>2. label \in {"deqHead", "frontTest"}
      OBVIOUS
    <3> HIDE DEF label
    <3> QED BY <1>1, <3>1, <3>2, Moved
  <2> QED BY <1>7, <2>1, <2>2, <2>3 DEF FifoRemove
<1> QED BY <1>3, <1>4, <1>5, <1>6, <1>7 DEF Step

\* A step changes no value on a chain.
LEMMA ChainValues ==
  ASSUME ListInv, NEW c, ChainInv(c), NEW p \in Procs, Step(p)
  PROVE  \A l \in Lists, n \in Nodes : OnChain(c[l], n) => val'[n] = val[n]
<1>1. HoldsNode(p) => \A l \in Lists, n \in Nodes : OnChain(c[l], n) => n # loc[p].slot
  BY DEF ChainInv, Separate
<1>2. val \in [Nodes -> Items \cup {NoItem}]
  BY DEF ListInv, TypeOK
<1> QED BY <1>1, <1>2, ValueStep

\* The part of a call that p is in.
LEMMA StepPhase ==
  ASSUME ListInv, NEW c, ChainInv(c), NEW p \in Procs, Step(p), ~Gates(p), pc'[p] # "abort",
         ~(Links(p) /\ loc[p].list = "queue"), ~(Unlinks(p) /\ loc[p].list = "queue")
  PROVE  SamePhase(p)
BY AllocPhase, FrontPhase, EndPhase, FifoPhase DEF Step

\* The step of a process keeps the items what they are.
LEMMA ItemsStep ==
  ASSUME ListInv, ListInv', NEW c, ChainInv(c), NEW p \in Procs, Step(p), ItemsOK(c),
         NEW d, ChainInv(d)',
         \/ Links(p) /\ d = Grown(c, p)
         \/ Unlinks(p) /\ d = Shrunk(c, p)
         \/ ~Links(p) /\ ~Unlinks(p) /\ d = c
  PROVE  ItemsOK(d)'
<1> DEFINE s == c["queue"]
           t == d["queue"]
<1>1. /\ TypeOK /\ OthersStay(p) /\ loc[p] \in Locals /\ loc[p].list \in Lists
      /\ "queue" \in Lists /\ pc'[p] # "abort"
  BY StepStays, Knows DEF ListInv, Lists, ChainInv, Fronts
<1>2. /\ c \in [Lists -> Seq(Nodes)] /\ s \in Seq(Nodes) /\ Len(s) \in Nat /\ Len(s) >= 1
      /\ \A i \in 1..Len(s) : s[i] \in Nodes /\ OnChain(s, s[i])
  BY <1>1, ChainNodes DEF ChainInv
<1>3. \A i \in 1..Len(s) : val'[s[i]] = val[s[i]]
  BY <1>1, <1>2, ChainValues
<1>4. \A i \in 2..Len(s) : i \in 1..Len(s) /\ val[s[i]] \in AddItems
  BY <1>2 DEF ItemsOK
<1>5. /\ Links(p) /\ loc[p].list = "queue" => t = Append(s, loc[p].slot)
      /\ Unlinks(p) /\ loc[p].list = "queue" => t = Tail(s) /\ Len(s) >= 2
      /\ loc[p].list # "queue" \/ (~Links(p) /\ ~Unlinks(p)) => t = s
  <2>1. ~(Links(p) /\ Unlinks(p))
    BY DEF Links, Unlinks, EndLink, FrontCas, At
  <2>2. /\ loc[p].list = "queue" => Grown(c, p)["queue"] = Append(s, loc[p].slot)
        /\ loc[p].list = "queue" => Shrunk(c, p)["queue"] = Tail(s)
        /\ loc[p].list # "queue" => Grown(c, p)["queue"] = s /\ Shrunk(c, p)["queue"] = s
    BY <1>1, <1>2 DEF Grown, Shrunk
  <2>3. Unlinks(p) /\ loc[p].list = "queue" => Len(s) >= 2
    BY <1>1, FrontTaken DEF Unlinks, FrontCas, At
  <2> QED BY <2>1, <2>2, <2>3
<1>6. \A i \in 2..Len(t) : val'[t[i]] \in AddItems
  <2> HIDE DEF s
  <2>1. CASE Links(p) /\ loc[p].list = "queue"
    <3> DEFINE n == loc[p].slot
    <3>1. pc[p] = "endLink" /\ val' = val /\ n \in Nodes
      BY <2>1, Knows DEF Links, EndLink, At, HoldsNode, HoldLabels
    <3>2. val'[n] \in AddItems
      BY <2>1, <3>1 DEF ItemsOK, EndLabels
    <3>3. Len(t) = Len(s) + 1 /\ t[Len(s) + 1] = n /\ \A i \in 1..Len(s) : t[i] = s[i]
      <4>1. t = Append(s, n)
        BY <1>5, <2>1
      <4> HIDE DEF t, n
      <4> QED BY <1>2, <3>1, <4>1, AppendProperties
    <3> HIDE DEF t, n
    <3>4. ASSUME NEW i \in 2..Len(t) PROVE val'[t[i]] \in AddItems
      <4>1. CASE i = Len(s) + 1
        BY <3>2, <3>3, <4>1
      <4>2. CASE i # Len(s) + 1
        <5>1. i \in 2..Len(s)
          BY <1>2, <3>3, <4>2
        <5> QED BY <5>1, <1>3, <1>4, <3>3
      <4> QED BY <4>1, <4>2
    <3> QED BY <3>4 DEF t
  <2>2. CASE Unlinks(p) /\ loc[p].list = "queue"
    <3>1. t = Tail(s) /\ Len(s) >= 2
      BY <1>5, <2>2
    <3> HIDE DEF t
    <3>2. Len(t) = Len(s) - 1 /\ \A i \in 1..Len(t) : t[i] = s[i + 1]
      BY <1>2, <3>1
    <3>3. ASSUME NEW i \in 2..Len(t) PROVE val'[t[i]] \in AddItems
      <4>1. i \in 1..Len(t) /\ i + 1 \in 2..Len(s)
        BY <1>2, <3>2
      <4> QED BY <4>1, <3>2, <1>3, <1>4
    <3> QED BY <3>3 DEF t
  <2>3. CASE loc[p].list # "queue" \/ (~Links(p) /\ ~Unlinks(p))
    <3>1. t = s
      BY <1>5, <2>3
    <3> HIDE DEF t
    <3>2. \A i \in 2..Len(t) : val'[t[i]] \in AddItems
      BY <1>3, <1>4, <3>1
    <3> QED BY <3>2 DEF t
  <2> QED BY <2>1, <2>2, <2>3
<1>7. ASSUME NEW q \in Procs, pc'[q] \in EndLabels, loc'[q].list = "queue"
      PROVE  val'[loc'[q].slot] \in AddItems
  <2>1. CASE q = p
    <3>1. CASE Store(p) /\ loc'[p].slot = loc[p].slot
      <4>1. MayCall(p) /\ loc[p].slot \in Nodes /\ val' = [val EXCEPT ![loc[p].slot] = NewItem(p)]
        BY <3>1 DEF ListInv, LocalsOK, RefersToNodes, UsesSlot, HoldLabels, Store, At
      <4>2. NewItem(p) \in AddItems
        BY <4>1, NewItemIs DEF ItemsOK
      <4>3. val'[loc[p].slot] = NewItem(p)
        BY <1>1, <4>1 DEF TypeOK
      <4> QED BY <2>1, <3>1, <4>2, <4>3
    <3>2. CASE /\ pc[p] \in EndLabels /\ loc[p].list = "queue" /\ loc'[p].slot = loc[p].slot
               /\ val' = val
      BY <2>1, <3>2 DEF ItemsOK
    <3> QED BY <2>1, <3>1, <3>2, <1>7, EndEntry
  <2>2. CASE q # p
    <3>1. pc'[q] = pc[q] /\ loc'[q] = loc[q] /\ HoldsNode(q)
      BY <1>1, <1>7, <2>2 DEF OthersStay, HoldsNode, HoldLabels, EndLabels
    <3>2. val[loc[q].slot] \in AddItems
      BY <1>7, <3>1 DEF ItemsOK
    <3>3. HoldsNode(p) => loc[p].slot # loc[q].slot
      BY <2>2, <3>1 DEF ChainInv, Separate
    <3>4. loc[q].slot \in Nodes
      BY <3>1, Knows
    <3>5. val'[loc[q].slot] = val[loc[q].slot]
      BY <1>1, <3>3, <3>4, ValueStep DEF TypeOK
    <3> QED BY <3>1, <3>2, <3>5
  <2> QED BY <2>1, <2>2
<1>8. \A q \in Procs : Len(prologue') + Len(todo'[q]) <= MaxCalls
  BY FewerCalls DEF ItemsOK
<1>9. ASSUME NEW q \in Procs, given'[q] # NoItem PROVE Taken(q)' \/ pc'[q] = "postEnq"
  <2>0. given \in [Procs -> Items \cup {NoItem}]
    BY <1>1 DEF TypeOK
  <2>1. CASE q # p
    <3>1. pc'[q] = pc[q] /\ loc'[q] = loc[q]
      BY <1>1, <2>1 DEF OthersStay
    <3>2. given'[q] = given[q]
      BY <2>0, <2>1, CallStep DEF Finish
    <3>3. Taken(q) \/ pc[q] = "postEnq"
      BY <1>9, <3>2 DEF ItemsOK
    <3> QED BY <3>1, <3>3 DEF Taken
  <2>2. CASE q = p
    <3>1. CASE Unlinks(p) /\ loc[p].list = "queue"
      <4>1. pc'[p] = "frontZero" /\ loc'[p] = [loc[p] EXCEPT !.slot = loc[p].ref]
        BY <1>1, <3>1, Moved DEF Unlinks, FrontCas
      <4>2. loc'[p].list = "queue"
        BY <1>1, <3>1, <4>1 DEF Locals
      <4> QED BY <2>2, <4>1, <4>2 DEF Taken
    <3>2. CASE Finish(p)
      BY <1>9, <2>0, <2>2, <3>2 DEF Finish
    <3>3. CASE ~Finish(p) /\ ~(Unlinks(p) /\ loc[p].list = "queue")
      <4>1. given'[p] = given[p]
        BY <3>3, CallStep
      <4>2. Taken(p) \/ pc[p] = "postEnq"
        BY <1>9, <2>2, <4>1 DEF ItemsOK
      <4>3. CASE Gates(p)
        <5>1. pc[p] \notin {"idle", "postDeq", "incCount", "postEnq"}
          <6>1. pc[p] \notin {"idle", "postDeq", "incCount"}
            BY <4>2 DEF Taken, EndLabels
          <6>2. pc[p] # "postEnq"
            BY <3>3, <4>3 DEF Gates, EnqGateTry, DeqGateTry, PostDeq, PostEnq, IncCount,
                              DecCount, At
          <6> QED BY <6>1, <6>2
        <5>2. DecCount(p)
          BY <4>3, <5>1 DEF Gates, EnqGateTry, DeqGateTry, PostDeq, PostEnq, IncCount, At
        <5> QED BY <1>1, <2>2, <5>2, Moved DEF DecCount
      <4>4. CASE ~Gates(p)
        <5>1. pc[p] # "postEnq"
          BY <4>4 DEF Step, Alloc, PoolGen, PoolHead, PoolTest, PoolClear, Bump, Store,
                      RemoveFront, FrontTest, FrontNext, FrontCas, FrontZero,
                      AddEnd, EndGen, EndStore, EndLo, EndHi, EndTest, EndLink, EndSwing,
                      HelpLo, HelpHi, HelpSwing,
                      FifoRemove, DeqHead, DeqTest, FifoGen, FifoHead, FifoTest, FifoNext,
                      FifoData, At
        <5>2. ~(Links(p) /\ loc[p].list = "queue")
          BY <4>2, <5>1 DEF Links, EndLink, At, Taken, EndLabels
        <5>3. SamePhase(p)
          BY <1>1, <3>3, <4>4, <5>2, StepPhase
        <5> QED BY <2>2, <4>2, <5>1, <5>3, SMTT(30) DEF SamePhase
      <4> QED BY <4>3, <4>4
    <3> QED BY <3>1, <3>2, <3>3
  <2> QED BY <2>1, <2>2
<1> QED BY <1>6, <1>7, <1>8, <1>9 DEF ItemsOK

-----------------------------------------------------------------------------
(* The abstract queue.                                                     *)

\* the values of the nodes after the first
ValuesOf(s, v) == [i \in 1..(Len(s) - 1) |-> v[s[i + 1]]]

\* Queued, which AbsQueue is implemented with, is the values along the chain,
LEMMA QueuedForm == \A c : ListInv /\ ChainInv(c) => Queued = ValuesOf(c["queue"], val)
BY QueuedLength DEF ValuesOf

\* and after a step.
LEMMA QueuedFormNext == (\A c : ListInv /\ ChainInv(c) => Queued = ValuesOf(c["queue"], val))'
BY QueuedForm, PTL

\* There is one value for each node behind the dummy.
LEMMA ValuesLength ==
  ASSUME NEW s \in Seq(Nodes), NEW v, Len(s) >= 1
  PROVE  /\ Len(ValuesOf(s, v)) = Len(s) - 1
         /\ \A i \in 1..(Len(s) - 1) : ValuesOf(s, v)[i] = v[s[i + 1]]
<1> DEFINE m == Len(s) - 1
<1>1. m \in Nat
  OBVIOUS
<1>2. Len([i \in 1..m |-> v[s[i + 1]]]) = m
  <2> HIDE DEF m
  <2> QED BY <1>1
<1> QED BY <1>2 DEF ValuesOf

\* A longer chain has one value more.
LEMMA ValuesGrow ==
  ASSUME NEW s \in Seq(Nodes), NEW n \in Nodes, NEW v, Len(s) >= 1
  PROVE  LET a == ValuesOf(s, v)
             b == ValuesOf(Append(s, n), v)
         IN Len(b) = Len(a) + 1 /\ SubSeq(b, 1, Len(a)) = a /\ b[Len(b)] = v[n]
<1> DEFINE a == ValuesOf(s, v)
           t == Append(s, n)
           b == ValuesOf(t, v)
           m == Len(s) - 1
<1>1. /\ t \in Seq(Nodes) /\ Len(t) = Len(s) + 1 /\ Len(s) \in Nat /\ m \in Nat
      /\ (\A i \in 1..Len(s) : t[i] = s[i]) /\ t[Len(s) + 1] = n
  BY AppendProperties
<1>2. Len(a) = m /\ \A i \in 1..m : a[i] = v[s[i + 1]]
  BY ValuesLength
<1> HIDE DEF t
<1>3. Len(b) = Len(t) - 1 /\ \A i \in 1..(Len(t) - 1) : b[i] = v[t[i + 1]]
  BY <1>1, ValuesLength
<1>4. Len(b) = m + 1
  BY <1>1, <1>3
<1>5. b[Len(b)] = v[n]
  <2>1. m + 1 \in 1..(Len(t) - 1) /\ m + 1 + 1 = Len(s) + 1
    BY <1>1
  <2> QED BY <1>1, <1>3, <1>4, <2>1
<1>6. \A i \in 1..m : b[i] = a[i]
  <2> TAKE i \in 1..m
  <2>1. i \in 1..(Len(t) - 1) /\ i + 1 \in 1..Len(s)
    BY <1>1
  <2> QED BY <1>1, <1>2, <1>3, <2>1
<1>7. SubSeq(b, 1, m) = [i \in 1..m |-> b[i]]
  <2> HIDE DEF b, m
  <2> QED BY <1>1
<1>8. a = [i \in 1..m |-> a[i]]
  BY <1>2 DEF ValuesOf
<1>9. SubSeq(b, 1, Len(a)) = a
  <2> HIDE DEF a, b, m
  <2> QED BY <1>2, <1>6, <1>7, <1>8
<1> QED BY <1>2, <1>4, <1>5, <1>9 DEF t

\* A chain without its first node has lost its first value.
LEMMA ValuesShrink ==
  ASSUME NEW s \in Seq(Nodes), NEW v, Len(s) >= 2
  PROVE  LET a == ValuesOf(s, v)
         IN a # <<>> /\ Head(a) = v[s[2]] /\ ValuesOf(Tail(s), v) = Tail(a)
<1> DEFINE a == ValuesOf(s, v)
           t == Tail(s)
           b == ValuesOf(t, v)
           m == Len(s) - 1
<1>1. /\ t \in Seq(Nodes) /\ Len(t) = m /\ Len(s) \in Nat /\ m \in Nat /\ m >= 1
      /\ \A i \in 1..m : t[i] = s[i + 1]
  OBVIOUS
<1>2. Len(a) = m /\ (\A i \in 1..m : a[i] = v[s[i + 1]]) /\ a = [i \in 1..m |-> v[s[i + 1]]]
  BY ValuesLength DEF ValuesOf
<1> HIDE DEF t
<1>3. b = [i \in 1..(m - 1) |-> v[t[i + 1]]]
  BY <1>1 DEF ValuesOf
<1> HIDE DEF a, b, m
<1>4. a # <<>>
  BY <1>1, <1>2
<1>5. Head(a) = v[s[2]]
  <2>1. 1 \in 1..m /\ Head(a) = a[1]
    BY <1>1
  <2> QED BY <1>2, <2>1
<1>6. Tail(a) = [i \in 1..(m - 1) |-> a[i + 1]]
  BY <1>1, <1>2
<1>7. \A i \in 1..(m - 1) : a[i + 1] = v[t[i + 1]]
  <2> TAKE i \in 1..(m - 1)
  <2>1. i + 1 \in 1..m
    BY <1>1
  <2> QED BY <1>1, <1>2, <2>1
<1>8. Tail(a) = b
  BY <1>3, <1>6, <1>7
<1> QED BY <1>4, <1>5, <1>8 DEF a, b, t

\* Nothing else changes the values.
LEMMA ValuesStay ==
  ASSUME NEW s \in Seq(Nodes), NEW v, NEW w, \A i \in 1..Len(s) : w[s[i]] = v[s[i]]
  PROVE  ValuesOf(s, w) = ValuesOf(s, v)
<1>1. \A i \in 1..(Len(s) - 1) : i + 1 \in 1..Len(s)
  OBVIOUS
<1> QED BY <1>1 DEF ValuesOf

\* The step of a process is a step of AbsQueue: linking to the queue puts an item, moving its
\* head gets the first one, and the end of a remove returns it.
LEMMA StepRefines ==
  ASSUME ListInv, ListInv', NEW c, ChainInv(c), Accounts(c), ItemsOK(c),
         NEW p \in Procs, Step(p), ~FreshAgain
  PROVE  [Abs!AbsNext]_(Abs!absVars)
<1> DEFINE s == c["queue"]
<1>1. /\ TypeOK /\ loc[p] \in Locals /\ loc[p].list \in Lists /\ "queue" \in Lists
      /\ given \in [Procs -> Items \cup {NoItem}]
  BY Knows DEF ListInv, Lists, TypeOK
<1>2. /\ c \in [Lists -> Seq(Nodes)] /\ s \in Seq(Nodes) /\ Len(s) \in Nat /\ Len(s) >= 1
      /\ \A i \in 1..Len(s) : s[i] \in Nodes /\ OnChain(s, s[i])
  BY <1>1, ChainNodes DEF ChainInv
<1>3. \A i \in 1..Len(s) : val'[s[i]] = val[s[i]]
  BY <1>1, <1>2, ChainValues
<1>4. Queued = ValuesOf(s, val)
  BY QueuedForm
<1>5. PICK d : /\ ChainInv(d)'
               /\ \/ Links(p) /\ d = Grown(c, p)
                  \/ Unlinks(p) /\ d = Shrunk(c, p)
                  \/ ~Links(p) /\ ~Unlinks(p) /\ d = c
  BY ProcessChains
<1>6. Queued' = ValuesOf(d["queue"], val')
  BY <1>5, QueuedFormNext
<1>v. ValuesOf(s, val') = Queued
  BY <1>2, <1>3, <1>4, ValuesStay
<1>7. CASE Links(p) /\ loc[p].list = "queue"
  <2> DEFINE n == loc[p].slot
  <2>1. pc[p] = "endLink" /\ val' = val /\ given' = given /\ n \in Nodes
    BY <1>7, Knows DEF Links, EndLink, At, HoldsNode, HoldLabels
  <2>2. val[n] \in AddItems
    BY <1>7, <2>1 DEF ItemsOK, EndLabels
  <2>3. d["queue"] = Append(s, n)
    <3>1. d = Grown(c, p)
      BY <1>5, <1>7 DEF Links, Unlinks, EndLink, FrontCas, At
    <3> QED BY <1>1, <1>2, <1>7, <3>1 DEF Grown
  <2> HIDE DEF n, s
  <2>4. Queued' = ValuesOf(Append(s, n), val)
    BY <1>6, <2>1, <2>3
  <2>5. /\ Len(Queued') = Len(Queued) + 1 /\ SubSeq(Queued', 1, Len(Queued)) = Queued
        /\ Queued'[Len(Queued')] = val[n]
    BY <1>2, <1>4, <2>1, <2>4, ValuesGrow
  <2>6. Len(Queued) + Len(<<>>) < MaxDepth
    <3>1. Len(Queued) = Len(s) - 1
      BY QueuedLength DEF s
    <3>2. HoldsEnq(p)
      BY <1>7, <2>1 DEF HoldsEnq, Unlinked, EndLabels
    <3>3. EnqHeld >= 1 /\ EnqHeld \in Nat
      BY <3>2, Members
    <3>4. enqSem + EnqHeld + (Len(s) - 1) = MaxDepth /\ enqSem \in Nat
      BY <1>1 DEF Accounts, Sums, TypeOK, s
    <3> QED BY <1>2, <3>1, <3>3, <3>4
  <2>7. Abs!Put
    BY <2>1, <2>2, <2>5, <2>6 DEF Abs!Put, Abs!HasPlace, AddItems
  <2> QED BY <2>7 DEF Abs!AbsNext
<1>8. CASE Unlinks(p) /\ loc[p].list = "queue"
  <2>1. /\ pc[p] = "frontCas" /\ HeadUnchanged(p) /\ val' = val
        /\ given' = [given EXCEPT ![p] = loc[p].data]
    BY <1>8 DEF Unlinks, FrontCas, At
  <2>2. Len(s) >= 2 /\ loc[p].ref = s[1] /\ loc[p].next = s[2]
    BY <1>1, <1>8, <2>1, FrontTaken
  <2>3. d["queue"] = Tail(s)
    <3>1. d = Shrunk(c, p)
      BY <1>5, <1>8 DEF Links, Unlinks, EndLink, FrontCas, At
    <3> QED BY <1>1, <1>2, <1>8, <3>1 DEF Shrunk
  <2>4. loc[p].data = val[s[2]]
    <3>1. Fronts(p)
      BY DEF ChainInv
    <3>2. loc[p].next = word[loc[p].ref].lo /\ loc[p].data = val[word[loc[p].ref].lo]
      BY <1>8, <2>1, <3>1 DEF Fronts, HeadUnchanged, FrontLabels
    <3> QED BY <2>2, <3>2
  <2>5. given[p] = NoItem
    BY <1>8, <2>1 DEF ItemsOK, Taken, EndLabels
  <2> HIDE DEF s
  <2>6. Queued' = ValuesOf(Tail(s), val)
    BY <1>6, <2>1, <2>3
  <2>7. Queued # <<>> /\ Head(Queued) = loc[p].data /\ Queued' = Tail(Queued)
    BY <1>2, <1>4, <2>2, <2>4, <2>6, ValuesShrink
  <2>8. Abs!Get(p)
    BY <2>1, <2>5, <2>7 DEF Abs!Get, Abs!Give
  <2> QED BY <2>8 DEF Abs!AbsNext
<1>9. CASE ~(Links(p) /\ loc[p].list = "queue") /\ ~(Unlinks(p) /\ loc[p].list = "queue")
  <2>1. d["queue"] = s
    BY <1>1, <1>2, <1>5, <1>9 DEF Grown, Shrunk
  <2>2. Queued' = Queued
    BY <1>6, <1>v, <2>1
  <2>3. given' = given \/ given' = [given EXCEPT ![p] = NoItem]
    BY <1>9, CallStep DEF Finish
  <2>4. CASE given[p] = NoItem \/ given' = given
    <3>1. given' = given
      BY <1>1, <2>3, <2>4
    <3> QED BY <2>2, <3>1 DEF Abs!absVars
  <2>5. CASE given[p] # NoItem /\ given' # given
    <3>1. Abs!Return(p)
      BY <2>2, <2>3, <2>5 DEF Abs!Return
    <3> QED BY <3>1 DEF Abs!AbsNext
  <2> QED BY <2>4, <2>5
<1> QED BY <1>7, <1>8, <1>9

-----------------------------------------------------------------------------
(* The prologue that uses the pool's first node, and what it rules out.    *)

\* the prologue begins with an add and a remove, and there is room for a third node
WarmStart ==
    /\ MaxNodes >= 3
    /\ Len(Prologue) >= 2 /\ Prologue[1] = "add" /\ Prologue[2] = "remove"

\* a node that is linked has a number
Linkers == \A p \in Procs : pc[p] = "endSwing" => loc[p].gen >= 1

\* who appends after the prologue has read a tail with a number
NoZero == prologue = <<>> => \A p \in Procs : pc[p] \in Informed => loc[p].before.hi # 0

\* Opener's first call: it adds an item in a new node
FirstAdd ==
    LET here == pc[Opener]
        l    == loc[Opener]
    IN /\ prologue = Prologue
       /\ tail["free"] = head["free"]
       /\ here \in {"idle", "poolGen", "poolHead", "poolTest", "bump", "store"}
                     \cup EndLabels \cup {"endSwing", "incCount", "postDeq"}
       /\ here = "idle" => enqSem = MaxDepth
       /\ here \in {"idle", "poolGen", "poolHead", "poolTest", "bump"} => dataAlloc = 3
       /\ here = "poolTest" => l.ref = head["free"].lo
       /\ here \in EndLabels \cup {"endSwing"} => l.list = "queue"

\* its second: it takes the item and appends the queue's dummy to the pool
FirstRemove ==
    LET here == pc[Opener]
        l    == loc[Opener]
    IN /\ prologue = Tail(Prologue)
       /\ here \in {"idle", "frontZero", "endSwing"} \cup FifoLabels \cup FrontLabels \cup EndLabels
       /\ here = "idle" => deqSem >= 1
       /\ here = "deqTest" => l.ref = head["queue"].lo
       /\ here \in FrontLabels \cup {"frontZero"} => l.list = "queue"
       /\ here \in EndLabels \cup {"endSwing"} => l.list = "free"
       /\ here = "endSwing" => tail["free"] = l.before

\* either the pool's tail has a number, or Opener is at one of its first two calls, alone
Warm == Linkers /\ NoZero /\ (tail["free"].hi # 0 \/ FirstAdd \/ FirstRemove)

\* Only a process with a call left takes a step,
LEMMA Caller ==
  ASSUME ListInv, NEW p \in Procs, Step(p)
  PROVE  MayCall(p)
<1>1. pc[p] # "idle" => MayCall(p)
  BY DEF ListInv, LocalsOK
<1>2. Gates(p) => MayCall(p)
  BY <1>1 DEF Gates, EnqGateTry, DeqGateTry, PostDeq, PostEnq, IncCount, DecCount, At
<1>3. ~Gates(p) => pc[p] # "idle"
  BY DEF Step, Alloc, PoolGen, PoolHead, PoolTest, PoolClear, Bump, Store,
         RemoveFront, FrontTest, FrontNext, FrontCas, FrontZero,
         AddEnd, EndGen, EndStore, EndLo, EndHi, EndTest, EndLink, EndSwing,
         HelpLo, HelpHi, HelpSwing,
         FifoRemove, DeqHead, DeqTest, FifoGen, FifoHead, FifoTest, FifoNext, FifoData, At
<1> QED BY <1>1, <1>2, <1>3

\* so nobody meets a node again that was in generation 0.
LEMMA WarmNotFresh ==
  ASSUME ListInv, Warm
  PROVE  ~FreshAgain
<1> SUFFICES ASSUME NEW p \in Procs, NEW q \in Procs, pc[p] = "endLink", pc[q] = "endStore",
                    loc[p].before = W(loc[q].slot, 0)
             PROVE  FALSE
  BY DEF FreshAgain
<1>1. loc[p].before.hi = 0 /\ pc[p] \in Informed
  BY DEF W, Informed
<1>2. prologue # <<>>
  BY <1>1 DEF Warm, NoZero
<1>3. MayCall(p) /\ MayCall(q)
  BY DEF ListInv, LocalsOK
<1> QED BY <1>2, <1>3 DEF MayCall

\* The tail is moved by the CAS of endSwing and helpSwing only.
LEMMA TailStep ==
  ASSUME ListInv, NEW p \in Procs, Step(p)
  PROVE  \/ tail' = tail
         \/ /\ pc[p] \in {"endSwing", "helpSwing"} /\ tail[loc[p].list] = loc[p].before
            /\ pc[p] = "endSwing" => tail' = [tail EXCEPT ![loc[p].list] = Linked(p)]
            /\ pc[p] = "helpSwing" => tail' = [tail EXCEPT ![loc[p].list] = loc[p].after]
<1>1. CASE Gates(p)
  BY <1>1 DEF Gates, EnqGateTry, DeqGateTry, PostDeq, PostEnq, IncCount, DecCount, memVars
<1>2. CASE Alloc(p)
  BY <1>2 DEF Alloc, PoolGen, PoolHead, PoolTest, PoolClear, Bump, Store, memVars
<1>3. CASE RemoveFront(p)
  BY <1>3 DEF RemoveFront, FrontTest, FrontNext, FrontCas, FrontZero, memVars
<1>4. CASE AddEnd(p)
  BY <1>4 DEF AddEnd, EndGen, EndStore, EndLo, EndHi, EndTest, EndLink, EndSwing,
              HelpLo, HelpHi, HelpSwing, memVars, SwingTail, At
<1>5. CASE FifoRemove(p)
  BY <1>5 DEF FifoRemove, DeqHead, DeqTest, FifoGen, FifoHead, FifoTest, FifoNext, FifoData, memVars
<1> QED BY <1>1, <1>2, <1>3, <1>4, <1>5 DEF Step

\* A tail that is swung has a number.
LEMMA SwingNumber ==
  ASSUME ListInv, NEW c, ChainInv(c), Linkers, NEW p \in Procs, Step(p), NEW l \in Lists,
         tail'[l] # tail[l]
  PROVE  tail'[l].hi # 0
<1>1. /\ pc[p] \in {"endSwing", "helpSwing"} /\ tail[loc[p].list] = loc[p].before
      /\ pc[p] = "endSwing" => tail' = [tail EXCEPT ![loc[p].list] = Linked(p)]
      /\ pc[p] = "helpSwing" => tail' = [tail EXCEPT ![loc[p].list] = loc[p].after]
  BY TailStep
<1>2. tail \in [Lists -> Word] /\ loc[p].list \in Lists
  BY Knows DEF ListInv, TypeOK
<1>3. l = loc[p].list
  BY <1>1, <1>2
<1>4. Lags(c, l) /\ tail'[l] = word[Last(c[l])]
  BY <1>1, <1>2, <1>3, SwingTarget
<1>5. PICK q \in Procs : pc[q] = "endSwing" /\ loc[q].list = l /\ loc[q].before = tail[l]
  BY <1>4 DEF Lags
<1>6. Linked(q) = word[Last(c[l])]
  BY <1>5, SwingTarget
<1>7. loc[q].gen >= 1 /\ loc[q].gen \in Nat
  BY <1>5, Knows DEF Linkers, Locals
<1> QED BY <1>4, <1>6, <1>7 DEF Linked, W

\* Who has read both halves of the tail read them at EndHi.
LEMMA InformedStep ==
  ASSUME ListInv, NEW c, ChainInv(c), NEW p \in Procs, Step(p), pc'[p] \in Informed
  PROVE  \/ pc[p] \in Informed /\ loc'[p].before = loc[p].before
         \/ EndHi(p) /\ loc'[p].before.hi = tail[loc[p].list].hi
<1>1. TypeOK /\ loc[p] \in Locals
  BY Knows
<1> USE DEF Informed
<1>2. ASSUME Finish(p) PROVE FALSE
  BY <1>1, <1>2, Moved DEF Finish
<1>3. CASE Gates(p)
  BY <1>1, <1>2, <1>3, Moved DEF Gates, EnqGateTry, DeqGateTry, PostDeq, PostEnq, IncCount, DecCount
<1>4. CASE Alloc(p)
  BY <1>1, <1>4, Moved DEF Alloc, PoolGen, PoolHead, PoolTest, PoolClear, Bump, Store
<1>5. CASE RemoveFront(p)
  BY <1>1, <1>5, Moved DEF RemoveFront, FrontTest, FrontNext, FrontCas, FrontZero, FrontRetry
<1>6. CASE AddEnd(p)
  <2>1. CASE EndGen(p) \/ EndStore(p) \/ EndLo(p) \/ EndSwing(p) \/ HelpSwing(p)
    BY <1>1, <2>1, Moved DEF EndGen, EndStore, EndLo, EndSwing, HelpSwing
  <2>2. CASE EndHi(p)
    <3>1. loc'[p] = [loc[p] EXCEPT !.before.hi = tail[loc[p].list].hi]
      BY <1>1, <2>2, Moved DEF EndHi
    <3>2. loc'[p].before.hi = tail[loc[p].list].hi
      BY <1>1, <3>1 DEF Locals, Word
    <3> QED BY <2>2, <3>2
  <2>3. CASE EndTest(p) \/ EndLink(p)
    <3>1. pc[p] \in {"endTest", "endLink"} /\ loc' = loc
      BY <2>3 DEF EndTest, EndLink, At
    <3> QED BY <3>1
  <2>4. CASE HelpLo(p)
    <3>1. pc[p] = "helpLo" /\ loc'[p] = [loc[p] EXCEPT !.after.lo = word[loc[p].before.lo].lo]
      BY <1>1, <2>4, Moved DEF HelpLo, At
    <3> QED BY <1>1, <3>1 DEF Locals
  <2>5. CASE HelpHi(p)
    <3>1. pc[p] = "helpHi" /\ loc'[p] = [loc[p] EXCEPT !.after.hi = word[loc[p].before.lo].hi]
      BY <1>1, <2>5, Moved DEF HelpHi, At
    <3> QED BY <1>1, <3>1 DEF Locals
  <2> QED BY <1>6, <2>1, <2>2, <2>3, <2>4, <2>5 DEF AddEnd
<1>7. CASE FifoRemove(p)
  <2>1. CASE DeqHead(p) \/ DeqTest(p) \/ FifoGen(p) \/ FifoHead(p) \/ FifoTest(p)
    BY <1>1, <2>1, Moved DEF DeqHead, DeqTest, FifoGen, FifoHead, FifoTest
  <2>2. CASE FifoNext(p)
    <3> DEFINE label == IF word[loc[p].ref].lo = Null THEN "deqHead" ELSE "fifoData"
    <3>1. Goto(p, "abort") \/ Goto(p, label)
      BY <2>2 DEF FifoNext
    <3>2. label \in {"deqHead", "fifoData"}
      OBVIOUS
    <3> HIDE DEF label
    <3> QED BY <1>1, <3>1, <3>2, Moved
  <2>3. CASE FifoData(p)
    <3> DEFINE label == IF val[loc[p].next] = NoItem THEN "deqHead" ELSE "frontTest"
    <3>1. Goto(p, label)
      BY <2>3 DEF FifoData
    <3>2. label \in {"deqHead", "frontTest"}
      OBVIOUS
    <3> HIDE DEF label
    <3> QED BY <1>1, <3>1, <3>2, Moved
  <2> QED BY <1>7, <2>1, <2>2, <2>3 DEF FifoRemove
<1> QED BY <1>3, <1>4, <1>5, <1>6, <1>7 DEF Step

\* The first two calls of the prologue.
LEMMA TwoCalls ==
  ASSUME WarmStart
  PROVE  /\ Prologue # <<>> /\ Tail(Prologue) # <<>>
         /\ Head(Prologue) = "add" /\ Head(Tail(Prologue)) = "remove"
<1> DEFINE s == Prologue
<1>1. s \in Seq(Calls) /\ Len(s) \in Nat /\ Len(s) >= 2 /\ s[1] = "add" /\ s[2] = "remove"
  BY ProgramsAssumption DEF WarmStart
<1> HIDE DEF s
<1>2. ASSUME NEW x \in Seq(Calls), Len(x) >= 1 PROVE x # <<>>
  BY <1>2
<1>3. s # <<>>
  BY <1>1, <1>2
<1>4. Tail(s) \in Seq(Calls) /\ Len(Tail(s)) >= 1 /\ Tail(s)[1] = s[2]
  BY <1>1, <1>3
<1>5. Tail(s) # <<>>
  BY <1>2, <1>4
<1>6. Head(s) = s[1] /\ Head(Tail(s)) = Tail(s)[1]
  BY <1>1, <1>4
<1> QED BY <1>1, <1>3, <1>4, <1>5, <1>6 DEF s

\* Where a process that has read the tail goes on.
LEMMA AtInformed ==
  ASSUME NEW p \in Procs, Step(p), pc[p] \in Informed
  PROVE  EndTest(p) \/ EndLink(p) \/ EndSwing(p) \/ HelpLo(p) \/ HelpHi(p) \/ HelpSwing(p)
<1> USE DEF Informed
<1>1. ~Gates(p)
  BY DEF Gates, EnqGateTry, DeqGateTry, PostDeq, PostEnq, IncCount, DecCount, At
<1>2. ~Alloc(p)
  BY DEF Alloc, PoolGen, PoolHead, PoolTest, PoolClear, Bump, Store, At
<1>3. ~RemoveFront(p)
  BY DEF RemoveFront, FrontTest, FrontNext, FrontCas, FrontZero, At
<1>4. ~FifoRemove(p)
  BY DEF FifoRemove, DeqHead, DeqTest, FifoGen, FifoHead, FifoTest, FifoNext, FifoData, At
<1>5. ~EndGen(p) /\ ~EndStore(p) /\ ~EndLo(p) /\ ~EndHi(p)
  BY DEF EndGen, EndStore, EndLo, EndHi, At
<1> QED BY <1>1, <1>2, <1>3, <1>4, <1>5 DEF Step, AddEnd

\* A node is linked with the number it has.
LEMMA LinkersStep ==
  ASSUME ListInv, NEW c, ChainInv(c), Linkers, NEW p \in Procs, Step(p)
  PROVE  Linkers'
<1> SUFFICES ASSUME NEW q \in Procs, pc'[q] = "endSwing" PROVE loc'[q].gen >= 1
  BY DEF Linkers
<1>0. TypeOK /\ loc[p] \in Locals
  BY Knows
<1>1. CASE q # p
  BY <1>0, <1>1, StepStays DEF OthersStay, Linkers
<1>2. CASE q = p
  <2>1. pc[p] \in Informed \/ EndHi(p)
    BY <1>2, InformedStep DEF Informed
  <2>2. ~EndHi(p)
    BY <1>0, <1>2, Moved DEF EndHi
  <2>3. EndTest(p) \/ EndLink(p) \/ EndSwing(p) \/ HelpLo(p) \/ HelpHi(p) \/ HelpSwing(p)
    BY <2>1, <2>2, AtInformed
  <2>4. CASE EndTest(p)
    <3> DEFINE label == IF loc[p].before.lo = Null THEN "abort"
                        ELSE IF word[loc[p].before.lo].lo = loc[p].before.lo
                             THEN "endLink" ELSE "helpLo"
    <3>1. Goto(p, label)
      BY <2>4 DEF EndTest
    <3>2. label \in {"abort", "endLink", "helpLo"}
      OBVIOUS
    <3> HIDE DEF label
    <3> QED BY <1>0, <1>2, <3>1, <3>2, Moved
  <2>5. CASE EndLink(p)
    <3>1. pc[p] = "endLink" /\ loc' = loc
      BY <2>5 DEF EndLink, At
    <3>2. loc[p].gen >= 1
      BY <3>1 DEF ChainInv, Numbers, Numbered
    <3> QED BY <1>2, <3>1, <3>2
  <2>6. CASE EndSwing(p)
    <3> DEFINE label == IF loc[p].list = "queue" THEN "incCount" ELSE "decCount"
    <3>1. Goto(p, label)
      BY <2>6 DEF EndSwing
    <3>2. label \in {"incCount", "decCount"}
      OBVIOUS
    <3> HIDE DEF label
    <3> QED BY <1>0, <1>2, <3>1, <3>2, Moved
  <2>7. CASE HelpLo(p) \/ HelpHi(p) \/ HelpSwing(p)
    BY <1>0, <1>2, <2>7, Moved DEF HelpLo, HelpHi, HelpSwing
  <2> QED BY <2>3, <2>4, <2>5, <2>6, <2>7
<1> QED BY <1>1, <1>2

\* After the prologue both tails have a number.
LEMMA TailNumber ==
  ASSUME ListInv, NEW c, ChainInv(c), WarmStart, Warm, prologue = <<>>, NEW l \in Lists
  PROVE  tail[l].hi # 0
<1>1. CASE l = "free"
  <2>1. Prologue # <<>> /\ Tail(Prologue) # <<>>
    BY TwoCalls
  <2>2. ~FirstAdd /\ ~FirstRemove
    BY <2>1 DEF FirstAdd, FirstRemove
  <2> QED BY <1>1, <2>2 DEF Warm
<1>2. CASE l = "queue"
  <2>1. SUFFICES ASSUME tail[l].hi = 0 PROVE FALSE
    OBVIOUS
  <2>2. Known(c, l, 0)
    BY <2>1 DEF ChainInv, Generations
  <2> QED BY <1>2, <2>2 DEF Known, Issued
<1> QED BY <1>1, <1>2 DEF Lists

\* So whoever appends after the prologue has read a number.
LEMMA NoZeroStep ==
  ASSUME ListInv, NEW c, ChainInv(c), WarmStart, Warm, NEW p \in Procs, Step(p)
  PROVE  NoZero'
<1> SUFFICES ASSUME prologue' = <<>>, NEW q \in Procs, pc'[q] \in Informed
             PROVE  loc'[q].before.hi # 0
  BY DEF NoZero
<1>0. TypeOK /\ loc[p] \in Locals /\ loc[p].list \in Lists
  BY Knows
<1>1. OthersStay(p)
  BY <1>0, StepStays
<1>2. CASE prologue # <<>>
  <2>1. Finish(p) /\ MayCall(p)
    BY <1>2, CallStep DEF callVars
  <2>2. p = Opener /\ pc'[p] = "idle"
    BY <1>0, <1>2, <2>1, Moved DEF MayCall, Finish
  <2>3. q # p
    BY <2>2 DEF Informed
  <2>4. pc[q] # "idle"
    BY <1>1, <2>3 DEF OthersStay, Informed
  <2>5. MayCall(q)
    BY <2>4 DEF ListInv, LocalsOK
  <2> QED BY <1>2, <2>2, <2>3, <2>5 DEF MayCall
<1>3. CASE prologue = <<>> /\ q # p
  <2>1. pc[q] \in Informed /\ loc'[q] = loc[q]
    BY <1>1, <1>3 DEF OthersStay
  <2> QED BY <1>3, <2>1 DEF Warm, NoZero
<1>4. CASE prologue = <<>> /\ q = p
  <2>1. CASE pc[p] \in Informed /\ loc'[p].before = loc[p].before
    BY <1>4, <2>1 DEF Warm, NoZero
  <2>2. CASE loc'[p].before.hi = tail[loc[p].list].hi
    BY <1>0, <1>4, <2>2, TailNumber
  <2> QED BY <1>4, <2>1, <2>2, InformedStep
<1> QED BY <1>2, <1>3, <1>4

\* At first Opener is before its first call.
LEMMA WarmInit ==
  ASSUME WarmStart, Init
  PROVE  Warm
<1>1. \A p \in Procs : pc[p] = "idle"
  BY DEF Init
<1>2. /\ prologue = Prologue /\ tail = head /\ enqSem = MaxDepth /\ dataAlloc = 3
      /\ pc[Opener] = "idle"
  BY ProcsAssumption DEF Init
<1>3. Linkers /\ NoZero
  BY <1>1 DEF Linkers, NoZero, Informed
<1>4. FirstAdd
  BY <1>2 DEF FirstAdd, EndLabels
<1> QED BY <1>3, <1>4 DEF Warm

\* Where add_end goes on.
LEMMA EndGoes ==
  ASSUME ListInv, NEW c, ChainInv(c), NEW p \in Procs, AddEnd(p), pc'[p] # "abort"
  PROVE  /\ pc[p] \in EndLabels \cup {"endSwing"} /\ loc'[p].list = loc[p].list
         /\ UNCHANGED <<head, prologue>>
         /\ \/ pc'[p] \in EndLabels \cup {"endSwing"}
            \/ /\ pc[p] = "endSwing"
               /\ pc'[p] = IF loc[p].list = "queue" THEN "incCount" ELSE "decCount"
         /\ pc'[p] = "endSwing" =>
               EndLink(p) /\ word[loc[p].before.lo] = loc[p].before /\ loc' = loc
<1>0. TypeOK /\ loc[p] \in Locals
  BY Knows
<1> USE DEF EndLabels, At, callVars, memVars
<1>1. CASE EndGen(p)
  BY <1>0, <1>1, Moved DEF EndGen, Locals
<1>2. CASE EndStore(p)
  BY <1>0, <1>2, Moved DEF EndStore
<1>3. CASE EndLo(p)
  BY <1>0, <1>3, Moved DEF EndLo, Locals
<1>4. CASE EndHi(p)
  BY <1>0, <1>4, Moved DEF EndHi, Locals
<1>5. CASE EndTest(p)
  <2> DEFINE label == IF loc[p].before.lo = Null THEN "abort"
                      ELSE IF word[loc[p].before.lo].lo = loc[p].before.lo
                           THEN "endLink" ELSE "helpLo"
  <2>1. Goto(p, label) /\ UNCHANGED <<memVars, callVars, loc>> /\ pc[p] = "endTest"
    BY <1>5 DEF EndTest
  <2>2. label \in {"abort", "endLink", "helpLo"}
    OBVIOUS
  <2> HIDE DEF label
  <2> QED BY <1>0, <2>1, <2>2, Moved
<1>6. CASE EndLink(p) /\ word[loc[p].before.lo] = loc[p].before
  BY <1>0, <1>6, Moved DEF EndLink
<1>7. CASE EndLink(p) /\ word[loc[p].before.lo] # loc[p].before
  BY <1>0, <1>7, Moved DEF EndLink
<1>8. CASE EndSwing(p)
  <2> DEFINE label == IF loc[p].list = "queue" THEN "incCount" ELSE "decCount"
  <2>1. Goto(p, label) /\ UNCHANGED <<head, callVars, loc>> /\ pc[p] = "endSwing"
    BY <1>8 DEF EndSwing
  <2>2. label \in {"incCount", "decCount"}
    OBVIOUS
  <2>3. pc'[p] = label
    BY <1>0, <2>1, Moved
  <2> HIDE DEF label
  <2> QED BY <2>1, <2>2, <2>3 DEF label
<1>9. CASE HelpLo(p)
  BY <1>0, <1>9, Moved DEF HelpLo, Locals
<1>10. CASE HelpHi(p)
  BY <1>0, <1>10, Moved DEF HelpHi, Locals
<1>11. CASE HelpSwing(p)
  BY <1>0, <1>11, Moved DEF HelpSwing
<1> QED BY <1>1, <1>2, <1>3, <1>4, <1>5, <1>6, <1>7, <1>8, <1>9, <1>10, <1>11 DEF AddEnd

\* The first call goes through its labels to the second.
LEMMA FirstAddStep ==
  ASSUME ListInv, NEW c, ChainInv(c), WarmStart, FirstAdd, NEW p \in Procs, Step(p),
         pc'[p] # "abort", tail'["free"] = tail["free"]
  PROVE  FirstAdd' \/ FirstRemove'
<1>0. TypeOK /\ loc[p] \in Locals
  BY Knows
<1>1. prologue = Prologue /\ prologue # <<>> /\ MayCall(p)
  BY Caller, TwoCalls DEF FirstAdd
<1>2. p = Opener /\ Call(p) = "add"
  BY <1>1, TwoCalls DEF MayCall, Call
<1>3. /\ tail["free"] = head["free"]
      /\ pc[p] \in {"idle", "poolGen", "poolHead", "poolTest", "bump", "store"}
                     \cup EndLabels \cup {"endSwing", "incCount", "postDeq"}
      /\ pc[p] = "idle" => enqSem = MaxDepth
      /\ pc[p] \in {"idle", "poolGen", "poolHead", "poolTest", "bump"} => dataAlloc = 3
      /\ pc[p] = "poolTest" => loc[p].ref = head["free"].lo
      /\ pc[p] \in EndLabels \cup {"endSwing"} => loc[p].list = "queue"
  BY <1>2 DEF FirstAdd
<1> DEFINE Goes(label) ==
      /\ pc'[p] = label
      /\ prologue' = prologue /\ head' = head
      /\ label \in {"poolGen", "poolHead", "poolTest", "bump", "store"}
                     \cup EndLabels \cup {"endSwing", "incCount", "postDeq"}
      /\ label \in {"poolGen", "poolHead", "poolTest", "bump"} => dataAlloc' = 3
      /\ label = "poolTest" => loc'[p].ref = head["free"].lo
      /\ label \in EndLabels \cup {"endSwing"} => loc'[p].list = "queue"
<1>4. ASSUME NEW label, Goes(label) PROVE FirstAdd'
  BY <1>1, <1>2, <1>3, <1>4 DEF FirstAdd, EndLabels
<1>5. CASE EnqGateTry(p)
  <2>1. enqSem > 0
    BY <1>3, <1>5, SizesAssumption DEF EnqGateTry, At
  <2>2. /\ pc'[p] = "poolGen" /\ prologue' = prologue /\ head' = head /\ dataAlloc' = 3
    BY <1>0, <1>3, <1>5, <2>1, Moved DEF EnqGateTry, At, callVars, memVars
  <2>3. Goes("poolGen")
    BY <2>2 DEF EndLabels
  <2> QED BY <1>4, <2>3
<1>6. CASE PostDeq(p)
  <2>1. /\ Finish(p) /\ deqSem' = deqSem + 1
    BY <1>6 DEF PostDeq
  <2>2. pc'[p] = "idle" /\ prologue' = Tail(Prologue)
    BY <1>0, <1>1, <2>1, Moved DEF Finish
  <2>3. deqSem' >= 1
    BY <1>0, <2>1 DEF TypeOK
  <2> QED BY <1>2, <2>2, <2>3 DEF FirstRemove, FrontLabels, EndLabels
<1>7. CASE IncCount(p)
  <2>1. pc'[p] = "postDeq" /\ prologue' = prologue /\ head' = head
    BY <1>0, <1>7, Moved DEF IncCount, callVars, memVars
  <2>2. Goes("postDeq")
    BY <2>1 DEF EndLabels
  <2> QED BY <1>4, <2>2
<1>8. ~DeqGateTry(p) /\ ~PostEnq(p) /\ ~DecCount(p)
  BY <1>2, <1>3 DEF DeqGateTry, PostEnq, DecCount, At, EndLabels
<1>9. ~RemoveFront(p) /\ ~FifoRemove(p) /\ ~PoolClear(p)
  BY <1>3 DEF RemoveFront, FrontTest, FrontNext, FrontCas, FrontZero, EndLabels,
       FifoRemove, DeqHead, DeqTest, FifoGen, FifoHead, FifoTest, FifoNext, FifoData, At, PoolClear
<1>10. CASE PoolGen(p)
  <2>1. pc'[p] = "poolHead" /\ prologue' = prologue /\ head' = head /\ dataAlloc' = 3
    BY <1>0, <1>3, <1>10, Moved DEF PoolGen, At, callVars, memVars
  <2>2. Goes("poolHead")
    BY <2>1 DEF EndLabels
  <2> QED BY <1>4, <2>2
<1>11. CASE PoolHead(p)
  <2>1. /\ pc'[p] = "poolTest" /\ prologue' = prologue /\ head' = head /\ dataAlloc' = 3
        /\ loc'[p] = [loc[p] EXCEPT !.ref = head["free"].lo]
    BY <1>0, <1>3, <1>11, Moved DEF PoolHead, At, callVars, memVars
  <2>2. Goes("poolTest")
    BY <1>0, <2>1 DEF EndLabels, Locals
  <2> QED BY <1>4, <2>2
<1>12. CASE PoolTest(p)
  <2>1. loc[p].ref = tail["free"].lo /\ dataAlloc = 3
    BY <1>3, <1>12 DEF PoolTest, At
  <2>2. Goto(p, "bump")
    BY <1>12, <2>1 DEF PoolTest
  <2>3. pc'[p] = "bump" /\ prologue' = prologue /\ head' = head /\ dataAlloc' = 3
    BY <1>0, <1>12, <2>1, <2>2, Moved DEF PoolTest, callVars, memVars
  <2>4. Goes("bump")
    BY <2>3 DEF EndLabels
  <2> QED BY <1>4, <2>4
<1>13. CASE Bump(p)
  <2>1. dataAlloc <= MaxNodes
    BY <1>3, <1>13 DEF Bump, At, WarmStart
  <2>2. pc'[p] = "store" /\ prologue' = prologue /\ head' = head
    BY <1>0, <1>13, <2>1, Moved DEF Bump, callVars
  <2>3. Goes("store")
    BY <2>2 DEF EndLabels
  <2> QED BY <1>4, <2>3
<1>14. CASE Store(p)
  <2>1. /\ pc'[p] = "endGen" /\ prologue' = prologue /\ head' = head
        /\ loc'[p] = [loc[p] EXCEPT !.list = "queue"]
    BY <1>0, <1>14, Moved DEF Store, callVars
  <2>2. Goes("endGen")
    BY <1>0, <2>1 DEF EndLabels, Locals
  <2> QED BY <1>4, <2>2
<1>15. CASE AddEnd(p)
  <2>1. /\ pc[p] \in EndLabels \cup {"endSwing"} /\ loc'[p].list = loc[p].list
        /\ UNCHANGED <<head, prologue>>
        /\ \/ pc'[p] \in EndLabels \cup {"endSwing"}
           \/ /\ pc[p] = "endSwing"
              /\ pc'[p] = IF loc[p].list = "queue" THEN "incCount" ELSE "decCount"
    BY <1>15, EndGoes
  <2>2. Goes(pc'[p])
    BY <1>3, <2>1 DEF EndLabels
  <2> QED BY <1>4, <2>2
<1> HIDE DEF Goes
<1> QED BY <1>5, <1>6, <1>7, <1>8, <1>9, <1>10, <1>11, <1>12, <1>13, <1>14, <1>15
        DEF Step, Gates, Alloc

\* The second call takes the item and swings the pool's tail to a node with a number.
LEMMA FirstRemoveStep ==
  ASSUME ListInv, NEW c, ChainInv(c), Accounts(c), WarmStart, Linkers, ~FreshAgain, FirstRemove,
         NEW p \in Procs, Step(p), pc'[p] # "abort", tail'["free"] = tail["free"]
  PROVE  FirstRemove' \/ tail'["free"].hi # 0
<1>0. TypeOK /\ loc[p] \in Locals /\ Fronts(p)
  BY Knows
<1>1. prologue = Tail(Prologue) /\ prologue # <<>> /\ MayCall(p)
  BY Caller, TwoCalls DEF FirstRemove
<1>2. p = Opener /\ Call(p) = "remove"
  BY <1>1, TwoCalls DEF MayCall, Call
<1>3. /\ pc[p] \in {"idle", "frontZero", "endSwing"} \cup FifoLabels \cup FrontLabels \cup EndLabels
      /\ pc[p] = "idle" => deqSem >= 1
      /\ pc[p] = "deqTest" => loc[p].ref = head["queue"].lo
      /\ pc[p] \in FrontLabels \cup {"frontZero"} => loc[p].list = "queue"
      /\ pc[p] \in EndLabels \cup {"endSwing"} => loc[p].list = "free"
      /\ pc[p] = "endSwing" => tail["free"] = loc[p].before
  BY <1>2 DEF FirstRemove
<1> DEFINE Goes(label) ==
      /\ pc'[p] = label
      /\ prologue' = prologue
      /\ label \in {"frontZero", "endSwing"} \cup FifoLabels \cup FrontLabels \cup EndLabels
      /\ label = "deqTest" => head' = head /\ loc'[p].ref = head["queue"].lo
      /\ label \in FrontLabels \cup {"frontZero"} => loc'[p].list = "queue"
      /\ label \in EndLabels \cup {"endSwing"} => loc'[p].list = "free"
      /\ label = "endSwing" => tail["free"] = loc'[p].before
<1> USE DEF FifoLabels, FrontLabels, EndLabels
<1>4. ASSUME NEW label, Goes(label) PROVE FirstRemove'
  BY <1>1, <1>2, <1>3, <1>4 DEF FirstRemove
<1>5. CASE DeqGateTry(p)
  <2>1. deqSem > 0
    BY <1>0, <1>3, <1>5 DEF DeqGateTry, At, TypeOK
  <2>2. pc'[p] = "deqHead" /\ prologue' = prologue
    BY <1>0, <1>5, <2>1, Moved DEF DeqGateTry, callVars
  <2>3. Goes("deqHead")
    BY <2>2
  <2> QED BY <1>4, <2>3
<1>6. ~EnqGateTry(p)
  BY <1>2 DEF EnqGateTry
<1>7. ~PostDeq(p) /\ ~PostEnq(p) /\ ~IncCount(p) /\ ~DecCount(p)
  BY <1>3 DEF PostDeq, PostEnq, IncCount, DecCount, At
<1>8. ~Alloc(p)
  BY <1>3 DEF Alloc, PoolGen, PoolHead, PoolTest, PoolClear, Bump, Store, At
<1>9. CASE DeqHead(p)
  <2>1. /\ pc'[p] = "deqTest" /\ prologue' = prologue /\ head' = head
        /\ loc'[p] = [loc[p] EXCEPT !.list = "queue", !.ref = head["queue"].lo]
    BY <1>0, <1>9, Moved DEF DeqHead, callVars, memVars
  <2>2. Goes("deqTest")
    BY <1>0, <2>1 DEF Locals
  <2> QED BY <1>4, <2>2
<1>10. CASE DeqTest(p)
  <2>1. pc[p] = "deqTest" /\ loc[p].ref # tail["queue"].lo
    BY <1>3, <1>10, NothingHidden DEF DeqTest, At, EmptyOnlyIfStale
  <2>2. Goto(p, "fifoGen")
    BY <1>10, <2>1 DEF DeqTest
  <2>3. pc'[p] = "fifoGen" /\ prologue' = prologue
    BY <1>0, <1>10, <2>2, Moved DEF DeqTest, callVars
  <2>4. Goes("fifoGen")
    BY <2>3
  <2> QED BY <1>4, <2>4
<1>11. CASE FifoGen(p)
  <2>1. pc'[p] = "fifoHead" /\ prologue' = prologue
    BY <1>0, <1>11, Moved DEF FifoGen, callVars
  <2>2. Goes("fifoHead")
    BY <2>1
  <2> QED BY <1>4, <2>2
<1>12. CASE FifoHead(p)
  <2>1. pc'[p] = "fifoTest" /\ prologue' = prologue
    BY <1>0, <1>12, Moved DEF FifoHead, callVars
  <2>2. Goes("fifoTest")
    BY <2>1
  <2> QED BY <1>4, <2>2
<1>13. CASE FifoTest(p)
  <2>1. pc'[p] \in {"deqHead", "fifoNext"} /\ prologue' = prologue
    BY <1>0, <1>13, Moved DEF FifoTest, callVars
  <2>2. Goes(pc'[p])
    BY <2>1
  <2> QED BY <1>4, <2>2
<1>14. CASE FifoNext(p)
  <2> DEFINE label == IF word[loc[p].ref].lo = Null THEN "deqHead" ELSE "fifoData"
  <2>1. Goto(p, "abort") \/ Goto(p, label)
    BY <1>14 DEF FifoNext
  <2>2. label \in {"deqHead", "fifoData"}
    OBVIOUS
  <2> HIDE DEF label
  <2>3. pc'[p] \in {"deqHead", "fifoData"} /\ prologue' = prologue
    BY <1>0, <1>14, <2>1, <2>2, Moved DEF FifoNext, callVars
  <2>4. Goes(pc'[p])
    BY <2>3
  <2> QED BY <1>4, <2>4
<1>15. CASE FifoData(p)
  <2> DEFINE label == IF val[loc[p].next] = NoItem THEN "deqHead" ELSE "frontTest"
  <2>1. Goto(p, label) /\ prologue' = prologue /\ pc[p] = "fifoData"
        /\ Set(p, [loc[p] EXCEPT !.data = val[loc[p].next]])
    BY <1>15 DEF FifoData, callVars, At
  <2>2. label \in {"deqHead", "frontTest"}
    OBVIOUS
  <2> HIDE DEF label
  <2>3. pc'[p] \in {"deqHead", "frontTest"} /\ loc'[p] = [loc[p] EXCEPT !.data = val[loc[p].next]]
    BY <1>0, <2>1, <2>2, Moved
  <2>4. loc[p].list = "queue"
    BY <1>0, <2>1 DEF Fronts
  <2>5. loc'[p].list = "queue"
    BY <1>0, <2>3, <2>4 DEF Locals
  <2>6. Goes(pc'[p])
    BY <2>1, <2>3, <2>5
  <2> QED BY <1>4, <2>6
<1>16. CASE FrontTest(p)
  <2>1. loc[p].list = "queue"
    BY <1>3, <1>16 DEF FrontTest, At
  <2>2. /\ pc'[p] \in {"frontNext", "deqHead"} /\ prologue' = prologue /\ loc'[p] = loc[p]
    BY <1>0, <1>16, <2>1, Moved DEF FrontTest, FrontRetry, callVars
  <2>3. Goes(pc'[p])
    BY <2>1, <2>2
  <2> QED BY <1>4, <2>3
<1>17. CASE FrontNext(p)
  <2>1. loc[p].list = "queue"
    BY <1>3, <1>17 DEF FrontNext, At
  <2>2. /\ pc'[p] = "frontCas" /\ prologue' = prologue
        /\ loc'[p] = [loc[p] EXCEPT !.next = word[loc[p].ref].lo]
    BY <1>0, <1>17, Moved DEF FrontNext, callVars
  <2>3. loc'[p].list = "queue"
    BY <1>0, <2>1, <2>2 DEF Locals
  <2>4. Goes("frontCas")
    BY <2>2, <2>3
  <2> QED BY <1>4, <2>4
<1>18. CASE FrontCas(p)
  <2>1. loc[p].list = "queue" /\ prologue' = prologue
    BY <1>3, <1>18 DEF FrontCas, At, callVars
  <2>2. CASE HeadUnchanged(p)
    <3>1. pc'[p] = "frontZero" /\ loc'[p] = [loc[p] EXCEPT !.slot = loc[p].ref]
      BY <1>0, <1>18, <2>2, Moved DEF FrontCas
    <3>2. loc'[p].list = "queue"
      BY <1>0, <2>1, <3>1 DEF Locals
    <3>3. Goes("frontZero")
      BY <2>1, <3>1, <3>2
    <3> QED BY <1>4, <3>3
  <2>3. CASE ~HeadUnchanged(p)
    <3>1. pc'[p] = "deqHead"
      BY <1>0, <1>18, <2>1, <2>3, Moved DEF FrontCas, FrontRetry
    <3>2. Goes("deqHead")
      BY <2>1, <3>1
    <3> QED BY <1>4, <3>2
  <2> QED BY <2>2, <2>3
<1>19. CASE FrontZero(p)
  <2>1. loc[p].list = "queue" /\ prologue' = prologue
    BY <1>3, <1>19 DEF FrontZero, At, callVars
  <2>2. pc'[p] = "endGen" /\ loc'[p] = [loc[p] EXCEPT !.list = "free"]
    BY <1>0, <1>19, <2>1, Moved DEF FrontZero
  <2>3. loc'[p].list = "free"
    BY <1>0, <2>2 DEF Locals
  <2>4. Goes("endGen")
    BY <2>1, <2>2, <2>3
  <2> QED BY <1>4, <2>4
<1>20. CASE AddEnd(p)
  <2>1. /\ pc[p] \in EndLabels \cup {"endSwing"} /\ loc'[p].list = loc[p].list
        /\ UNCHANGED <<head, prologue>>
        /\ \/ pc'[p] \in EndLabels \cup {"endSwing"}
           \/ pc[p] = "endSwing"
        /\ pc'[p] = "endSwing" => EndLink(p) /\ word[loc[p].before.lo] = loc[p].before /\ loc' = loc
    BY <1>20, EndGoes
  <2>2. loc[p].list = "free"
    BY <1>3, <2>1
  <2>3. CASE pc[p] = "endSwing"
    <3>1. EndSwing(p)
      BY <1>20, <2>3 DEF AddEnd, EndGen, EndStore, EndLo, EndHi, EndTest, EndLink,
                         HelpLo, HelpHi, HelpSwing, At
    <3>2. tail["free"] = loc[p].before /\ tail \in [Lists -> Word] /\ "free" \in Lists
      BY <1>0, <1>3, <2>3 DEF TypeOK, Lists
    <3>3. tail' = [tail EXCEPT !["free"] = Linked(p)]
      BY <2>2, <3>1, <3>2 DEF EndSwing, SwingTail
    <3>4. loc[p].gen >= 1 /\ loc[p].gen \in Nat
      BY <1>0, <2>3 DEF Linkers, Locals
    <3> QED BY <3>2, <3>3, <3>4 DEF Linked, W
  <2>4. CASE pc'[p] = "endSwing"
    <3>1. pc[p] = "endLink" /\ "free" \in Lists
      BY <2>1, <2>4 DEF EndLink, At, Lists
    <3>2. tail["free"] = loc[p].before
      BY <2>1, <2>2, <2>4, <3>1, LinkTarget
    <3>3. Goes("endSwing")
      BY <2>1, <2>2, <2>4, <3>2
    <3> QED BY <1>4, <3>3
  <2>5. CASE pc'[p] \in EndLabels
    <3>1. Goes(pc'[p])
      BY <2>1, <2>2, <2>5
    <3> QED BY <1>4, <3>1
  <2> QED BY <2>1, <2>3, <2>4, <2>5
<1> HIDE DEF Goes
<1> QED BY <1>5, <1>6, <1>7, <1>8, <1>9, <1>10, <1>11, <1>12, <1>13, <1>14, <1>15, <1>16,
           <1>17, <1>18, <1>19, <1>20 DEF Step, Gates, RemoveFront, FifoRemove

\* Nobody's step takes that back.
LEMMA WarmStep ==
  ASSUME ListInv, ListInv', NEW c, ChainInv(c), Accounts(c), WarmStart, Warm,
         NEW p \in Procs, Step(p)
  PROVE  Warm'
<1>0. ~FreshAgain /\ "free" \in Lists
  BY WarmNotFresh DEF Lists
<1>1. Linkers /\ (tail["free"].hi # 0 \/ FirstAdd \/ FirstRemove)
  BY DEF Warm
<1>2. Linkers' /\ NoZero'
  BY <1>1, LinkersStep, NoZeroStep
<1>3. PICK d : ChainInv(d)'
  BY <1>0, ProcessChains
<1>4. pc'[p] # "abort"
  BY <1>3 DEF ChainInv, Fronts
<1>5. tail'["free"].hi # 0 \/ FirstAdd' \/ FirstRemove'
  <2>1. CASE tail'["free"] # tail["free"]
    BY <1>0, <1>1, <2>1, SwingNumber
  <2>2. CASE tail'["free"] = tail["free"] /\ tail["free"].hi # 0
    BY <2>2
  <2>3. CASE tail'["free"] = tail["free"] /\ FirstAdd
    BY <1>4, <2>3, FirstAddStep
  <2>4. CASE tail'["free"] = tail["free"] /\ FirstRemove
    BY <1>0, <1>1, <1>4, <2>4, FirstRemoveStep
  <2> QED BY <1>1, <2>1, <2>2, <2>3, <2>4
<1> QED BY <1>2, <1>5 DEF Warm

\* Nor does a step that leaves the lists, the gates and the calls as they are.
LEMMA StillWarm ==
  ASSUME Warm, UNCHANGED <<memVars, gateVars, pc, loc, prologue>>
  PROVE  Warm'
BY DEF Warm, Linkers, NoZero, FirstAdd, FirstRemove, memVars, gateVars

-----------------------------------------------------------------------------
(* The invariant of the lists, and what follows from it.                   *)

\* the inductive invariant: two chains that explain the memory, the permits and the items
QueueInv == ListInv /\ \E c : ChainInv(c) /\ Accounts(c) /\ ItemsOK(c)

\* No item is on its way yet.
LEMMA FirstItems ==
  ASSUME Init
  PROVE  ItemsOK([l \in Lists |-> IF l = "free" THEN <<1>> ELSE <<2>>])
<1> DEFINE c == [l \in Lists |-> IF l = "free" THEN <<1>> ELSE <<2>>]
<1>1. Len(c["queue"]) = 1
  BY DEF Lists
<1>2. \A i \in 2..Len(c["queue"]) : val[c["queue"][i]] \in AddItems
  <2> HIDE DEF c
  <2> QED BY <1>1
<1>3. /\ \A p \in Procs : pc[p] = "idle" /\ given[p] = NoItem
      /\ prologue = Prologue /\ todo \in Programs
  BY DEF Init
<1>4. \A p \in Procs : Len(prologue) + Len(todo[p]) <= MaxCalls
  BY <1>3, ProgramsAssumption
<1> HIDE DEF c
<1>5. ItemsOK(c)
  BY <1>2, <1>3, <1>4 DEF ItemsOK, EndLabels
<1> QED BY <1>5 DEF c

\* A killed process leaves its item where it is.
LEMMA StillItems ==
  ASSUME NEW c, ItemsOK(c), UNCHANGED <<val, pc, loc, todo, prologue, given>>
  PROVE  ItemsOK(c)'
BY DEF ItemsOK, Taken

\* The lists after shr_q_create.
LEMMA QueueInit == Init => QueueInv
<1> SUFFICES ASSUME Init PROVE QueueInv
  OBVIOUS
<1>1. ListInv
  BY InitInv
<1>2. \E c : ChainInv(c) /\ Accounts(c) /\ ItemsOK(c)
  BY FirstChains, FirstAccounts, FirstItems
<1> QED BY <1>1, <1>2 DEF QueueInv

\* Every step keeps the invariant while nobody meets a node of generation 0 again.
LEMMA QueueStep ==
  ASSUME QueueInv, ~FreshAgain, [Next]_vars
  PROVE  QueueInv'
<1>1. ListInv /\ ListInv'
  BY ListStep DEF QueueInv
<1>2. PICK c : ChainInv(c) /\ Accounts(c) /\ ItemsOK(c)
  BY DEF QueueInv
<1>3. ASSUME NEW p \in Procs, Step(p) PROVE QueueInv'
  <2>1. PICK d : /\ ChainInv(d)'
                 /\ \/ Links(p) /\ d = Grown(c, p)
                    \/ Unlinks(p) /\ d = Shrunk(c, p)
                    \/ ~Links(p) /\ ~Unlinks(p) /\ d = c
    BY <1>1, <1>2, <1>3, ProcessChains
  <2>2. Accounts(d)'
    BY <1>1, <1>2, <1>3, <2>1, StepAccounts
  <2>3. ItemsOK(d)'
    BY <1>1, <1>2, <1>3, <2>1, ItemsStep
  <2> QED BY <1>1, <2>1, <2>2, <2>3 DEF QueueInv
<1>4. ASSUME UNCHANGED <<memVars, gateVars, pc, loc, todo, prologue, given>> PROVE QueueInv'
  <2>1. ChainInv(c)'
    BY <1>2, <1>4, StillChains
  <2>2. Accounts(c)'
    BY <1>2, <1>4, StillAccounts
  <2>3. UNCHANGED <<val, pc, loc, todo, prologue, given>>
    BY <1>4 DEF memVars
  <2>4. ItemsOK(c)'
    BY <1>2, <2>3, StillItems
  <2> QED BY <1>1, <2>1, <2>2, <2>4 DEF QueueInv
<1>5. ASSUME NEW p \in Procs, Crash(p) PROVE QueueInv'
  BY <1>4, <1>5 DEF Crash
<1>6. UNCHANGED vars => QueueInv'
  BY <1>4 DEF vars, callVars
<1> QED BY <1>3, <1>5, <1>6 DEF Next, Done

\* What the invariant says of the lists and of the calls.
LEMMA QueueFacts ==
  ASSUME QueueInv
  PROVE  NodesConserved /\ TailNearEnd /\ ItemsAccounted /\ EmptyOnlyIfStale
BY ChainsConserve, ChainsTail, AccountsHold, NothingHidden DEF QueueInv

\* The queue begins empty, and no item is given.
LEMMA InitRefines == Init => Abs!AbsInit
<1> SUFFICES ASSUME Init PROVE Abs!AbsInit
  OBVIOUS
<1> DEFINE c == [l \in Lists |-> IF l = "free" THEN <<1>> ELSE <<2>>]
<1>1. ListInv /\ ChainInv(c)
  BY InitInv, FirstChains
<1>2. Len(c["queue"]) = 1
  BY DEF Lists
<1> HIDE DEF c
<1>3. Queued = [i \in 1..(1 - 1) |-> val[c["queue"][i + 1]]]
  BY <1>1, <1>2, QueuedLength
<1>4. Queued = <<>>
  BY <1>3
<1>5. given = [p \in Procs |-> NoItem]
  BY DEF Init
<1> QED BY <1>4, <1>5 DEF Abs!AbsInit

\* Every step is one of the abstract queue, or none.
LEMMA NextRefines ==
  ASSUME QueueInv, ~FreshAgain, [Next]_vars
  PROVE  [Abs!AbsNext]_(Abs!absVars)
<1>1. ListInv /\ ListInv'
  BY ListStep DEF QueueInv
<1>2. PICK c : ChainInv(c) /\ Accounts(c) /\ ItemsOK(c)
  BY DEF QueueInv
<1>3. ASSUME NEW p \in Procs, Step(p) PROVE [Abs!AbsNext]_(Abs!absVars)
  BY <1>1, <1>2, <1>3, StepRefines
<1>4. ASSUME UNCHANGED <<memVars, pc, loc, given>> PROVE [Abs!AbsNext]_(Abs!absVars)
  <2>1. ChainInv(c)'
    BY <1>2, <1>4, StillChains
  <2>2. Queued = ValuesOf(c["queue"], val)
    BY <1>1, <1>2, QueuedForm
  <2>3. Queued' = ValuesOf(c["queue"], val')
    BY <1>1, <2>1, QueuedFormNext
  <2>4. val' = val /\ given' = given
    BY <1>4 DEF memVars
  <2>5. Queued' = Queued
    BY <2>2, <2>3, <2>4
  <2> QED BY <2>4, <2>5 DEF Abs!absVars
<1>5. ASSUME NEW p \in Procs, Crash(p) PROVE [Abs!AbsNext]_(Abs!absVars)
  BY <1>4, <1>5 DEF Crash
<1>6. UNCHANGED vars => [Abs!AbsNext]_(Abs!absVars)
  BY <1>4 DEF vars
<1> QED BY <1>3, <1>5, <1>6 DEF Next, Done

\* The invariant holds in every behaviour that never meets such a node.
LEMMA QueueTrue == Spec /\ []~FreshAgain => []QueueInv
<1>1. QueueInv /\ ~FreshAgain /\ [Next]_vars => QueueInv'
  BY QueueStep
<1> QED BY <1>1, QueueInit, PTL DEF Spec

(***************************************************************************)
(* add_end and remove_front lose no node and share none: as long as no     *)
(* process that is about to link to a node it read with generation 0 (the  *)
(* tail of the pool since shr_q_create) finds it with another process that *)
(* has stored its own slot in it and not its generation yet.               *)
(***************************************************************************)
THEOREM Conserved == Spec /\ []~FreshAgain => []NodesConserved
<1>1. QueueInv => NodesConserved
  BY QueueFacts
<1> QED BY <1>1, QueueTrue, PTL

(***************************************************************************)
(* The tail is never more than one node behind, so the help of add_end     *)
(* brings it to the end, and there it has the last node's generation.      *)
(***************************************************************************)
THEOREM TailStays == Spec /\ []~FreshAgain => []TailNearEnd
<1>1. QueueInv => TailNearEnd
  BY QueueFacts
<1> QED BY <1>1, QueueTrue, PTL

(***************************************************************************)
(* The semaphores and COUNT account for the items of the queue: the calls  *)
(* hold the permits that are not in the semaphores.                        *)
(***************************************************************************)
THEOREM Accounting == Spec /\ []~FreshAgain => []ItemsAccounted
<1>1. QueueInv => ItemsAccounted
  BY QueueFacts
<1> QED BY <1>1, QueueTrue, PTL

(***************************************************************************)
(* A remove that passed deq_gate_try takes the queue for empty only when   *)
(* it compared a head that has been taken since (deq).                     *)
(***************************************************************************)
THEOREM EmptyIsStale == Spec /\ []~FreshAgain => []EmptyOnlyIfStale
<1>1. QueueInv => EmptyOnlyIfStale
  BY QueueFacts
<1> QED BY <1>1, QueueTrue, PTL

(***************************************************************************)
(* The lists are AbsQueue's queue: an add puts its item when add_end links *)
(* the node, a remove gets the first one when remove_front moves the head. *)
(***************************************************************************)
THEOREM ListImplemented == Spec /\ []~FreshAgain => AbsQueueSpec
<1>1. QueueInv /\ ~FreshAgain /\ [Next]_vars => [Abs!AbsNext]_(Abs!absVars)
  BY NextRefines
<1> QED BY <1>1, QueueTrue, InitRefines, PTL DEF Spec, AbsQueueSpec, Abs!AbsSpec

(***************************************************************************)
(* After an add and a remove that the opener makes before anyone else      *)
(* starts, both tails have a generation given by ID_CNTR, and the case     *)
(* that the theorems above exclude does not happen.                        *)
(***************************************************************************)
THEOREM NeverFresh == WarmStart => (Spec => [](QueueInv /\ ~FreshAgain))
<1> SUFFICES ASSUME WarmStart PROVE Spec => [](QueueInv /\ ~FreshAgain)
  OBVIOUS
<1>1. Init => QueueInv /\ Warm
  BY QueueInit, WarmInit
<1>2. QueueInv /\ Warm => ~FreshAgain
  BY WarmNotFresh DEF QueueInv
<1>3. QueueInv /\ Warm /\ [Next]_vars => (QueueInv /\ Warm)'
  <2> SUFFICES ASSUME QueueInv, Warm, [Next]_vars PROVE QueueInv' /\ Warm'
    OBVIOUS
  <2>1. QueueInv'
    BY <1>2, QueueStep
  <2>2. PICK c : ChainInv(c) /\ Accounts(c)
    BY DEF QueueInv
  <2>3. ASSUME NEW p \in Procs, Step(p) PROVE Warm'
    BY <2>1, <2>2, <2>3, WarmStep DEF QueueInv
  <2>4. ASSUME UNCHANGED <<memVars, gateVars, pc, loc, prologue>> PROVE Warm'
    BY <2>4, StillWarm
  <2>5. ASSUME NEW p \in Procs, Crash(p) PROVE Warm'
    BY <2>4, <2>5 DEF Crash
  <2>6. UNCHANGED vars => Warm'
    BY <2>4 DEF vars, callVars
  <2> QED BY <2>1, <2>3, <2>5, <2>6 DEF Next, Done
<1> QED BY <1>1, <1>2, <1>3, PTL DEF Spec

(***************************************************************************)
(* So all of it holds for every program that starts that way, with any     *)
(* number of processes, nodes and crashes.                                 *)
(***************************************************************************)
THEOREM WarmLists ==
  WarmStart => (Spec => /\ [](NodesConserved /\ TailNearEnd)
                        /\ [](ItemsAccounted /\ EmptyOnlyIfStale)
                        /\ AbsQueueSpec)
<1> SUFFICES ASSUME WarmStart
             PROVE  Spec => /\ [](NodesConserved /\ TailNearEnd)
                            /\ [](ItemsAccounted /\ EmptyOnlyIfStale)
                            /\ AbsQueueSpec
  OBVIOUS
<1>1. Spec => [](QueueInv /\ ~FreshAgain)
  BY NeverFresh
<1>2. QueueInv => NodesConserved /\ TailNearEnd /\ ItemsAccounted /\ EmptyOnlyIfStale
  BY QueueFacts
<1> QED BY <1>1, <1>2, ListImplemented, PTL
=============================================================================
