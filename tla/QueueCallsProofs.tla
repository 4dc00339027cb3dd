-------------------------- MODULE QueueCallsProofs --------------------------
(***************************************************************************)
(* What holds of the life of a queue and of registration for any number of *)
(* processes, files, calls and crashes.                                    *)
(*                                                                         *)
(* The invariant has six parts: types; whose file and queue a call works   *)
(* on (Holding); what of a file has been stored, and by whom (Formats);    *)
(* that nobody passes ENQ_SEM before it is initialized (Gates); that the   *)
(* difference of the two counters is the number of blocked removes         *)
(* (Counters); and who is halfway through a registration (Pairs).          *)
(***************************************************************************)
EXTENDS QueueCalls, FiniteSetTheorems, TLAPS

UseLabels ==
    {"regCas", "regStore", "addPush", "addPost", "pullAdd", "look", "signalPid", "signalSend",
     "deqWait", "lost", "unblock", "timedOut", "deq", "postEnq", "deqBack", "countUnblocks",
     "countBlocks", "prod", "serve"}

\* a call has not returned, works on the queue it was called with or on the file it has
\* found or created, and every file referred to has been created
Holding ==
    /\ \A p \in Procs :
          /\ pc[p] # "idle" => todo[p] # <<>>
          /\ pc[p] \in UseLabels => handle[p] \in Files
          /\ pc[p] \in {"format", "openMap", "openCheck"} => file[p] \in Files
          /\ file[p] \in Files => file[p] <= made
          /\ handle[p] \in Files => handle[p] <= made
    /\ name \in Files => name <= made

\* what has been stored before the next store of create
Stored(k) == {CreateOrder[i] : i \in 1..k - 1}

InOrder(fields) ==
    /\ {"TAG", "VERSION"} \subseteq fields => Header \subseteq fields
    /\ "ENQ_SEM" \in fields => "pool" \in fields

Formats ==
    /\ \A f \in Files :
          /\ f > made => has[f] = {}
          /\ InOrder(has[f])
    /\ \A p \in Procs :
          /\ pc[p] = "format" => has[file[p]] = Stored(step[p])
          /\ pc[p] # "format" => step[p] = 1
          /\ handle[p] \in Files => Header \subseteq has[handle[p]]
    /\ \A p, q \in Procs :
          pc[p] = "format" /\ pc[q] = "format" /\ file[p] = file[q] => p = q

Gates ==
    /\ \A f \in Files : enqSem[f] > 0 \/ items[f] > 0 => "ENQ_SEM" \in has[f]
    /\ \A p \in Procs :
          pc[p] \in {"addPush", "postEnq"} => "ENQ_SEM" \in has[handle[p]]

Counters ==
    /\ \A f \in Files : blocks[f] - unblocks[f] = Cardinality(Blocked(f))
    /\ \A p \in Procs :
          /\ pc[p] = "countBlocks" => tally[p] <= unblocks[handle[p]]
          /\ pc[p] \in {"deqWait", "lost", "unblock", "timedOut"} => Call(p) # "try"

Pairs ==
    \A f \in Files :
        ~history[f].overlap =>
            /\ \A p, q \in Halfway(f) : p = q
            /\ \A p \in Halfway(f) : registered[f].pid = Asked(p).pid
            /\ Halfway(f) = {} => registered[f] = history[f].last

Inv == TypeOK /\ Holding /\ Formats /\ Gates /\ Counters /\ Pairs

-----------------------------------------------------------------------------
(* The order of the stores *)

(***************************************************************************)
(* The stores of shr_q_create are made in the order of CreateOrder.        *)
(***************************************************************************)
LEMMA OrderOfStores ==
    ASSUME NEW k \in 1..Len(CreateOrder)
    PROVE  /\ Stored(k + 1) = Stored(k) \cup {CreateOrder[k]}
           /\ CreateOrder[k] \in Fields
           /\ Stored(k) \subseteq Fields /\ Stored(k) # Fields
           /\ InOrder(Stored(k + 1))
           /\ CreateOrder[k] = "ENQ_SEM" => {"pool"} \subseteq Stored(k)
           /\ k = Len(CreateOrder) => Header \subseteq Stored(k + 1)
<1>1. Len(CreateOrder) = 12
  BY DEF CreateOrder
<1>2. Stored(k + 1) = Stored(k) \cup {CreateOrder[k]}
  BY <1>1 DEF Stored
<1>3. CreateOrder[k] \in Fields /\ Stored(k) \subseteq Fields
  BY <1>1 DEF Stored, Fields
<1>4. \A i, j \in 1..12 : CreateOrder[i] = CreateOrder[j] => i = j
  BY DEF CreateOrder
<1>5. CreateOrder[k] \notin Stored(k)
  BY <1>1, <1>4 DEF Stored
<1>6. \A j \in 1..12 : CreateOrder[j] \in Stored(k + 1) <=> j <= k
  BY <1>1, <1>4 DEF Stored
<1>7. /\ CreateOrder[1] = "length" /\ CreateOrder[2] = "SIZE" /\ CreateOrder[3] = "EXPAND_SIZE"
      /\ CreateOrder[4] = "DATA_ALLOC" /\ CreateOrder[5] = "VERSION" /\ CreateOrder[6] = "TAG"
      /\ CreateOrder[7] = "pool" /\ CreateOrder[9] = "ENQ_SEM"
  BY DEF CreateOrder
<1>8. InOrder(Stored(k + 1))
  BY <1>1, <1>6, <1>7 DEF InOrder, Header
<1>9. k = 12 => Header \subseteq Stored(k + 1)
  BY <1>6, <1>7 DEF Header
<1>10. CreateOrder[k] = "ENQ_SEM" => {"pool"} \subseteq Stored(k)
  <2> SUFFICES ASSUME CreateOrder[k] = "ENQ_SEM" PROVE "pool" \in Stored(k)
    OBVIOUS
  <2>1. k = 9
    BY <1>1, <1>4, <1>7
  <2> QED
    BY <2>1, <1>7 DEF Stored
<1> QED
  BY <1>1, <1>2, <1>3, <1>5, <1>8, <1>9, <1>10

-----------------------------------------------------------------------------
(* The calls on an open queue *)

CallStep(p) == Register(p) \/ Add(p) \/ Remove(p) \/ Pull(p) \/ PullEnds(p)

\* what every step of them has in common
Moved(p) ==
    /\ UNCHANGED <<name, made, has, file, step, handle, dead>>
    /\ handle[p] \in Files /\ todo[p] # <<>>
    /\ pc[p] \in UseLabels \cup {"idle"}
    /\ pc' \in [Procs -> Labels] /\ pc'[p] \in UseLabels \cup {"idle", "abort"}
    /\ todo' \in [Procs -> Seq(Calls)] /\ (pc'[p] # "idle" => todo'[p] = todo[p])
    /\ \A q \in Procs \ {p} : pc'[q] = pc[q] /\ todo'[q] = todo[q]

(***************************************************************************)
(* A step of a call moves the process that makes it, and no other.         *)
(***************************************************************************)
LEMMA CallsMove ==
    ASSUME TypeOK, Holding, NEW p \in Procs, CallStep(p)
    PROVE  Moved(p)
<1>0. /\ pc \in [Procs -> Labels] /\ handle \in [Procs -> Files \cup {NoFile}]
      /\ todo \in [Procs -> Seq(Calls)]
      /\ todo[p] # <<>> => Tail(todo[p]) \in Seq(Calls)
      /\ <<>> \in Seq(Calls)
  BY DEF TypeOK, LifeTypeOK
<1>1. CASE RegRead(p)
  BY <1>0, <1>1 DEF RegRead, Moved, Holding, UseLabels, Labels, LifeLabels, At, Goto, fileVars,
     Registering, Using, Calling
<1>2. CASE RegCas(p)
  BY <1>0, <1>2 DEF RegCas, Moved, Holding, UseLabels, Labels, LifeLabels, At, Goto, fileVars,
     Asked, Quit
<1>3. CASE RegStore(p)
  BY <1>0, <1>3 DEF RegStore, Moved, Holding, UseLabels, Labels, LifeLabels, At, Goto, fileVars,
     Asked, Finish
<1>4. CASE AddGate(p)
  BY <1>0, <1>4 DEF AddGate, Moved, Holding, UseLabels, Labels, LifeLabels, At, Goto, fileVars,
     Using, Calling, Quit
<1>5. CASE AddPush(p)
  BY <1>0, <1>5 DEF AddPush, Moved, Holding, UseLabels, Labels, LifeLabels, At, Goto, fileVars
<1>6. CASE AddPost(p)
  BY <1>0, <1>6 DEF AddPost, Moved, Holding, UseLabels, Labels, LifeLabels, At, Goto, fileVars,
     AddEnds, Finish
<1>7. CASE RemoveTry(p)
  BY <1>0, <1>7 DEF RemoveTry, Moved, Holding, UseLabels, Labels, LifeLabels, At, Goto, fileVars,
     Using, Calling
<1>8. CASE RemoveBlocks(p)
  BY <1>0, <1>8 DEF RemoveBlocks, Moved, Holding, UseLabels, Labels, LifeLabels, At, Goto,
     fileVars, Using, Calling
<1>9. CASE Look(p)
  BY <1>0, <1>9 DEF Look, Moved, Holding, UseLabels, Labels, LifeLabels, At, Goto, fileVars,
     Signalled, Finish
<1>10. CASE SignalPid(p)
  BY <1>0, <1>10 DEF SignalPid, Moved, Holding, UseLabels, Labels, LifeLabels, At, Goto, fileVars
<1>11. CASE SignalSend(p)
  BY <1>0, <1>11 DEF SignalSend, Moved, Holding, UseLabels, Labels, LifeLabels, At, Goto,
     fileVars, Signalled, Finish
<1>12. CASE DeqWait(p)
  BY <1>0, <1>12 DEF DeqWait, Moved, Holding, UseLabels, Labels, LifeLabels, At, Goto, fileVars
<1>13. CASE DeqTimeout(p)
  BY <1>0, <1>13 DEF DeqTimeout, Moved, Holding, UseLabels, Labels, LifeLabels, At, Goto, fileVars
<1>14. CASE Unblock(p)
  BY <1>0, <1>14 DEF Unblock, Moved, Holding, UseLabels, Labels, LifeLabels, At, Goto, fileVars,
     Finish
<1>15. CASE Deq(p)
  BY <1>0, <1>15 DEF Deq, Moved, Holding, UseLabels, Labels, LifeLabels, At, Goto, fileVars
<1>16. CASE PostEnq(p)
  BY <1>0, <1>16 DEF PostEnq, Moved, Holding, UseLabels, Labels, LifeLabels, At, Goto, fileVars,
     Finish
<1>17. CASE DeqBack(p)
  BY <1>0, <1>17 DEF DeqBack, Moved, Holding, UseLabels, Labels, LifeLabels, At, Goto, fileVars,
     Finish
<1>18. CASE CallCount(p)
  BY <1>0, <1>18 DEF CallCount, Moved, Holding, UseLabels, Labels, LifeLabels, At, Goto, fileVars
<1>19. CASE Prod(p)
  BY <1>0, <1>19 DEF Prod, Moved, Holding, UseLabels, Labels, LifeLabels, At, Goto, fileVars
<1>20. CASE Serve(p)
  BY <1>0, <1>20 DEF Serve, Moved, Holding, UseLabels, Labels, LifeLabels, At, Goto, fileVars
<1>21. CASE PullEnds(p)
  BY <1>0, <1>21 DEF PullEnds, Moved, Holding, UseLabels, Labels, LifeLabels, At, Goto, fileVars,
     Quit
<1> QED
  BY <1>1, <1>2, <1>3, <1>4, <1>5, <1>6, <1>7, <1>8, <1>9, <1>10, <1>11, <1>12, <1>13, <1>14,
     <1>15, <1>16, <1>17, <1>18, <1>19, <1>20, <1>21 DEF CallStep, Register, Add, Remove, Pull

(***************************************************************************)
(* Such a step disturbs neither what a call works on nor what has been     *)
(* stored.                                                                 *)
(***************************************************************************)
LEMMA CallsHold ==
    ASSUME TypeOK, Holding, Formats, NEW p \in Procs, Moved(p)
    PROVE  Holding' /\ Formats'
<1>1. Holding'
  BY DEF Holding, Moved, UseLabels, TypeOK, LifeTypeOK
<1>2. \A q \in Procs : pc'[q] = "format" <=> pc[q] = "format"
  BY DEF Moved, UseLabels
<1> QED
  BY <1>1, <1>2 DEF Formats, Moved, TypeOK, LifeTypeOK

(***************************************************************************)
(* The blocked removes can be counted.                                     *)
(***************************************************************************)
LEMMA BlockedFinite ==
    \A f \in Files : IsFiniteSet(Blocked(f)) /\ Cardinality(Blocked(f)) \in Nat
BY FS_Subset, FS_CardinalityType, LifeAssumption DEF Blocked

(***************************************************************************)
(* Semaphores, lists and counters never go below 0, and the words of a     *)
(* registration are processes.                                             *)
(***************************************************************************)
LEMMA CallsType ==
    ASSUME TypeOK, Holding, Counters, NEW p \in Procs, CallStep(p), Moved(p)
    PROVE  TypeOK'
<1> DEFINE NumbersOK ==
             /\ deqSem \in [Files -> Nat] /\ enqSem \in [Files -> Nat]
             /\ items \in [Files -> Nat]
             /\ blocks \in [Files -> Nat] /\ unblocks \in [Files -> Nat]
             /\ looks \in [Procs -> 1..4] /\ tally \in [Procs -> Nat]
             /\ signals \in [Procs -> Nat]
           WordsOK ==
             /\ registered \in [Files -> Registration]
             /\ history \in [Files -> [overlap : BOOLEAN, last : Registration]]
             /\ prev \in [Procs -> Procs \cup {None}]
             /\ to \in [Procs -> Procs \cup {None}]
<1>0. NumbersOK /\ WordsOK
  BY DEF TypeOK, LifeTypeOK
<1>a. handle[p] \in Files
  BY DEF Moved
<1>b. /\ Asked(p) \in Registration
      /\ Asked(p).pid \in Procs \cup {None} /\ Asked(p).signal \in Procs \cup {None}
  BY DEF Asked, Nobody, Registration
<1>c. \A r \in Registration, w \in Procs \cup {None} :
          [r EXCEPT !.pid = w] \in Registration /\ [r EXCEPT !.signal = w] \in Registration
  BY DEF Registration
<1>d. \A f \in Files :
          /\ registered[f] \in Registration /\ history[f].overlap \in BOOLEAN
          /\ \A b \in BOOLEAN : [history[f] EXCEPT !.overlap = b]
                                  \in [overlap : BOOLEAN, last : Registration]
          /\ \A r \in Registration : [history[f] EXCEPT !.last = r]
                                       \in [overlap : BOOLEAN, last : Registration]
  BY <1>0
<1>1. ASSUME RegRead(p) PROVE NumbersOK' /\ WordsOK'
  BY <1>0, <1>a, <1>1 DEF RegRead, fileVars, localVars, callVars, queueVars, Registration
<1>2. ASSUME RegCas(p) PROVE NumbersOK' /\ WordsOK'
  <2>1. NumbersOK' /\ UNCHANGED <<prev, to>>
    BY <1>0, <1>2 DEF RegCas, fileVars, localVars
  <2>2. registered' \in [Files -> Registration]
    BY <1>0, <1>a, <1>b, <1>c, <1>d, <1>2 DEF RegCas
  <2>3. history' \in [Files -> [overlap : BOOLEAN, last : Registration]]
    BY <1>0, <1>a, <1>d, <1>2 DEF RegCas
  <2> QED
    BY <1>0, <2>1, <2>2, <2>3
<1>3. ASSUME RegStore(p) PROVE NumbersOK' /\ WordsOK'
  <2>1. NumbersOK' /\ UNCHANGED <<prev, to>>
    BY <1>0, <1>3 DEF RegStore, fileVars, localVars
  <2>2. registered' \in [Files -> Registration]
    BY <1>0, <1>a, <1>b, <1>c, <1>d, <1>3 DEF RegStore
  <2>3. history' \in [Files -> [overlap : BOOLEAN, last : Registration]]
    BY <1>0, <1>a, <1>b, <1>d, <1>3 DEF RegStore
  <2> QED
    BY <1>0, <2>1, <2>2, <2>3
<1>4. ASSUME AddGate(p) PROVE NumbersOK' /\ WordsOK'
  BY <1>0, <1>a, <1>4 DEF AddGate, fileVars, localVars, callVars, queueVars
<1>5. ASSUME AddPush(p) PROVE NumbersOK' /\ WordsOK'
  BY <1>0, <1>a, <1>5 DEF AddPush, fileVars, localVars, callVars, queueVars
<1>6. ASSUME AddPost(p) PROVE NumbersOK' /\ WordsOK'
  BY <1>0, <1>a, <1>6 DEF AddPost, fileVars, localVars, callVars, queueVars
<1>7. ASSUME RemoveTry(p) PROVE NumbersOK' /\ WordsOK'
  BY <1>0, <1>a, <1>7 DEF RemoveTry, fileVars, localVars, callVars, queueVars
<1>8. ASSUME RemoveBlocks(p) PROVE NumbersOK' /\ WordsOK'
  BY <1>0, <1>a, <1>8 DEF RemoveBlocks, fileVars, localVars, callVars, queueVars
<1>9. ASSUME Look(p) PROVE NumbersOK' /\ WordsOK'
  BY <1>0, <1>a, <1>9 DEF Look, fileVars, localVars, callVars, queueVars
<1>10. ASSUME SignalPid(p) PROVE NumbersOK' /\ WordsOK'
  BY <1>0, <1>a, <1>10 DEF SignalPid, fileVars, localVars, callVars, queueVars, Registration
<1>11. ASSUME SignalSend(p) PROVE NumbersOK' /\ WordsOK'
  BY <1>0, <1>a, <1>11 DEF SignalSend, fileVars, localVars, callVars, queueVars
<1>12. ASSUME DeqWait(p) PROVE NumbersOK' /\ WordsOK'
  BY <1>0, <1>a, <1>12 DEF DeqWait, fileVars, localVars, callVars, queueVars
<1>13. ASSUME DeqTimeout(p) PROVE NumbersOK' /\ WordsOK'
  BY <1>0, <1>a, <1>13 DEF DeqTimeout, fileVars, localVars, callVars, queueVars
<1>14. ASSUME Unblock(p) PROVE NumbersOK' /\ WordsOK'
  BY <1>0, <1>a, <1>14 DEF Unblock, fileVars, localVars, callVars, queueVars
<1>15. ASSUME Deq(p) PROVE NumbersOK' /\ WordsOK'
  BY <1>0, <1>a, <1>15 DEF Deq, fileVars, localVars, callVars, queueVars
<1>16. ASSUME PostEnq(p) PROVE NumbersOK' /\ WordsOK'
  BY <1>0, <1>a, <1>16 DEF PostEnq, fileVars, localVars, callVars, queueVars
<1>17. ASSUME DeqBack(p) PROVE NumbersOK' /\ WordsOK'
  BY <1>0, <1>a, <1>17 DEF DeqBack, fileVars, localVars, callVars, queueVars
<1>18. ASSUME CallCount(p) PROVE NumbersOK' /\ WordsOK'
  <2>1. WordsOK'
    BY <1>0, <1>18 DEF CallCount, queueVars
  <2>2. pc[p] = "countBlocks" => blocks[handle[p]] - tally[p] \in Nat
    BY <1>0, <1>a, BlockedFinite DEF Counters
  <2>3. tally' \in [Procs -> Nat]
    BY <1>0, <1>a, <1>18, <2>2 DEF CallCount, At
  <2> QED
    BY <1>0, <1>18, <2>1, <2>3 DEF CallCount, fileVars, queueVars
<1>19. ASSUME Prod(p) PROVE NumbersOK' /\ WordsOK'
  <2>1. WordsOK'
    BY <1>0, <1>19 DEF Prod, queueVars
  <2>2. deqSem' \in [Files -> Nat] /\ tally' \in [Procs -> Nat]
    <3>1. CASE tally[p] > 0
      <4>1. /\ deqSem' = [deqSem EXCEPT ![handle[p]] = @ + 1]
            /\ tally' = [tally EXCEPT ![p] = @ - 1]
        BY <1>19, <3>1 DEF Prod
      <4>2. tally[p] \in Nat /\ deqSem[handle[p]] \in Nat
        BY <1>0, <1>a
      <4> QED
        BY <1>0, <1>a, <3>1, <4>1, <4>2
    <3>2. CASE ~(tally[p] > 0)
      BY <1>0, <1>19, <3>2 DEF Prod
    <3> QED
      BY <3>1, <3>2
  <2> QED
    BY <1>0, <1>19, <2>1, <2>2 DEF Prod, queueVars
<1>20. ASSUME Serve(p) PROVE NumbersOK' /\ WordsOK'
  BY <1>0, <1>a, <1>20 DEF Serve, fileVars, localVars, callVars, queueVars
<1>21. ASSUME PullEnds(p) PROVE NumbersOK' /\ WordsOK'
  BY <1>0, <1>a, <1>21 DEF PullEnds, fileVars, localVars, callVars, queueVars
<1>30. NumbersOK' /\ WordsOK'
  BY <1>1, <1>2, <1>3, <1>4, <1>5, <1>6, <1>7, <1>8, <1>9, <1>10, <1>11, <1>12, <1>13, <1>14,
     <1>15, <1>16, <1>17, <1>18, <1>19, <1>20, <1>21 DEF CallStep, Register, Add, Remove, Pull
<1> QED
  BY <1>30 DEF TypeOK, LifeTypeOK, Moved

(***************************************************************************)
(* Nobody is past ENQ_SEM, and no item is on the list, before ENQ_SEM has  *)
(* been initialized.                                                       *)
(***************************************************************************)
LEMMA CallsGated ==
    ASSUME TypeOK, Holding, Gates, NEW p \in Procs, CallStep(p), Moved(p)
    PROVE  Gates'
<1>0. /\ handle[p] \in Files /\ UNCHANGED <<has, handle>>
      /\ \A q \in Procs \ {p} : pc'[q] = pc[q]
      /\ enqSem \in [Files -> Nat] /\ items \in [Files -> Nat] /\ pc \in [Procs -> Labels]
  BY DEF Moved, TypeOK, LifeTypeOK
<1>1. CASE AddGate(p)
  BY <1>0, <1>1 DEF AddGate, Gates, Goto, Quit, callVars, queueVars
<1>2. CASE AddPush(p)
  BY <1>0, <1>2 DEF AddPush, Gates, At, Goto, fileVars
<1>3. CASE Deq(p)
  BY <1>0, <1>3 DEF Deq, Gates, At, Goto, fileVars
<1>4. CASE PostEnq(p)
  BY <1>0, <1>4 DEF PostEnq, Gates, At, Goto, Finish, callVars, queueVars
<1>5. CASE ~(AddGate(p) \/ AddPush(p) \/ Deq(p) \/ PostEnq(p))
  <2>1. UNCHANGED <<enqSem, items>> /\ pc'[p] \notin {"addPush", "postEnq"}
    BY <1>0, <1>5 DEF CallStep, Register, Add, Remove, Pull, fileVars, callVars, queueVars, Goto,
       Quit,
       Finish, Signalled, AddEnds, RegRead, RegCas, RegStore, AddPost, RemoveTry, RemoveBlocks,
       Look, SignalPid, SignalSend, DeqWait, DeqTimeout, Unblock, DeqBack, CallCount, Prod,
       Serve, PullEnds, At
  <2> QED
    BY <1>0, <2>1 DEF Gates
<1> QED
  BY <1>1, <1>2, <1>3, <1>4, <1>5

InGate(p) == pc[p] \in GateLabels /\ Call(p) # "try"

Others(p) == UNCHANGED handle /\ \A q \in Procs \ {p} : pc'[q] = pc[q] /\ todo'[q] = todo[q]

(***************************************************************************)
(* Who is between two counters, and who between two stores, when only one  *)
(* process moves.                                                          *)
(***************************************************************************)
LEMMA BlockedMoves ==
    ASSUME NEW p \in Procs, Others(p)
    PROVE  /\ (InGate(p)' <=> InGate(p)) => \A g \in Files : Blocked(g)' = Blocked(g)
           /\ (InGate(p)' /\ ~InGate(p)) =>
                \A g \in Files :
                    Blocked(g)' = IF g = handle[p] THEN Blocked(g) \cup {p} ELSE Blocked(g)
           /\ (~InGate(p)' /\ InGate(p)) =>
                \A g \in Files :
                    Blocked(g)' = IF g = handle[p] THEN Blocked(g) \ {p} ELSE Blocked(g)
           /\ InGate(p) <=> p \in Blocked(handle[p])
  BY DEF Others, Blocked, InGate, Call

\* The same of those who are halfway through a registration.
LEMMA HalfwayMoves ==
    ASSUME NEW p \in Procs, Others(p)
    PROVE  /\ (pc'[p] = "regStore" <=> pc[p] = "regStore") =>
                \A g \in Files : Halfway(g)' = Halfway(g)
           /\ (pc'[p] = "regStore" /\ pc[p] # "regStore") =>
                \A g \in Files :
                    Halfway(g)' = IF g = handle[p] THEN Halfway(g) \cup {p} ELSE Halfway(g)
           /\ (pc'[p] # "regStore" /\ pc[p] = "regStore") =>
                \A g \in Files :
                    Halfway(g)' = IF g = handle[p] THEN Halfway(g) \ {p} ELSE Halfway(g)
           /\ \A g \in Files : p \in Halfway(g) <=> pc[p] = "regStore" /\ handle[p] = g
  BY DEF Others, Halfway

(***************************************************************************)
(* Between its two counters a remove is blocked, and at no other time.     *)
(***************************************************************************)
LEMMA CallsCounted ==
    ASSUME TypeOK, Holding, Counters, NEW p \in Procs, CallStep(p), Moved(p)
    PROVE  Counters'
<1> PICK f \in Files : f = handle[p]
  BY DEF Moved
<1> DEFINE Told == {"deqWait", "lost", "unblock", "timedOut"}
<1>0. /\ f = handle[p] /\ UNCHANGED handle
      /\ \A q \in Procs \ {p} : pc'[q] = pc[q] /\ todo'[q] = todo[q]
      /\ pc'[p] # "idle" => todo'[p] = todo[p]
      /\ blocks \in [Files -> Nat] /\ unblocks \in [Files -> Nat] /\ tally \in [Procs -> Nat]
      /\ pc \in [Procs -> Labels]
  BY DEF Moved, TypeOK, LifeTypeOK
<1>b. Others(p)
  BY <1>0 DEF Others
<1>1. CASE RemoveBlocks(p)
  <2>1. /\ pc[p] = "idle" /\ pc'[p] = "look" /\ Call(p) # "try" /\ todo'[p] = todo[p]
        /\ blocks' = [blocks EXCEPT ![f] = @ + 1] /\ UNCHANGED <<unblocks, tally>>
    BY <1>0, <1>1 DEF RemoveBlocks, Using, Calling, At, Goto, queueVars, localVars
  <2>2. ~InGate(p) /\ InGate(p)'
    BY <2>1 DEF InGate, GateLabels, Call
  <2>3. /\ Blocked(f)' = Blocked(f) \cup {p} /\ p \notin Blocked(f)
        /\ \A g \in Files \ {f} : Blocked(g)' = Blocked(g)
    BY <1>0, <1>b, <2>2, BlockedMoves
  <2>4. Cardinality(Blocked(f)') = Cardinality(Blocked(f)) + 1
    BY <1>0, <2>3, FS_AddElement, BlockedFinite
  <2> QED
    <3>1. \A g \in Files : blocks'[g] - unblocks'[g] = Cardinality(Blocked(g)')
      <4>1. /\ blocks'[f] = blocks[f] + 1 /\ unblocks'[f] = unblocks[f]
            /\ blocks[f] \in Nat /\ unblocks[f] \in Nat
            /\ blocks[f] - unblocks[f] = Cardinality(Blocked(f))
        BY <1>0, <2>1 DEF Counters
      <4>2. blocks'[f] - unblocks'[f] = Cardinality(Blocked(f)')
        BY <2>4, <4>1
      <4>3. \A g \in Files \ {f} : blocks'[g] = blocks[g] /\ unblocks'[g] = unblocks[g]
        BY <1>0, <2>1
      <4> QED
        BY <2>3, <4>2, <4>3 DEF Counters
    <3> QED
      BY <1>0, <2>1, <3>1 DEF Counters, Call
<1>2. CASE Unblock(p)
  <2>1. /\ pc[p] \in {"unblock", "timedOut"} /\ pc'[p] \in {"deq", "idle"}
        /\ unblocks' = [unblocks EXCEPT ![f] = @ + 1] /\ UNCHANGED <<blocks, tally>>
    BY <1>0, <1>2 DEF Unblock, Finish, At, Goto, localVars
  <2>2. InGate(p) /\ ~InGate(p)'
    BY <2>1 DEF InGate, GateLabels, Counters
  <2>3. /\ Blocked(f)' = Blocked(f) \ {p} /\ p \in Blocked(f)
        /\ \A g \in Files \ {f} : Blocked(g)' = Blocked(g)
    BY <1>0, <1>b, <2>2, BlockedMoves
  <2>4. Cardinality(Blocked(f)') = Cardinality(Blocked(f)) - 1
    BY <1>0, <2>3, FS_RemoveElement, BlockedFinite
  <2>5. \A g \in Files : unblocks'[g] >= unblocks[g]
    BY <1>0, <2>1
  <2>6. \A q \in Procs : pc'[q] = "countBlocks" => pc[q] = "countBlocks" /\ handle[q] \in Files
    BY <1>0, <2>1 DEF Holding, UseLabels
  <2>7. \A g \in Files : blocks'[g] - unblocks'[g] = Cardinality(Blocked(g)')
    <3>1. /\ unblocks'[f] = unblocks[f] + 1 /\ blocks'[f] = blocks[f]
          /\ blocks[f] \in Nat /\ unblocks[f] \in Nat
          /\ blocks[f] - unblocks[f] = Cardinality(Blocked(f))
      BY <1>0, <2>1 DEF Counters
    <3>2. blocks'[f] - unblocks'[f] = Cardinality(Blocked(f)')
      BY <2>4, <3>1
    <3>3. \A g \in Files \ {f} : blocks'[g] = blocks[g] /\ unblocks'[g] = unblocks[g]
      BY <1>0, <2>1
    <3> QED
      BY <2>3, <3>2, <3>3 DEF Counters
  <2>8. \A q \in Procs : pc'[q] = "countBlocks" => tally'[q] <= unblocks'[handle'[q]]
    <3> SUFFICES ASSUME NEW q \in Procs, pc'[q] = "countBlocks"
                 PROVE  tally'[q] <= unblocks'[handle'[q]]
      OBVIOUS
    <3>1. tally[q] <= unblocks[handle[q]] /\ handle[q] \in Files
      BY <2>6 DEF Counters
    <3>2. unblocks[handle[q]] \in Nat /\ unblocks'[handle[q]] \in Nat /\ tally[q] \in Nat
      BY <1>0, <2>1, <3>1
    <3> QED
      BY <1>0, <2>1, <2>5, <3>1, <3>2
  <2>9. \A q \in Procs : pc'[q] \in Told => pc[q] \in Told /\ todo'[q] = todo[q]
    BY <1>0, <2>1
  <2> QED
    BY <2>7, <2>8, <2>9 DEF Counters, Call
<1>3. CASE ~(RemoveBlocks(p) \/ Unblock(p))
  <2>1. UNCHANGED <<blocks, unblocks>>
    BY <1>3 DEF CallStep, Register, Add, Remove, Pull, callVars, queueVars,
       RegRead, RegCas, RegStore, AddGate, AddPush, AddPost, RemoveTry, Look, SignalPid,
       SignalSend, DeqWait, DeqTimeout, Deq, PostEnq, DeqBack, CallCount, Prod, Serve, PullEnds
  <2>2. CASE CallCount(p)
    <3>1. ~InGate(p) /\ ~InGate(p)' /\ pc'[p] \in {"countBlocks", "prod"}
      BY <1>0, <2>2 DEF CallCount, At, Goto, InGate, GateLabels
    <3>2. pc'[p] = "countBlocks" => tally'[p] = unblocks[f]
      BY <1>0, <2>2 DEF CallCount, At, Goto
    <3>3. \A q \in Procs \ {p} : tally'[q] = tally[q]
      BY <1>0, <2>2 DEF CallCount
    <3>4. \A g \in Files : Blocked(g)' = Blocked(g)
      BY <1>b, <3>1, BlockedMoves
    <3> QED
      BY <1>0, <2>1, <3>1, <3>2, <3>3, <3>4 DEF Counters, Call
  <2>3. CASE ~CallCount(p)
    <3>1. /\ InGate(p)' <=> InGate(p)
          /\ pc'[p] # "countBlocks" \/ (pc[p] = "countBlocks" /\ tally'[p] = tally[p])
          /\ pc'[p] \in Told => Call(p)' # "try"
      BY <1>0, <1>3, <2>3 DEF CallStep, Register, Add, Remove, Pull, InGate, GateLabels, Counters,
         Goto, Quit, Finish, Signalled, AddEnds, At, Calling, Using, Registering, Call,
         RegRead, RegCas, RegStore, AddGate, AddPush, AddPost, RemoveTry, Look, SignalPid,
         SignalSend, DeqWait, DeqTimeout, Deq, PostEnq, DeqBack, Prod, Serve, PullEnds
    <3>2. \A q \in Procs \ {p} : tally'[q] = tally[q]
      BY <1>0, <1>3, <2>3 DEF CallStep, Register, Add, Remove, Pull, callVars, localVars,
         RegRead, RegCas, RegStore, AddGate, AddPush, AddPost, RemoveTry, Look, SignalPid,
         SignalSend, DeqWait, DeqTimeout, Deq, PostEnq, DeqBack, Prod, Serve, PullEnds
    <3>3. \A g \in Files : Blocked(g)' = Blocked(g)
      BY <1>b, <3>1, BlockedMoves
    <3> QED
      BY <1>0, <2>1, <3>1, <3>2, <3>3 DEF Counters, Call
  <2> QED
    BY <2>2, <2>3
<1> QED
  BY <1>1, <1>2, <1>3

(***************************************************************************)
(* Registrations that do not overlap leave a pair of their own.            *)
(***************************************************************************)
LEMMA CallsPaired ==
    ASSUME TypeOK, Pairs, NEW p \in Procs, CallStep(p), Moved(p)
    PROVE  Pairs'
<1> PICK f \in Files : f = handle[p]
  BY DEF Moved
<1>0. /\ f = handle[p] /\ UNCHANGED handle
      /\ \A q \in Procs \ {p} : pc'[q] = pc[q] /\ todo'[q] = todo[q]
      /\ pc'[p] # "idle" => todo'[p] = todo[p]
      /\ registered \in [Files -> Registration]
      /\ history \in [Files -> [overlap : BOOLEAN, last : Registration]]
      /\ pc \in [Procs -> Labels]
  BY DEF Moved, TypeOK, LifeTypeOK
<1>a. Others(p)
  BY <1>0 DEF Others
<1>c. \A g \in Files : Halfway(g) \subseteq Procs
  BY DEF Halfway
<1>b. \A q \in Procs \ {p} : Asked(q)' = Asked(q)
  BY <1>0 DEF Asked, Call, Nobody
<1>1. CASE RegCas(p)
  <2>0. pc[p] = "regCas"
    BY <1>1 DEF RegCas, At
  <2>1. CASE registered[f].pid = prev[p]
    <3>1. /\ pc'[p] = "regStore" /\ todo' = todo
          /\ registered' = [registered EXCEPT ![f].pid = Asked(p).pid]
          /\ history' = [history EXCEPT ![f].overlap = @ \/ Halfway(f) # {}]
      BY <1>0, <1>1, <2>1 DEF RegCas, Goto
    <3>2. /\ Halfway(f)' = Halfway(f) \cup {p}
          /\ \A g \in Files \ {f} : Halfway(g)' = Halfway(g)
      BY <1>0, <1>a, <2>0, <3>1, HalfwayMoves
    <3>3. /\ history'[f].overlap = (history[f].overlap \/ Halfway(f) # {})
          /\ registered'[f].pid = Asked(p).pid
          /\ \A g \in Files \ {f} : history'[g] = history[g] /\ registered'[g] = registered[g]
      BY <1>0, <3>1 DEF Registration
    <3>4. Asked(p)' = Asked(p)
      BY <3>1 DEF Asked, Call, Nobody
    <3>5. \A q \in Procs : Asked(q)' = Asked(q)
      BY <1>b, <3>4
    <3>6. ~history'[f].overlap => Halfway(f)' = {p} /\ registered'[f].pid = Asked(p)'.pid
      BY <1>0, <3>2, <3>3, <3>4
    <3> QED
      BY <1>c, <3>2, <3>3, <3>5, <3>6 DEF Pairs
  <2>2. CASE registered[f].pid # prev[p]
    <3>1. pc'[p] = "idle" /\ UNCHANGED <<registered, history>>
      BY <1>0, <1>1, <2>2 DEF RegCas, Quit, Goto
    <3>2. \A g \in Files : Halfway(g)' = Halfway(g) /\ p \notin Halfway(g)
      BY <1>0, <1>a, <2>0, <3>1, HalfwayMoves
    <3> QED
      BY <1>b, <1>c, <3>1, <3>2 DEF Pairs
  <2> QED
    BY <2>1, <2>2
<1>2. CASE RegStore(p)
  <2>1. /\ pc[p] = "regStore" /\ pc'[p] \in {"countUnblocks", "idle"}
        /\ registered' = [registered EXCEPT ![f].signal = Asked(p).signal]
        /\ history' = [history EXCEPT ![f].last = Asked(p)]
    BY <1>0, <1>2 DEF RegStore, At, Goto, Finish
  <2>2. /\ Halfway(f)' = Halfway(f) \ {p} /\ p \in Halfway(f)
        /\ \A g \in Files \ {f} : Halfway(g)' = Halfway(g) /\ p \notin Halfway(g)
    BY <1>0, <1>a, <2>1, HalfwayMoves
  <2>3. /\ history'[f].overlap = history[f].overlap /\ history'[f].last = Asked(p)
        /\ registered'[f] = [registered[f] EXCEPT !.signal = Asked(p).signal]
        /\ \A g \in Files \ {f} : history'[g] = history[g] /\ registered'[g] = registered[g]
    BY <1>0, <2>1
  <2>4. \A r \in Registration : r.pid = Asked(p).pid =>
            [r EXCEPT !.signal = Asked(p).signal] = Asked(p)
    BY DEF Registration, Asked, Nobody
  <2>5. ~history'[f].overlap => Halfway(f)' = {} /\ registered'[f] = history'[f].last
    BY <1>0, <2>2, <2>3, <2>4 DEF Pairs
  <2> QED
    BY <1>b, <1>c, <2>2, <2>3, <2>5 DEF Pairs
<1>3. CASE ~(RegCas(p) \/ RegStore(p))
  <2>1. UNCHANGED <<registered, history>> /\ pc[p] # "regStore" /\ pc'[p] # "regStore"
    BY <1>0, <1>3 DEF CallStep, Register, Add, Remove, Pull, callVars, queueVars,
       Goto, Quit, Finish, Signalled, AddEnds, At, Calling, Using, Registering,
       RegRead, AddGate, AddPush, AddPost, RemoveTry, RemoveBlocks, Look, SignalPid, SignalSend,
       DeqWait, DeqTimeout, Unblock, Deq, PostEnq, DeqBack, CallCount, Prod, Serve, PullEnds
  <2>2. \A g \in Files : Halfway(g)' = Halfway(g) /\ p \notin Halfway(g)
    BY <1>0, <1>a, <2>1, HalfwayMoves
  <2> QED
    BY <1>b, <1>c, <2>1, <2>2 DEF Pairs
<1> QED
  BY <1>1, <1>2, <1>3

-----------------------------------------------------------------------------
(* The life of the queue *)

\* what every step of it has in common: nobody's call on an open queue is disturbed, but
\* somebody who sleeps may be lost
Aside(p) ==
    /\ UNCHANGED callVars
    /\ \A q \in Procs :
          /\ pc'[q] \in UseLabels <=> pc[q] \in UseLabels
          /\ pc[q] \in UseLabels => /\ pc'[q] = pc[q] \/ (pc[q] = "deqWait" /\ pc'[q] = "lost")
                                    /\ handle'[q] = handle[q] /\ todo'[q] = todo[q]

(***************************************************************************)
(* Such a step leaves its types to the variables of QueueLife, and the     *)
(* calls on open queues alone.                                             *)
(***************************************************************************)
LEMMA LifeTyped ==
    ASSUME TypeOK, Holding, Formats, NEW p \in Procs, Life(p), UNCHANGED callVars
    PROVE  TypeOK' /\ Aside(p)
<1> DEFINE FilesOK ==
             /\ name \in Files \cup {NoFile} /\ made \in {0} \cup Files
             /\ has \in [Files -> SUBSET Fields]
             /\ deqSem \in [Files -> Nat] /\ enqSem \in [Files -> Nat]
           ProcsOK ==
             /\ pc \in [Procs -> Labels] /\ todo \in [Procs -> Seq(Calls)]
             /\ file \in [Procs -> Files \cup {NoFile}]
             /\ step \in [Procs -> 1..Len(CreateOrder)]
             /\ handle \in [Procs -> Files \cup {NoFile}] /\ dead \subseteq Procs
<1>0. /\ FilesOK /\ ProcsOK
      /\ todo[p] # <<>> => Tail(todo[p]) \in Seq(Calls)
      /\ <<>> \in Seq(Calls)
  BY DEF TypeOK, LifeTypeOK
<1>1. ASSUME CreateStat(p) PROVE FilesOK' /\ ProcsOK' /\ Aside(p)
  <2>1. FilesOK'
    BY <1>0, <1>1 DEF CreateStat, At, Goto, fileVars, Calling, Call, Quit
  <2>2. UNCHANGED <<step, dead>> /\ pc[p] \notin UseLabels /\ (pc[p] = "idle" => todo[p] # <<>>)
    BY <1>1 DEF CreateStat, At, Goto, fileVars, Calling, Call, Quit, UseLabels
  <2>3. /\ pc' \in [Procs -> Labels] /\ pc'[p] \notin UseLabels
        /\ \A q \in Procs \ {p} : pc'[q] = pc[q]
    BY <1>0, <1>1 DEF CreateStat, At, Goto, fileVars, Calling, Call, Quit, UseLabels, Labels,
       LifeLabels
  <2>4. todo' \in [Procs -> Seq(Calls)] /\ \A q \in Procs \ {p} : todo'[q] = todo[q]
    BY <1>0, <1>1 DEF CreateStat, At, Goto, fileVars, Calling, Call, Quit, Holding
  <2>5. /\ file' \in [Procs -> Files \cup {NoFile}] /\ handle' \in [Procs -> Files \cup {NoFile}]
        /\ \A q \in Procs \ {p} : handle'[q] = handle[q]
    BY <1>0, <1>1 DEF CreateStat, At, Goto, fileVars, Calling, Call, Quit
  <2> QED
    BY <1>0, <2>1, <2>2, <2>3, <2>4, <2>5 DEF Aside
<1>2. ASSUME CreateShm(p) PROVE FilesOK' /\ ProcsOK' /\ Aside(p)
  <2>1. FilesOK'
    BY <1>0, <1>2 DEF CreateShm, At, Goto, fileVars, Quit, NewFile
  <2>2. UNCHANGED <<step, dead>> /\ pc[p] \notin UseLabels /\ (pc[p] = "idle" => todo[p] # <<>>)
    BY <1>2 DEF CreateShm, At, Goto, fileVars, Quit, NewFile, UseLabels
  <2>3. /\ pc' \in [Procs -> Labels] /\ pc'[p] \notin UseLabels
        /\ \A q \in Procs \ {p} : pc'[q] = pc[q]
    BY <1>0, <1>2 DEF CreateShm, At, Goto, fileVars, Quit, NewFile, UseLabels, Labels, LifeLabels
  <2>4. todo' \in [Procs -> Seq(Calls)] /\ \A q \in Procs \ {p} : todo'[q] = todo[q]
    BY <1>0, <1>2 DEF CreateShm, At, Goto, fileVars, Quit, NewFile, Holding
  <2>5. /\ file' \in [Procs -> Files \cup {NoFile}] /\ handle' \in [Procs -> Files \cup {NoFile}]
        /\ \A q \in Procs \ {p} : handle'[q] = handle[q]
    BY <1>0, <1>2 DEF CreateShm, At, Goto, fileVars, Quit, NewFile
  <2> QED
    BY <1>0, <2>1, <2>2, <2>3, <2>4, <2>5 DEF Aside
<1>3. ASSUME Format(p) PROVE FilesOK' /\ ProcsOK' /\ Aside(p)
  <2> DEFINE f == file[p]
  <2>0. f \in Files /\ todo[p] # <<>> /\ pc[p] = "format"
    BY <1>0, <1>3 DEF Format, At, Holding
  <2>1. CreateOrder[step[p]] \in Fields
    BY <1>0, OrderOfStores
  <2>2. FilesOK'
    <3>1. has' = [has EXCEPT ![f] = @ \cup {CreateOrder[step[p]]}] /\ UNCHANGED <<name, made>>
      BY <1>3 DEF Format
    <3>2. has' \in [Files -> SUBSET Fields]
      BY <1>0, <2>1, <3>1
    <3>3. deqSem' = [deqSem EXCEPT ![f] = 0] \/ deqSem' = deqSem
      BY <1>3 DEF Format
    <3>4. enqSem' = [enqSem EXCEPT ![f] = MaxDepth] \/ enqSem' = enqSem
      BY <1>3 DEF Format
    <3>5. deqSem' \in [Files -> Nat]
      <4>1. \A n \in Nat : [deqSem EXCEPT ![f] = n] \in [Files -> Nat]
        BY <1>0
      <4>2. [deqSem EXCEPT ![f] = 0] \in [Files -> Nat]
        BY <4>1
      <4>3. deqSem \in [Files -> Nat]
        BY <1>0
      <4> QED
        BY <3>3, <4>2, <4>3
    <3>6. enqSem' \in [Files -> Nat]
      <4>1. MaxDepth \in Nat
        BY LifeAssumption
      <4> QED
        BY <1>0, <3>4, <4>1
    <3> QED
      BY <1>0, <3>1, <3>2, <3>5, <3>6
  <2>3. PICK lost \in SUBSET Sleepers(f) :
            pc' = [q \in Procs |-> IF q \in lost THEN "lost"
                                   ELSE IF q = p /\ step[p] = Len(CreateOrder) THEN "idle"
                                   ELSE pc[q]]
    BY <1>3 DEF Format
  <2>4. pc' \in [Procs -> Labels]
    BY <1>0, <2>3 DEF Labels, LifeLabels
  <2>5. CASE step[p] = Len(CreateOrder)
    <3>1. /\ handle' = [handle EXCEPT ![p] = f] /\ todo' = [todo EXCEPT ![p] = Tail(@)]
          /\ step' = [step EXCEPT ![p] = 1] /\ UNCHANGED <<file, dead>>
      BY <1>3, <2>5 DEF Format
    <3>2. step' \in [Procs -> 1..Len(CreateOrder)]
      BY <1>0, <3>1 DEF CreateOrder
    <3>3. ProcsOK'
      BY <1>0, <2>0, <2>4, <3>1, <3>2
    <3> QED
      BY <1>0, <2>0, <2>2, <2>3, <3>1, <3>3 DEF Aside, UseLabels, Sleepers, At
  <2>6. CASE step[p] # Len(CreateOrder)
    <3>1. step' = [step EXCEPT ![p] = @ + 1] /\ UNCHANGED <<handle, todo, file, dead>>
      BY <1>3, <2>6 DEF Format
    <3>2. step' \in [Procs -> 1..Len(CreateOrder)]
      <4>1. Len(CreateOrder) = 12
        BY DEF CreateOrder
      <4>2. step[p] + 1 \in 1..12
        <5>1. step[p] \in 1..12
          BY <1>0, <4>1
        <5> QED
          BY <2>6, <4>1, <5>1
      <4> QED
        BY <1>0, <3>1, <4>1, <4>2
    <3> QED
      BY <1>0, <2>0, <2>2, <2>3, <2>4, <3>1, <3>2 DEF Aside, UseLabels, Sleepers, At
  <2> QED
    BY <2>5, <2>6
<1>4. ASSUME OpenStat(p) PROVE FilesOK' /\ ProcsOK' /\ Aside(p)
  <2>1. FilesOK'
    BY <1>0, <1>4 DEF OpenStat, At, Goto, fileVars, Calling, NotThere, Quit
  <2>2. UNCHANGED <<step, dead>> /\ pc[p] \notin UseLabels /\ (pc[p] = "idle" => todo[p] # <<>>)
    BY <1>4 DEF OpenStat, At, Goto, fileVars, Calling, NotThere, Quit, UseLabels
  <2>3. /\ pc' \in [Procs -> Labels] /\ pc'[p] \notin UseLabels
        /\ \A q \in Procs \ {p} : pc'[q] = pc[q]
    BY <1>0, <1>4 DEF OpenStat, At, Goto, fileVars, Calling, NotThere, Quit, UseLabels, Labels,
       LifeLabels
  <2>4. todo' \in [Procs -> Seq(Calls)] /\ \A q \in Procs \ {p} : todo'[q] = todo[q]
    BY <1>0, <1>4 DEF OpenStat, At, Goto, fileVars, Calling, NotThere, Quit, Holding
  <2>5. /\ file' \in [Procs -> Files \cup {NoFile}] /\ handle' \in [Procs -> Files \cup {NoFile}]
        /\ \A q \in Procs \ {p} : handle'[q] = handle[q]
    BY <1>0, <1>4 DEF OpenStat, At, Goto, fileVars, Calling, NotThere, Quit
  <2> QED
    BY <1>0, <2>1, <2>2, <2>3, <2>4, <2>5 DEF Aside
<1>5. ASSUME OpenShm(p) PROVE FilesOK' /\ ProcsOK' /\ Aside(p)
  <2>1. FilesOK'
    BY <1>0, <1>5 DEF OpenShm, At, Goto, fileVars, NotThere, Quit
  <2>2. UNCHANGED <<step, dead>> /\ pc[p] \notin UseLabels /\ (pc[p] = "idle" => todo[p] # <<>>)
    BY <1>5 DEF OpenShm, At, Goto, fileVars, NotThere, Quit, UseLabels
  <2>3. /\ pc' \in [Procs -> Labels] /\ pc'[p] \notin UseLabels
        /\ \A q \in Procs \ {p} : pc'[q] = pc[q]
    BY <1>0, <1>5 DEF OpenShm, At, Goto, fileVars, NotThere, Quit, UseLabels, Labels, LifeLabels
  <2>4. todo' \in [Procs -> Seq(Calls)] /\ \A q \in Procs \ {p} : todo'[q] = todo[q]
    BY <1>0, <1>5 DEF OpenShm, At, Goto, fileVars, NotThere, Quit, Holding
  <2>5. /\ file' \in [Procs -> Files \cup {NoFile}] /\ handle' \in [Procs -> Files \cup {NoFile}]
        /\ \A q \in Procs \ {p} : handle'[q] = handle[q]
    BY <1>0, <1>5 DEF OpenShm, At, Goto, fileVars, NotThere, Quit
  <2> QED
    BY <1>0, <2>1, <2>2, <2>3, <2>4, <2>5 DEF Aside
<1>6. ASSUME OpenMap(p) PROVE FilesOK' /\ ProcsOK' /\ Aside(p)
  <2>1. FilesOK'
    BY <1>0, <1>6 DEF OpenMap, At, Goto, fileVars, Quit
  <2>2. UNCHANGED <<step, dead>> /\ pc[p] \notin UseLabels /\ (pc[p] = "idle" => todo[p] # <<>>)
    BY <1>6 DEF OpenMap, At, Goto, fileVars, Quit, UseLabels
  <2>3. /\ pc' \in [Procs -> Labels] /\ pc'[p] \notin UseLabels
        /\ \A q \in Procs \ {p} : pc'[q] = pc[q]
    BY <1>0, <1>6 DEF OpenMap, At, Goto, fileVars, Quit, UseLabels, Labels, LifeLabels
  <2>4. todo' \in [Procs -> Seq(Calls)] /\ \A q \in Procs \ {p} : todo'[q] = todo[q]
    BY <1>0, <1>6 DEF OpenMap, At, Goto, fileVars, Quit, Holding
  <2>5. /\ file' \in [Procs -> Files \cup {NoFile}] /\ handle' \in [Procs -> Files \cup {NoFile}]
        /\ \A q \in Procs \ {p} : handle'[q] = handle[q]
    BY <1>0, <1>6 DEF OpenMap, At, Goto, fileVars, Quit
  <2> QED
    BY <1>0, <2>1, <2>2, <2>3, <2>4, <2>5 DEF Aside
<1>7. ASSUME OpenCheck(p) PROVE FilesOK' /\ ProcsOK' /\ Aside(p)
  <2>1. FilesOK'
    BY <1>0, <1>7 DEF OpenCheck, At, Goto, fileVars, Finish, Quit
  <2>2. UNCHANGED <<step, dead>> /\ pc[p] \notin UseLabels /\ (pc[p] = "idle" => todo[p] # <<>>)
    BY <1>7 DEF OpenCheck, At, Goto, fileVars, Finish, Quit, UseLabels
  <2>3. /\ pc' \in [Procs -> Labels] /\ pc'[p] \notin UseLabels
        /\ \A q \in Procs \ {p} : pc'[q] = pc[q]
    BY <1>0, <1>7 DEF OpenCheck, At, Goto, fileVars, Finish, Quit, UseLabels, Labels, LifeLabels
  <2>4. todo' \in [Procs -> Seq(Calls)] /\ \A q \in Procs \ {p} : todo'[q] = todo[q]
    BY <1>0, <1>7 DEF OpenCheck, At, Goto, fileVars, Finish, Quit, Holding
  <2>5. /\ file' \in [Procs -> Files \cup {NoFile}] /\ handle' \in [Procs -> Files \cup {NoFile}]
        /\ \A q \in Procs \ {p} : handle'[q] = handle[q]
    BY <1>0, <1>7 DEF OpenCheck, At, Goto, fileVars, Finish, Quit
  <2> QED
    BY <1>0, <2>1, <2>2, <2>3, <2>4, <2>5 DEF Aside
<1>8. ASSUME Close(p) PROVE FilesOK' /\ ProcsOK' /\ Aside(p)
  <2>1. FilesOK'
    BY <1>0, <1>8 DEF Close, At, Goto, fileVars, Using, Calling, Finish
  <2>2. UNCHANGED <<step, dead>> /\ pc[p] \notin UseLabels /\ (pc[p] = "idle" => todo[p] # <<>>)
    BY <1>8 DEF Close, At, Goto, fileVars, Using, Calling, Finish, UseLabels
  <2>3. /\ pc' \in [Procs -> Labels] /\ pc'[p] \notin UseLabels
        /\ \A q \in Procs \ {p} : pc'[q] = pc[q]
    BY <1>0, <1>8 DEF Close, At, Goto, fileVars, Using, Calling, Finish, UseLabels, Labels,
       LifeLabels
  <2>4. todo' \in [Procs -> Seq(Calls)] /\ \A q \in Procs \ {p} : todo'[q] = todo[q]
    BY <1>0, <1>8 DEF Close, At, Goto, fileVars, Using, Calling, Finish, Holding
  <2>5. /\ file' \in [Procs -> Files \cup {NoFile}] /\ handle' \in [Procs -> Files \cup {NoFile}]
        /\ \A q \in Procs \ {p} : handle'[q] = handle[q]
    BY <1>0, <1>8 DEF Close, At, Goto, fileVars, Using, Calling, Finish
  <2> QED
    BY <1>0, <2>1, <2>2, <2>3, <2>4, <2>5 DEF Aside
<1>9. ASSUME Destroy(p) PROVE FilesOK' /\ ProcsOK' /\ Aside(p)
  <2>1. FilesOK'
    BY <1>0, <1>9 DEF Destroy, At, Goto, fileVars, Using, Calling, Finish
  <2>2. UNCHANGED <<step, dead>> /\ pc[p] \notin UseLabels /\ (pc[p] = "idle" => todo[p] # <<>>)
    BY <1>9 DEF Destroy, At, Goto, fileVars, Using, Calling, Finish, UseLabels
  <2>3. /\ pc' \in [Procs -> Labels] /\ pc'[p] \notin UseLabels
        /\ \A q \in Procs \ {p} : pc'[q] = pc[q]
    BY <1>0, <1>9 DEF Destroy, At, Goto, fileVars, Using, Calling, Finish, UseLabels, Labels,
       LifeLabels
  <2>4. todo' \in [Procs -> Seq(Calls)] /\ \A q \in Procs \ {p} : todo'[q] = todo[q]
    BY <1>0, <1>9 DEF Destroy, At, Goto, fileVars, Using, Calling, Finish, Holding
  <2>5. /\ file' \in [Procs -> Files \cup {NoFile}] /\ handle' \in [Procs -> Files \cup {NoFile}]
        /\ \A q \in Procs \ {p} : handle'[q] = handle[q]
    BY <1>0, <1>9 DEF Destroy, At, Goto, fileVars, Using, Calling, Finish
  <2> QED
    BY <1>0, <2>1, <2>2, <2>3, <2>4, <2>5 DEF Aside
<1>10. ASSUME NoQueue(p) PROVE FilesOK' /\ ProcsOK' /\ Aside(p)
  <2>1. FilesOK'
    BY <1>0, <1>10 DEF NoQueue, At, Goto, fileVars, Calling, Quit
  <2>2. UNCHANGED <<step, dead>> /\ pc[p] \notin UseLabels /\ (pc[p] = "idle" => todo[p] # <<>>)
    BY <1>10 DEF NoQueue, At, Goto, fileVars, Calling, Quit, UseLabels
  <2>3. /\ pc' \in [Procs -> Labels] /\ pc'[p] \notin UseLabels
        /\ \A q \in Procs \ {p} : pc'[q] = pc[q]
    BY <1>0, <1>10 DEF NoQueue, At, Goto, fileVars, Calling, Quit, UseLabels, Labels, LifeLabels
  <2>4. todo' \in [Procs -> Seq(Calls)] /\ \A q \in Procs \ {p} : todo'[q] = todo[q]
    BY <1>0, <1>10 DEF NoQueue, At, Goto, fileVars, Calling, Quit, Holding
  <2>5. /\ file' \in [Procs -> Files \cup {NoFile}] /\ handle' \in [Procs -> Files \cup {NoFile}]
        /\ \A q \in Procs \ {p} : handle'[q] = handle[q]
    BY <1>0, <1>10 DEF NoQueue, At, Goto, fileVars, Calling, Quit
  <2> QED
    BY <1>0, <2>1, <2>2, <2>3, <2>4, <2>5 DEF Aside
<1> QED
  BY <1>1, <1>2, <1>3, <1>4, <1>5, <1>6, <1>7, <1>8, <1>9, <1>10 DEF Life, TypeOK, LifeTypeOK,
     callVars, queueVars, localVars

(***************************************************************************)
(* Such a step leaves the counters and the registrations alone.            *)
(***************************************************************************)
LEMMA AsideKeeps ==
    ASSUME TypeOK, Counters, Pairs, NEW p \in Procs, Aside(p)
    PROVE  Counters' /\ Pairs'
<1>1. UNCHANGED <<blocks, unblocks, tally, registered, history>>
  BY DEF Aside, callVars, queueVars, localVars
<1>2. \A g \in Files : Blocked(g)' = Blocked(g)
  BY DEF Aside, UseLabels, Blocked, GateLabels, Call
<1>3. \A g \in Files : Halfway(g)' = Halfway(g)
  BY DEF Aside, UseLabels, Halfway
<1>4. \A q \in Procs : pc'[q] = "countBlocks" => pc[q] = "countBlocks" /\ handle'[q] = handle[q]
  BY DEF Aside, UseLabels
<1>5. \A q \in Procs : pc'[q] \in {"deqWait", "lost", "unblock", "timedOut"} =>
          pc[q] \in {"deqWait", "lost", "unblock", "timedOut"} /\ todo'[q] = todo[q]
  BY DEF Aside, UseLabels
<1>6. Counters'
  BY <1>1, <1>2, <1>4, <1>5 DEF Counters, Call
<1>7. \A g \in Files : \A q \in Halfway(g) : q \in Procs /\ Asked(q)' = Asked(q)
  BY DEF Halfway, Aside, UseLabels, Asked, Call, Nobody
<1>8. Pairs'
  BY <1>1, <1>3, <1>7 DEF Pairs
<1> QED
  BY <1>6, <1>8

(***************************************************************************)
(* What is stored stays; ENQ_SEM is set only by the store of shr_q_create. *)
(***************************************************************************)
LEMMA LifeGated ==
    ASSUME TypeOK, Holding, Gates, NEW p \in Procs, Life(p), Aside(p)
    PROVE  Gates'
<1>1. UNCHANGED <<items>>
  BY DEF Aside, callVars, queueVars
<1>2. \A f \in Files : /\ has[f] \subseteq has'[f]
                       /\ enqSem'[f] = enqSem[f] \/ "ENQ_SEM" \in has'[f]
  <2>1. CASE Format(p)
    <3>1. file[p] \in Files
      BY <2>1 DEF Format, At, Holding
    <3> QED
      BY <2>1, <3>1 DEF Format, TypeOK, LifeTypeOK
  <2>2. CASE ~Format(p)
    BY <2>2 DEF Life, CreateStat, CreateShm, OpenStat, OpenShm, OpenMap, OpenCheck, Close, Destroy,
       NoQueue, fileVars
  <2> QED
    BY <2>1, <2>2
<1>3. \A q \in Procs : pc'[q] \in {"addPush", "postEnq"} =>
          pc[q] \in {"addPush", "postEnq"} /\ handle'[q] = handle[q] /\ handle[q] \in Files
  BY DEF Aside, UseLabels, Holding
<1> QED
  BY <1>1, <1>2, <1>3 DEF Gates

(***************************************************************************)
(* A call goes on with the file it has found or created.                   *)
(***************************************************************************)
LEMMA LifeHolds ==
    ASSUME TypeOK, Holding, NEW p \in Procs, Life(p), Aside(p)
    PROVE  Holding'
<1>0. /\ name \in Files \cup {NoFile} /\ made \in {0} \cup Files /\ pc \in [Procs -> Labels]
      /\ todo \in [Procs -> Seq(Calls)] /\ file \in [Procs -> Files \cup {NoFile}]
      /\ handle \in [Procs -> Files \cup {NoFile}]
  BY DEF TypeOK, LifeTypeOK
<1>a. NoFile \notin Files /\ Files \subseteq Nat /\ made \in Nat
  BY <1>0, LifeAssumption, FS_CardinalityType
<1>b. \A q \in Procs : pc'[q] \in UseLabels => handle'[q] \in Files
  BY DEF Aside, Holding
<1>1. CASE CreateStat(p)
  BY <1>0, <1>a, <1>b, <1>1 DEF CreateStat, At, Goto, fileVars, Calling, Call, Quit, Holding
<1>2. CASE CreateShm(p)
  <2>1. CASE name # NoFile
    BY <1>0, <1>b, <1>2, <2>1 DEF CreateShm, At, Goto, Quit, Holding
  <2>2. CASE name = NoFile
    <3>1. /\ name' = made + 1 /\ made' = made + 1 /\ made + 1 \in Files
          /\ pc[p] = "createShm" /\ pc' = [pc EXCEPT ![p] = "format"]
          /\ file' = [file EXCEPT ![p] = made + 1] /\ UNCHANGED <<todo, handle>>
      BY <1>2, <2>2 DEF CreateShm, NewFile, At, Goto
    <3>2. \A g \in Files : g <= made => g <= made + 1
      BY <1>a
    <3>3. made + 1 <= made + 1
      BY <1>a
    <3>4. \A q \in Procs : file'[q] \in Files => file'[q] <= made'
      BY <1>0, <3>1, <3>2, <3>3 DEF Holding
    <3>5. \A q \in Procs : handle'[q] \in Files => handle'[q] <= made'
      BY <1>0, <3>1, <3>2 DEF Holding
    <3>6. \A q \in Procs :
              /\ pc'[q] # "idle" => todo'[q] # <<>>
              /\ pc'[q] \in {"format", "openMap", "openCheck"} => file'[q] \in Files
      BY <1>0, <3>1 DEF Holding
    <3> QED
      BY <1>b, <3>1, <3>3, <3>4, <3>5, <3>6 DEF Holding
  <2> QED
    BY <2>1, <2>2
<1>3. CASE Format(p)
  BY <1>0, <1>a, <1>b, <1>3 DEF Format, At, Goto, fileVars, Sleepers, Holding
<1>4. CASE OpenStat(p)
  BY <1>0, <1>a, <1>b, <1>4 DEF OpenStat, At, Goto, fileVars, Calling, NotThere, Quit, Holding
<1>5. CASE OpenShm(p)
  BY <1>0, <1>a, <1>b, <1>5 DEF OpenShm, At, Goto, fileVars, NotThere, Quit, Holding
<1>6. CASE OpenMap(p)
  BY <1>0, <1>a, <1>b, <1>6 DEF OpenMap, At, Goto, fileVars, Quit, Holding
<1>7. CASE OpenCheck(p)
  BY <1>0, <1>a, <1>b, <1>7 DEF OpenCheck, At, Goto, fileVars, Finish, Quit, Holding
<1>8. CASE Close(p)
  BY <1>0, <1>a, <1>b, <1>8 DEF Close, At, Goto, fileVars, Using, Calling, Finish, Holding
<1>9. CASE Destroy(p)
  BY <1>0, <1>a, <1>b, <1>9 DEF Destroy, At, Goto, fileVars, Using, Calling, Finish, Holding
<1>10. CASE NoQueue(p)
  BY <1>0, <1>a, <1>b, <1>10 DEF NoQueue, At, Goto, fileVars, Calling, Quit, Holding
<1> QED
  BY <1>1, <1>2, <1>3, <1>4, <1>5, <1>6, <1>7, <1>8, <1>9, <1>10 DEF Life

(***************************************************************************)
(* Each store is made by the only process that formats the file.           *)
(***************************************************************************)
LEMMA LifeFormats ==
    ASSUME TypeOK, Holding, Formats, NEW p \in Procs, Life(p)
    PROVE  Formats'
<1>0. /\ name \in Files \cup {NoFile} /\ made \in {0} \cup Files /\ pc \in [Procs -> Labels]
      /\ has \in [Files -> SUBSET Fields] /\ file \in [Procs -> Files \cup {NoFile}]
      /\ step \in [Procs -> 1..Len(CreateOrder)]
      /\ handle \in [Procs -> Files \cup {NoFile}]
  BY DEF TypeOK, LifeTypeOK
<1>a. NoFile \notin Files /\ Files \subseteq Nat /\ made \in Nat
  BY <1>0, LifeAssumption, FS_CardinalityType
<1>1. CASE Format(p)
  <2> PICK f \in Files, k \in 1..Len(CreateOrder) : f = file[p] /\ k = step[p]
    BY <1>0, <1>1 DEF Format, At, Holding
  <2>1. pc[p] = "format" /\ f = file[p] /\ k = step[p] /\ f <= made /\ has[f] = Stored(k)
    BY <1>0, <1>1 DEF Format, At, Holding, Formats
  <2>2. UNCHANGED <<name, made, file>> /\ has' = [has EXCEPT ![f] = @ \cup {CreateOrder[k]}]
    BY <1>1, <2>1 DEF Format
  <2>3. has'[f] = Stored(k + 1) /\ InOrder(has'[f]) /\ \A g \in Files \ {f} : has'[g] = has[g]
    <3>1. has'[f] = has[f] \cup {CreateOrder[k]} /\ \A g \in Files \ {f} : has'[g] = has[g]
      BY <1>0, <2>2
    <3>2. Stored(k + 1) = Stored(k) \cup {CreateOrder[k]} /\ InOrder(Stored(k + 1))
      BY OrderOfStores
    <3>3. has'[f] = Stored(k + 1)
      BY <2>1, <3>1, <3>2
    <3> QED
      BY <3>1, <3>2, <3>3
  <2>4. \A g \in Files : has[g] \subseteq has'[g]
    BY <1>0, <2>2
  <2>5. \A q \in Procs \ {p} : /\ pc'[q] = "format" <=> pc[q] = "format"
                               /\ step'[q] = step[q] /\ handle'[q] = handle[q]
                               /\ pc[q] = "format" => file[q] \in Files \ {f}
    <3> SUFFICES ASSUME NEW q \in Procs \ {p}
                 PROVE  /\ pc'[q] = "format" <=> pc[q] = "format"
                        /\ step'[q] = step[q] /\ handle'[q] = handle[q]
                        /\ pc[q] = "format" => file[q] \in Files \ {f}
      OBVIOUS
    <3>1. pc'[q] = "format" <=> pc[q] = "format"
      BY <1>0, <1>1 DEF Format, Sleepers, At
    <3>2. step'[q] = step[q] /\ handle'[q] = handle[q]
      BY <1>0, <1>1 DEF Format
    <3>3. pc[q] = "format" => file[q] \in Files \ {f}
      BY <2>1 DEF Formats, Holding
    <3> QED
      BY <3>1, <3>2, <3>3
  <2>8. /\ \A q \in Procs : handle[q] \in Files => Header \subseteq has[handle[q]]
        /\ \A q \in Procs : pc[q] = "format" => has[file[q]] = Stored(step[q])
        /\ \A q \in Procs : pc[q] # "format" => step[q] = 1
        /\ \A q, r \in Procs : pc[q] = "format" /\ pc[r] = "format" /\ file[q] = file[r] => q = r
    BY DEF Formats
  <2>9. \A q \in Procs \ {p} :
            /\ handle'[q] \in Files => Header \subseteq has'[handle'[q]]
            /\ pc'[q] = "format" => has'[file[q]] = Stored(step'[q])
            /\ pc'[q] # "format" => step'[q] = 1
    <3> SUFFICES ASSUME NEW q \in Procs \ {p}
                 PROVE  /\ handle'[q] \in Files => Header \subseteq has'[handle'[q]]
                        /\ pc'[q] = "format" => has'[file[q]] = Stored(step'[q])
                        /\ pc'[q] # "format" => step'[q] = 1
      OBVIOUS
    <3>1. handle'[q] \in Files => Header \subseteq has'[handle'[q]]
      BY <2>4, <2>5, <2>8
    <3>2. pc'[q] = "format" => has'[file[q]] = Stored(step'[q])
      BY <2>3, <2>5, <2>8
    <3> QED
      BY <2>5, <2>8, <3>1, <3>2
  <2>10. \A q, r \in Procs \ {p} : pc'[q] = "format" /\ pc'[r] = "format" /\ file[q] = file[r]
            => q = r
    BY <2>5, <2>8
  <2>6. CASE k = Len(CreateOrder)
    <3>1. pc'[p] = "idle" /\ step'[p] = 1 /\ handle'[p] = f
      BY <1>0, <1>1, <2>1, <2>6 DEF Format, Sleepers, At
    <3>2. Header \subseteq has'[f]
      BY <2>1, <2>3, <2>6, OrderOfStores
    <3>3. \A q \in Procs : handle'[q] \in Files => Header \subseteq has'[handle'[q]]
      BY <2>9, <3>1, <3>2
    <3>4. \A g \in Files : (g > made => has'[g] = {}) /\ InOrder(has'[g])
      BY <1>a, <2>1, <2>3 DEF Formats
    <3>5. \A q \in Procs : /\ pc'[q] = "format" => has'[file[q]] = Stored(step'[q])
                           /\ pc'[q] # "format" => step'[q] = 1
      BY <2>1, <2>3, <2>9, <3>1
    <3>6. \A q, r \in Procs : pc'[q] = "format" /\ pc'[r] = "format" /\ file[q] = file[r]
            => q = r
      BY <2>10, <3>1
    <3> QED
      BY <2>2, <3>3, <3>4, <3>5, <3>6 DEF Formats
  <2>7. CASE k # Len(CreateOrder)
    <3>1. pc'[p] = "format" /\ step'[p] = k + 1 /\ handle'[p] = handle[p]
      BY <1>0, <1>1, <2>1, <2>7 DEF Format, Sleepers, At
    <3>3. \A q \in Procs : handle'[q] \in Files => Header \subseteq has'[handle'[q]]
      BY <2>1, <2>4, <2>8, <2>9, <3>1
    <3>4. \A g \in Files : (g > made => has'[g] = {}) /\ InOrder(has'[g])
      BY <1>a, <2>1, <2>3 DEF Formats
    <3>5. \A q \in Procs : /\ pc'[q] = "format" => has'[file[q]] = Stored(step'[q])
                           /\ pc'[q] # "format" => step'[q] = 1
      BY <2>1, <2>3, <2>9, <3>1
    <3>6. \A q, r \in Procs : pc'[q] = "format" /\ pc'[r] = "format" /\ file[q] = file[r]
            => q = r
      BY <2>1, <2>5, <2>10
    <3> QED
      BY <2>2, <3>3, <3>4, <3>5, <3>6 DEF Formats
  <2> QED
    BY <2>6, <2>7
<1>2. CASE CreateShm(p)
  <2>1. CASE name # NoFile
    BY <1>0, <1>2, <2>1 DEF CreateShm, At, Goto, Quit, Formats
  <2>2. CASE name = NoFile
    <3>1. /\ name' = made + 1 /\ made' = made + 1 /\ made + 1 \in Files
          /\ pc[p] = "createShm" /\ pc' = [pc EXCEPT ![p] = "format"]
          /\ file' = [file EXCEPT ![p] = made + 1] /\ UNCHANGED <<has, step, handle>>
      BY <1>2, <2>2 DEF CreateShm, NewFile, At, Goto
    <3>2. has[made + 1] = {} /\ step[p] = 1 /\ Stored(1) = {}
      BY <1>a, <3>1 DEF Formats, Stored
    <3>3. \A q \in Procs : pc[q] = "format" => file[q] # made + 1
      BY <1>a, <3>1 DEF Holding
    <3>4. \A g \in Files : g > made' => g > made
      BY <1>a, <3>1
    <3>5. \A q \in Procs : /\ pc'[q] = "format" => has[file'[q]] = Stored(step[q])
                           /\ pc'[q] # "format" => step[q] = 1
      BY <1>0, <3>1, <3>2 DEF Formats
    <3>6. \A q, r \in Procs :
              pc'[q] = "format" /\ pc'[r] = "format" /\ file'[q] = file'[r] => q = r
      BY <1>0, <3>1, <3>3 DEF Formats
    <3> QED
      BY <3>1, <3>4, <3>5, <3>6 DEF Formats
  <2> QED
    BY <2>1, <2>2
<1>3. CASE OpenCheck(p)
  BY <1>0, <1>3 DEF OpenCheck, At, Goto, Finish, Quit, fileVars, Formats, Holding, InOrder
<1>4. CASE ~(Format(p) \/ CreateShm(p) \/ OpenCheck(p))
  <2>1. /\ UNCHANGED <<made, has, step>>
        /\ handle'[p] \in {handle[p], NoFile} /\ \A q \in Procs \ {p} : handle'[q] = handle[q]
    BY <1>0, <1>4 DEF Life, CreateStat, OpenStat, OpenShm, OpenMap, Close, Destroy, NoQueue,
       fileVars
  <2>2. /\ pc[p] # "format" /\ pc'[p] # "format"
        /\ \A q \in Procs \ {p} : pc'[q] = pc[q] /\ file'[q] = file[q]
    BY <1>0, <1>4 DEF Life, CreateStat, OpenStat, OpenShm, OpenMap, Close, Destroy, NoQueue,
       fileVars,
       At, Goto, Calling, Using, Quit, Finish, NotThere
  <2> QED
    BY <1>a, <2>1, <2>2 DEF Formats
<1> QED
  BY <1>1, <1>2, <1>3, <1>4

-----------------------------------------------------------------------------
(* The invariant *)

(***************************************************************************)
(* A crash disturbs nothing: what was stored stays as it is.               *)
(***************************************************************************)
LEMMA CrashKeeps ==
    ASSUME Inv, UNCHANGED <<name, made, has, deqSem, enqSem, pc, todo, file, step, handle>>,
           UNCHANGED callVars, dead' \subseteq Procs
    PROVE  Inv'
<1>1. /\ \A f \in Files : Blocked(f)' = Blocked(f) /\ Halfway(f)' = Halfway(f)
      /\ \A p \in Procs : Asked(p)' = Asked(p)
  BY DEF Blocked, Halfway, Asked, Call, Nobody
<1>2. \A f \in Files : Halfway(f) \subseteq Procs
  BY DEF Halfway
<1>3. TypeOK' /\ Holding' /\ Formats' /\ Gates'
  BY DEF Inv, TypeOK, LifeTypeOK, Holding, Formats, Gates, callVars, queueVars, localVars
<1>4. Counters'
  BY <1>1 DEF Inv, Counters, callVars, queueVars, localVars, Call
<1>5. Pairs'
  BY <1>1, <1>2 DEF Inv, Pairs, callVars, queueVars
<1> QED
  BY <1>3, <1>4, <1>5 DEF Inv

(***************************************************************************)
(* At first there is no file, or one that is formatted and that everybody  *)
(* has open, and nobody is in a call.                                      *)
(***************************************************************************)
LEMMA InitInv == Init => Inv
<1> SUFFICES ASSUME Init PROVE Inv
  OBVIOUS
<1>1. PICK scenario \in Scenarios : InitLife(scenario)
  BY DEF Init
<1>2. /\ 1 \in Files /\ NoFile \notin Files /\ Files \subseteq Nat /\ MaxDepth \in Nat
      /\ scenario.program \in [Procs -> Seq(Calls)]
  <2>1. Cardinality(Files) \in Nat /\ Cardinality(Files) >= 1
    BY LifeAssumption, FS_CardinalityType
  <2> QED
    BY <2>1, LifeAssumption
<1>3. /\ name \in {1, NoFile} /\ made = IF name = 1 THEN 1 ELSE 0
      /\ has = [f \in Files |-> IF f <= made THEN Fields ELSE {}]
      /\ pc = [p \in Procs |-> "idle"] /\ todo = scenario.program
      /\ file = [p \in Procs |-> NoFile] /\ step = [p \in Procs |-> 1]
      /\ handle = [p \in Procs |-> name]
      /\ deqSem = [f \in Files |-> 0] /\ dead = {}
      /\ enqSem = [f \in Files |-> IF f <= made THEN MaxDepth ELSE 0]
  BY <1>1, <1>2 DEF InitLife
<1>4. LifeTypeOK
  <2>1. 1 \in 1..Len(CreateOrder)
    BY DEF CreateOrder
  <2> QED
    BY <1>2, <1>3, <2>1 DEF LifeTypeOK
<1>5. TypeOK
  BY <1>3, <1>4 DEF TypeOK, Init, Labels, LifeLabels, Registration, Nobody
<1>6. Holding
  BY <1>2, <1>3 DEF Holding, UseLabels
<1>7. Formats
  <2>1. /\ Header \subseteq Fields /\ "pool" \in Fields
    <3>1. \A i \in 1..12 : CreateOrder[i] \in Fields
      BY DEF Fields, CreateOrder
    <3> QED
      BY <3>1 DEF Header, CreateOrder
  <2>2. \A f \in Files : (f > made => has[f] = {}) /\ InOrder(has[f])
    BY <1>2, <1>3, <2>1 DEF InOrder
  <2>3. \A p \in Procs : handle[p] \in Files => Header \subseteq has[handle[p]]
    BY <1>2, <1>3, <2>1
  <2> QED
    BY <1>3, <2>2, <2>3 DEF Formats
<1>8. Gates
  <2>1. "ENQ_SEM" \in Fields
    <3>1. \A i \in 1..12 : CreateOrder[i] \in Fields
      BY DEF Fields, CreateOrder
    <3> QED
      BY <3>1 DEF CreateOrder
  <2> QED
    BY <1>2, <1>3, <2>1 DEF Gates, Init
<1>9. \A f \in Files : Blocked(f) = {} /\ Halfway(f) = {}
  BY <1>3 DEF Blocked, Halfway, GateLabels
<1>10. Counters
  <2>1. \A f \in Files : blocks[f] = 0 /\ unblocks[f] = 0
    BY DEF Init
  <2>2. Cardinality({}) = 0
    BY FS_EmptySet
  <2>3. \A p \in Procs : pc[p] \notin {"countBlocks", "deqWait", "lost", "unblock", "timedOut"}
    BY <1>3
  <2> QED
    BY <1>9, <2>1, <2>2, <2>3 DEF Counters
<1>11. Pairs
  BY <1>9 DEF Pairs, Init
<1> QED
  BY <1>5, <1>6, <1>7, <1>8, <1>10, <1>11 DEF Inv

(***************************************************************************)
(* No step breaks the invariant.                                           *)
(***************************************************************************)
LEMMA InvKept == Inv /\ [Next]_vars => Inv'
<1> SUFFICES ASSUME Inv, [Next]_vars PROVE Inv'
  OBVIOUS
<1>1. ASSUME NEW p \in Procs, CallStep(p) PROVE Inv'
  <2>1. Moved(p)
    BY <1>1, CallsMove DEF Inv
  <2>2. TypeOK' /\ Holding' /\ Formats' /\ Gates'
    BY <1>1, <2>1, CallsType, CallsHold, CallsGated DEF Inv
  <2>3. Counters' /\ Pairs'
    BY <1>1, <2>1, CallsCounted, CallsPaired DEF Inv
  <2> QED
    BY <2>2, <2>3 DEF Inv
<1>2. ASSUME NEW p \in Procs, Life(p), UNCHANGED callVars PROVE Inv'
  <2>1. TypeOK' /\ Aside(p)
    BY <1>2, LifeTyped DEF Inv
  <2>2. Holding' /\ Formats' /\ Gates'
    BY <1>2, <2>1, LifeHolds, LifeFormats, LifeGated DEF Inv
  <2>3. Counters' /\ Pairs'
    BY <2>1, AsideKeeps DEF Inv
  <2> QED
    BY <2>1, <2>2, <2>3 DEF Inv
<1>3. ASSUME NEW p \in Procs, Crash(p), UNCHANGED callVars PROVE Inv'
  <2>1. dead' \subseteq Procs
    BY <1>3 DEF Crash, Inv, TypeOK, LifeTypeOK
  <2> QED
    BY <1>3, <2>1, CrashKeeps DEF Crash, fileVars
<1>4. CASE UNCHANGED vars
  <2>1. dead' \subseteq Procs
    BY <1>4 DEF vars, lifeVars, procVars, Inv, TypeOK, LifeTypeOK
  <2> QED
    BY <1>4, <2>1, CrashKeeps DEF vars, lifeVars, procVars, fileVars
<1> QED
  BY <1>1, <1>2, <1>3, <1>4 DEF Next, Work, CallStep

(***************************************************************************)
(* The invariant holds of every behaviour.                                 *)
(***************************************************************************)
LEMMA Invariance == Spec => []Inv
  BY InitInv, InvKept, PTL DEF Spec

-----------------------------------------------------------------------------
(* What follows *)

(***************************************************************************)
(* Every variable keeps its type; the semaphores, the counters and the     *)
(* result of shr_q_call_count never go below 0.                            *)
(***************************************************************************)
THEOREM CallsTyped == Spec => []TypeOK
<1>1. Inv => TypeOK
  BY DEF Inv
<1> QED
  BY <1>1, Invariance, PTL

(***************************************************************************)
(* However many call shr_q_create at a time, one formats the file.         *)
(***************************************************************************)
THEOREM FormattedOnce == Spec => []OneFormatter
<1>1. Inv => OneFormatter
  <2> SUFFICES ASSUME Inv, NEW f \in Files, NEW p \in Procs, Formatting(p, f)
               PROVE  (\A q \in Procs : Formatting(q, f) => q = p) /\ has[f] # Fields
    BY DEF OneFormatter
  <2>1. \A q \in Procs : Formatting(q, f) => q = p
    BY DEF Inv, Formats, Formatting
  <2>2. has[f] = Stored(step[p]) /\ step[p] \in 1..Len(CreateOrder)
    BY DEF Inv, Formats, Formatting, TypeOK, LifeTypeOK
  <2> QED
    BY <2>1, <2>2, OrderOfStores
<1> QED
  BY <1>1, Invariance, PTL

(***************************************************************************)
(* Whoever has opened a queue finds a whole header, and nobody can add to  *)
(* it before its pool is there.                                            *)
(***************************************************************************)
THEOREM HeaderFirst == Spec => []ReadyWhenUsed
<1>1. Inv => ReadyWhenUsed
  BY DEF Inv, ReadyWhenUsed, TypeOK, LifeTypeOK, Formats, Gates, InOrder
<1> QED
  BY <1>1, Invariance, PTL

(***************************************************************************)
(* Registrations that did not overlap leave the process and the signal of  *)
(* one call.                                                               *)
(***************************************************************************)
THEOREM PairsKept == Spec => []PairTogether
<1>1. Inv => PairTogether
  BY DEF Inv, Pairs, PairTogether
<1> QED
  BY <1>1, Invariance, PTL

(***************************************************************************)
(* shr_q_call_count reads its two counters in the order in which its       *)
(* result cannot be too small.                                             *)
(***************************************************************************)
THEOREM CountCovers == Spec => CallCountCovers
<1> DEFINE Covers == \A p \in Procs :
                        (pc[p] = "countBlocks" /\ pc'[p] = "prod")
                            => tally'[p] >= Cardinality(Blocked(handle[p]))
<1>1. Inv /\ [Next]_vars => [Covers]_vars
  <2> SUFFICES ASSUME Inv, Next, NEW p \in Procs, pc[p] = "countBlocks", pc'[p] = "prod"
               PROVE  tally'[p] >= Cardinality(Blocked(handle[p]))
    OBVIOUS
  <2>1. PICK q \in Procs : CallStep(q) \/ (Life(q) /\ UNCHANGED callVars) \/ Crash(q)
    BY DEF Next, Work, CallStep
  <2>2. ~Crash(q)
    BY DEF Crash
  <2>3. ~(Life(q) /\ UNCHANGED callVars)
    BY LifeTyped DEF Inv, Aside, UseLabels
  <2>4. CallStep(p)
    BY <2>1, <2>2, <2>3, CallsMove DEF Inv, Moved
  <2>5. CallCount(p)
    BY <2>4 DEF CallStep, Register, Add, Remove, Pull, RegRead, RegCas, RegStore, AddGate, AddPush,
       AddPost, RemoveTry, RemoveBlocks, Look, SignalPid, SignalSend, DeqWait, DeqTimeout, Unblock,
       Deq, PostEnq, DeqBack, Prod, Serve, PullEnds, Registering, Using, Calling, At
  <2> PICK f \in Files : f = handle[p]
    BY DEF Inv, Holding, UseLabels
  <2>6. tally'[p] = blocks[f] - tally[p]
    BY <2>5 DEF CallCount, At, Inv, TypeOK
  <2>7. /\ tally[p] <= unblocks[f] /\ blocks[f] - unblocks[f] = Cardinality(Blocked(f))
        /\ tally[p] \in Nat /\ blocks[f] \in Nat /\ unblocks[f] \in Nat
    BY DEF Inv, Counters, TypeOK
  <2> QED
    BY <2>6, <2>7
<1> QED
  BY <1>1, Invariance, PTL DEF Spec, CallCountCovers

=============================================================================
