-------------------------- MODULE QueueItemsProofs --------------------------
(***************************************************************************)
(* What holds of the items for all lengths, times and numbers of calls:    *)
(* the layout of one entry, the answer of shr_q_exceeds_idle_time, that    *)
(* BUFFER and EMPTY_SEC move forward, that an item is discarded by a limit *)
(* that was in force, and that a remove finds the entries that were added. *)
(*                                                                         *)
(* The places of the entries are functions defined by recursion.  Instead  *)
(* of an induction, which needs an operator for its parameter, the lemmas  *)
(* about them look at the least place where the claim fails.               *)
(***************************************************************************)
EXTENDS QueueItems, TLAPS, WellFoundedInduction

-----------------------------------------------------------------------------
(* The layout *)

(***************************************************************************)
(* initialize_item_vector goes from entry to entry as copy_vector did,     *)
(* though it tells lengths up to 8 from the others and copy_vector does    *)
(* not: true of every length that copy_vector accepts, and not of 0.       *)
(***************************************************************************)
THEOREM StridesAgree == \A len \in Nat \ {0} : ReaderStride(len) = WriterStride(len)
<1> SUFFICES ASSUME NEW len \in Nat \ {0} PROVE ReaderStride(len) = WriterStride(len)
  OBVIOUS
<1>1. CASE len < SLOT
  <2>1. len \div 8 = 0 /\ len % 8 = len
    BY <1>1, SMT DEF SLOT
  <2> QED
    BY <2>1, <1>1, SMT DEF ReaderStride, WriterStride, Slots, SLOT
<1>2. CASE len = SLOT
  BY <1>2, SMT DEF ReaderStride, WriterStride, Slots, SLOT
<1>3. CASE len > SLOT
  BY <1>3, SMT DEF ReaderStride, WriterStride, Slots, SLOT
<1> QED
  BY <1>1, <1>2, <1>3, SMT DEF SLOT

(***************************************************************************)
(* What calc_vector_slots sets aside for an entry holds its type, its      *)
(* length and its data, for every length: the writer never passes the room *)
(* of the entries before it, and never needs all of it when the length is  *)
(* no multiple of 8.                                                       *)
(***************************************************************************)
THEOREM EntriesHaveRoom ==
    \A len \in Nat :
        /\ len <= SLOT * (WriterStride(len) - 2)
        /\ WriterStride(len) <= EntryRoom(len)
<1> SUFFICES ASSUME NEW len \in Nat
             PROVE  /\ len <= SLOT * (WriterStride(len) - 2)
                    /\ WriterStride(len) <= EntryRoom(len)
  OBVIOUS
<1>1. /\ len = (8 * (len \div 8)) + (len % 8)
      /\ len % 8 \in 0..7 /\ len \div 8 \in Nat
  BY SMT
<1> QED
  BY <1>1, SMT DEF WriterStride, EntryRoom, Slots, SLOT

-----------------------------------------------------------------------------
(* Time *)

Time(second) == [sec : Nat, nsec : 0..second - 1]
Total(second, time) == second * time.sec + time.nsec

(***************************************************************************)
(* shr_q_exceeds_idle_time ("true if limit is equaled or exceeded,         *)
(* otherwise false") never says no when the limit is exceeded, and is      *)
(* exact for limits of whole seconds.  Otherwise it may say yes too early, *)
(* by less than a second: seconds and nanoseconds are compared one after   *)
(* the other, without a carry.                                             *)
(***************************************************************************)
THEOREM IdleTime ==
    ASSUME NEW second \in Nat \ {0},
           NEW now1 \in Time(second), NEW last \in Time(second), NEW lim \in Time(second)
    PROVE  LET elapsed == Total(second, now1) - Total(second, last)
               bound   == Total(second, lim)
           IN /\ elapsed >= bound => ExceedsIdleTime(now1, last, lim)
              /\ ExceedsIdleTime(now1, last, lim) => elapsed > bound - second
              /\ lim.nsec = 0 => (ExceedsIdleTime(now1, last, lim) <=> elapsed >= bound)
<1> DEFINE a == now1.sec - last.sec - lim.sec
           d == now1.nsec - last.nsec
           n == lim.nsec
<1>1. /\ now1.sec \in Nat /\ last.sec \in Nat /\ lim.sec \in Nat
      /\ now1.nsec \in Int /\ last.nsec \in Int /\ lim.nsec \in Int
      /\ 0 <= now1.nsec /\ now1.nsec < second
      /\ 0 <= last.nsec /\ last.nsec < second
      /\ 0 <= lim.nsec /\ lim.nsec < second
  BY SMT DEF Time
<1>2. /\ a \in Int /\ d \in Int /\ n \in Int /\ second \in Int
      /\ -second < d /\ d < second /\ 0 <= n /\ n < second
  BY <1>1, SMT
<1>3. Total(second, now1) - Total(second, last) - Total(second, lim) = second * a + d - n
  BY <1>1, SMT DEF Total
<1>4. ExceedsIdleTime(now1, last, lim) <=> (a > 0 \/ (a = 0 /\ d >= n))
  <2>1. (now1.sec - last.sec > lim.sec) <=> a > 0
    BY <1>1, SMT
  <2>2. (now1.sec - last.sec = lim.sec) <=> a = 0
    BY <1>1, SMT
  <2> QED
    BY <2>1, <2>2, Zenon DEF ExceedsIdleTime
<1>5. /\ a > 0 => second * a >= second
      /\ a < 0 => second * a <= -second
      /\ a = 0 => second * a = 0
      /\ second * a \in Int
  <2> SUFFICES ASSUME NEW x \in Int
               PROVE  /\ x > 0 => second * x >= second
                      /\ x < 0 => second * x <= -second
                      /\ x = 0 => second * x = 0
                      /\ second * x \in Int
    BY <1>2, Zenon
  <2> QED
    BY SMT
<1>6. /\ Total(second, now1) \in Int /\ Total(second, last) \in Int /\ Total(second, lim) \in Int
  BY <1>1, <1>2, SMT DEF Total
<1> DEFINE e == Total(second, now1) - Total(second, last)
           b == Total(second, lim)
           m == second * a
<1>7. e \in Int /\ b \in Int /\ m \in Int /\ e - b = m + d - n
  BY <1>3, <1>5, <1>6, SMT
<1> HIDE DEF a, d, n, e, b, m
<1>8. /\ (a > 0 => m >= second) /\ (a < 0 => m <= -second) /\ (a = 0 => m = 0)
  BY <1>5 DEF m
<1>9. /\ e >= b => a > 0 \/ (a = 0 /\ d >= n)
      /\ (a > 0 \/ (a = 0 /\ d >= n)) => e > b - second
      /\ n = 0 => ((a > 0 \/ (a = 0 /\ d >= n)) <=> e >= b)
  BY <1>2, <1>7, <1>8, SMT
<1> QED
  BY <1>4, <1>9, Zenon DEF n, e, b

-----------------------------------------------------------------------------
(* BUFFER and EMPTY_SEC *)

\* the variables the argument looks at are functions on the processes
Shapes ==
    /\ DOMAIN pc = Procs
    /\ DOMAIN item = Procs /\ DOMAIN old = Procs /\ DOMAIN now = Procs

\* whoever is about to make an exchange has more to store than it has read
Ahead ==
    \A p \in Procs :
        /\ pc[p] = "bufferCas" => Asked(item[p].lens) > old[p]
        /\ pc[p] = "stampCas" => now[p] > old[p]

Inv == Shapes /\ Ahead

\* At first nobody is about to make an exchange,
LEMMA InitialInv == Init => Inv
<1> SUFFICES ASSUME Init PROVE Inv
  OBVIOUS
<1>1. Shapes
  BY DEF Init, Shapes
<1>2. Ahead
  BY DEF Init, Ahead
<1> QED
  BY <1>1, <1>2 DEF Inv

\* and whoever gets there has compared first.
LEMMA InvKept == Inv /\ [Next]_vars => Inv'
<1>1. ASSUME Inv, NEW p \in Procs, AddRefused(p) PROVE Inv'
  BY <1>1 DEF Inv, Shapes, Ahead, AddRefused, At, Calling, Finish, locals
<1>2. ASSUME Inv, NEW p \in Procs, AddClock(p) PROVE Inv'
  BY <1>2 DEF Inv, Shapes, Ahead, AddClock, At, Calling, Goto
<1>3. ASSUME Inv, NEW p \in Procs, BufferRead(p) PROVE Inv'
  BY <1>3 DEF Inv, Shapes, Ahead, BufferRead, At, Goto
<1>4. ASSUME Inv, NEW p \in Procs, BufferCas(p) PROVE Inv'
  BY <1>4 DEF Inv, Shapes, Ahead, BufferCas, At, Goto, locals
<1>5. ASSUME Inv, NEW p \in Procs, Alloc(p) PROVE Inv'
  BY <1>5 DEF Inv, Shapes, Ahead, Alloc, At, Finish, Forget, Goto
<1>6. ASSUME Inv, NEW p \in Procs, NoMemory(p) PROVE Inv'
  BY <1>6 DEF Inv, Shapes, Ahead, NoMemory, At, Finish, Forget
<1>7. ASSUME Inv, NEW p \in Procs, Link(p) PROVE Inv'
  BY <1>7 DEF Inv, Shapes, Ahead, Link, At, Goto, locals
<1>8. ASSUME Inv, NEW p \in Procs, Count(p) PROVE Inv'
  BY <1>8 DEF Inv, Shapes, Ahead, Count, At, Goto, locals
<1>9. ASSUME Inv, NEW p \in Procs, StampClock(p) PROVE Inv'
  BY <1>9 DEF Inv, Shapes, Ahead, StampClock, At, Goto
<1>10. ASSUME Inv, NEW p \in Procs, StampRead(p) PROVE Inv'
  BY <1>10 DEF Inv, Shapes, Ahead, StampRead, At, Goto
<1>11. ASSUME Inv, NEW p \in Procs, StampCas(p) PROVE Inv'
  BY <1>11 DEF Inv, Shapes, Ahead, StampCas, At, Goto, locals
<1>12. ASSUME Inv, NEW p \in Procs, LastRead(p) PROVE Inv'
  BY <1>12 DEF Inv, Shapes, Ahead, LastRead, At, Goto
<1>13. ASSUME Inv, NEW p \in Procs, LastCas(p) PROVE Inv'
  BY <1>13 DEF Inv, Shapes, Ahead, LastCas, At, Finish, Forget
<1>14. ASSUME Inv, NEW p \in Procs, Empty(p) PROVE Inv'
  BY <1>14 DEF Inv, Shapes, Ahead, Empty, At, Calling, Finish, locals
<1>15. ASSUME Inv, NEW p \in Procs, Take(p) PROVE Inv'
  BY <1>15 DEF Inv, Shapes, Ahead, Take, At, Calling, Goto
<1>16. ASSUME Inv, NEW p \in Procs, Copy(p) PROVE Inv'
  BY <1>16 DEF Inv, Shapes, Ahead, Copy, At, Goto
<1>17. ASSUME Inv, NEW p \in Procs, CopyFails(p) PROVE Inv'
  BY <1>17 DEF Inv, Shapes, Ahead, CopyFails, At, Goto
<1>18. ASSUME Inv, NEW p \in Procs, MapFails(p) PROVE Inv'
  BY <1>18 DEF Inv, Shapes, Ahead, MapFails, At, Finish, Forget
<1>19. ASSUME Inv, NEW p \in Procs, Uncount(p) PROVE Inv'
  BY <1>19 DEF Inv, Shapes, Ahead, Uncount, At, Goto
<1>20. ASSUME Inv, NEW p \in Procs, ClearRead(p) PROVE Inv'
  BY <1>20 DEF Inv, Shapes, Ahead, ClearRead, At, Goto
<1>21. ASSUME Inv, NEW p \in Procs, ClearCas(p) PROVE Inv'
  BY <1>21 DEF Inv, Shapes, Ahead, ClearCas, At, Goto, locals
<1>22. ASSUME Inv, NEW p \in Procs, Flag(p) PROVE Inv'
  BY <1>22 DEF Inv, Shapes, Ahead, Flag, At, Goto, Returned, Finish, Forget
<1>23. ASSUME Inv, NEW p \in Procs, Judge(p) PROVE Inv'
  BY <1>23 DEF Inv, Shapes, Ahead, Judge, At, Goto
<1>24. ASSUME Inv, NEW p \in Procs, Interval(p) PROVE Inv'
  BY <1>24 DEF Inv, Shapes, Ahead, Interval, At, Goto
<1>25. ASSUME Inv, NEW p \in Procs, Zero(p) PROVE Inv'
  BY <1>25 DEF Inv, Shapes, Ahead, Zero, At, Goto, Returned, Finish, Forget
<1>26. ASSUME Inv, NEW p \in Procs, Compare(p) PROVE Inv'
  BY <1>26 DEF Inv, Shapes, Ahead, Compare, At, Goto, Returned, Finish, Forget
<1>27. ASSUME Inv, NEW p \in Procs, Overdue(p) PROVE Inv'
  BY <1>27 DEF Inv, Shapes, Ahead, Overdue, At, Returned, Finish, Forget
<1>28. ASSUME Inv, NEW p \in Procs, TimeLimit(p) PROVE Inv'
  BY <1>28 DEF Inv, Shapes, Ahead, TimeLimit, At, Calling, Finish
<1>29. ASSUME Inv, NEW p \in Procs, TargetDelay(p) PROVE Inv'
  BY <1>29 DEF Inv, Shapes, Ahead, TargetDelay, At, Calling
<1>30. ASSUME Inv, NEW p \in Procs, Discard(p) PROVE Inv'
  BY <1>30 DEF Inv, Shapes, Ahead, Discard, At, Calling, Finish, locals
<1>40. ASSUME Inv, Tick \/ UNCHANGED vars PROVE Inv'
  BY <1>40 DEF Inv, Shapes, Ahead, Tick, vars, locals
<1> QED
  BY <1>1, <1>2, <1>3, <1>4, <1>5, <1>6, <1>7, <1>8, <1>9, <1>10, <1>11, <1>12, <1>13, <1>14,
     <1>15, <1>16, <1>17, <1>18, <1>19, <1>20, <1>21, <1>22, <1>23, <1>24, <1>25, <1>26, <1>27,
     <1>28, <1>29, <1>30, <1>40, Zenon DEF Next, Add, Remove

(***************************************************************************)
(* BUFFER and EMPTY_SEC move forward, for any number of calls, any lengths *)
(* and times: a call makes the exchange only with a word it has seen to be *)
(* smaller than what it stores.                                            *)
(***************************************************************************)
THEOREM MarksMoveForward == Spec => MarksForward
<1> DEFINE Step == /\ buffer' = buffer \/ buffer' > buffer
                   /\ empty' = empty \/ empty' > empty \/ empty' = 0
<1>1. ASSUME Inv, NEW p \in Procs, BufferCas(p) PROVE Step
  BY <1>1 DEF Inv, Ahead, BufferCas, At
<1>2. ASSUME Inv, NEW p \in Procs, StampCas(p) PROVE Step
  BY <1>2 DEF Inv, Ahead, StampCas, At
<1>3. ASSUME NEW p \in Procs, ClearCas(p) PROVE Step
  BY <1>3 DEF ClearCas
<1>4. ASSUME NEW p \in Procs,
             Add(p), ~BufferCas(p), ~StampCas(p)
      PROVE  Step
  BY <1>4 DEF Add, fileVars, AddRefused, AddClock, BufferRead, Alloc, NoMemory, Link, Count,
     StampClock, StampRead, LastRead, LastCas
<1>5. ASSUME NEW p \in Procs, Remove(p), ~ClearCas(p) PROVE Step
  BY <1>5 DEF Remove, fileVars, Empty, Take, Copy, CopyFails, MapFails, Uncount, ClearRead, Flag,
     Judge, Interval, Zero, Compare, Overdue
<1>6. ASSUME NEW p \in Procs, TimeLimit(p) \/ TargetDelay(p) \/ Discard(p) PROVE Step
  BY <1>6 DEF TimeLimit, TargetDelay, Discard, fileVars
<1>7. ASSUME Tick \/ UNCHANGED vars PROVE Step
  BY <1>7 DEF Tick, vars, fileVars
<1>8. Inv /\ [Next]_vars => [Step]_vars
  BY <1>1, <1>2, <1>3, <1>4, <1>5, <1>6, <1>7, Zenon DEF Next, Add, Remove
<1> QED
  BY <1>8, InitialInv, InvKept, PTL DEF Spec, MarksForward

-----------------------------------------------------------------------------
(* The decision to discard *)

\* the variables that a decision reads have their types
Typed ==
    /\ limit \in Nat /\ target \in Nat /\ clock \in Nat
    /\ queue \in Seq(Items) /\ todo \in [Procs -> Seq(CallSet)]
    /\ pc \in [Procs -> Labels]
    /\ item \in [Procs -> Items] /\ now \in [Procs -> Nat]
    /\ by \in [Procs -> {"limit", "target"}]
    /\ seen \in [Procs -> SUBSET Nat] /\ DOMAIN outcome = Procs
    /\ \A p \in Procs : pc[p] # "idle" => todo[p] # <<>>

\* While a call decides, the settings are among those it has seen; it goes by the target only
\* if that was set, and finds an item overdue by one of them.
Decides(p) ==
    /\ pc[p] \in Judging => limit \in seen[p] /\ (target \in seen[p] \/ target = 0)
    /\ pc[p] \notin {"zero", "compare", "overdue"} => by[p] = "limit"
    /\ pc[p] = "interval" \/ (pc[p] \in {"zero", "compare"} /\ by[p] = "target") =>
          target # 0 \/ 0 \in seen[p]
    /\ pc[p] = "overdue" => 0 \in seen[p] \/ \E d \in seen[p] : Age(p) > d

\* JudgedByDelay of one process
Judged(p) ==
    0 \notin seen[p] =>
        /\ outcome[p].status = "SH_ERR_EXIST" => \E d \in seen[p] : outcome[p].age > d
        /\ outcome[p].status = "SH_OK" => \E d \in seen[p] : outcome[p].age <= d

JudgeInv == Typed /\ \A p \in Procs : Decides(p) /\ Judged(p)

\* What is taken off a sequence, and what is left.
LEMMA HeadTail ==
    ASSUME NEW S, NEW s \in Seq(S), s # <<>>
    PROVE  Head(s) \in S /\ Tail(s) \in Seq(S)
  OBVIOUS

\* The call that a process is about to make.
LEMMA Pending ==
    ASSUME Typed, NEW p \in Procs, todo[p] # <<>>
    PROVE  /\ Head(todo[p]) \in CallSet /\ Tail(todo[p]) \in Seq(CallSet)
           /\ Head(todo[p]).op = "add" => Head(todo[p]).lens \in Seq(Nat)
           /\ Head(todo[p]).op \in {"timelimit", "target"} => Head(todo[p]).to \in Nat
           /\ <<[op |-> "discard"]>> \o Tail(todo[p]) \in Seq(CallSet)
<1>1. todo[p] \in Seq(CallSet)
  BY DEF Typed
<1>2. Head(todo[p]) \in CallSet /\ Tail(todo[p]) \in Seq(CallSet)
  BY <1>1, HeadTail
<1>3. Head(todo[p]).op = "add" => Head(todo[p]).lens \in Seq(Nat)
  BY <1>2 DEF CallSet
<1>4. Head(todo[p]).op \in {"timelimit", "target"} => Head(todo[p]).to \in Nat
  BY <1>2 DEF CallSet
<1>5. [op |-> "discard"] \in CallSet
  BY DEF CallSet
<1>6. <<[op |-> "discard"]>> \o Tail(todo[p]) \in Seq(CallSet)
  BY <1>2, <1>5
<1> QED
  BY <1>2, <1>3, <1>4, <1>6

\* The end of a call leaves its process with the calls that remain, and no item.
LEMMA Ended ==
    ASSUME Typed, NEW p \in Procs
    PROVE  /\ Finish(p) =>
                 /\ pc' \in [Procs -> Labels] /\ pc'[p] = "idle"
                 /\ \A q \in Procs : q # p => pc'[q] = pc[q]
           /\ Forget(p) =>
                 /\ item' \in [Procs -> Items] /\ now' \in [Procs -> Nat]
                 /\ by' \in [Procs -> {"limit", "target"}] /\ by'[p] = "limit"
                 /\ \A q \in Procs : q # p => item'[q] = item[q] /\ now'[q] = now[q]
                                                /\ by'[q] = by[q]
<1>1. "idle" \in Labels /\ NoItem \in Items
  BY DEF Labels, NoItem, Items
<1>2. /\ pc \in [Procs -> Labels] /\ item \in [Procs -> Items] /\ now \in [Procs -> Nat]
      /\ by \in [Procs -> {"limit", "target"}]
  BY DEF Typed
<1>3. ASSUME Finish(p)
      PROVE  /\ pc' \in [Procs -> Labels] /\ pc'[p] = "idle"
             /\ \A q \in Procs : q # p => pc'[q] = pc[q]
  BY <1>1, <1>2, <1>3 DEF Finish
<1>4. ASSUME Forget(p)
      PROVE  /\ item' \in [Procs -> Items] /\ now' \in [Procs -> Nat]
             /\ by' \in [Procs -> {"limit", "target"}] /\ by'[p] = "limit"
             /\ \A q \in Procs : q # p => item'[q] = item[q] /\ now'[q] = now[q]
                                            /\ by'[q] = by[q]
  BY <1>1, <1>2, <1>4 DEF Forget
<1> QED
  BY <1>3, <1>4


\* A call that goes on has the calls it had.
LEMMA Gone ==
    ASSUME Typed, NEW p \in Procs, NEW l \in Labels, Goto(p, l)
    PROVE  /\ pc' \in [Procs -> Labels] /\ pc'[p] = l /\ todo' = todo
           /\ \A q \in Procs : q # p => pc'[q] = pc[q]
  BY DEF Typed, Goto

\* The end of a call takes it off the calls of its process.
LEMMA Fewer ==
    ASSUME Typed, NEW p \in Procs, Finish(p), todo[p] # <<>>
    PROVE  todo' \in [Procs -> Seq(CallSet)] /\ \A q \in Procs : q # p => todo'[q] = todo[q]
<1>1. Tail(todo[p]) \in Seq(CallSet) /\ todo \in [Procs -> Seq(CallSet)]
  BY Pending DEF Typed
<1> QED
  BY <1>1 DEF Finish

\* A step that ends outside of a decision, and neither changes a setting nor an outcome.
Passes(p) ==
    /\ UNCHANGED <<limit, target, seen, outcome>>
    /\ pc'[p] \notin Judging \cup {"overdue"} /\ by'[p] = "limit"
    /\ \A q \in Procs : q # p =>
          pc'[q] = pc[q] /\ item'[q] = item[q] /\ now'[q] = now[q] /\ by'[q] = by[q]

\* Such a step keeps the invariant.
LEMMA Passing ==
    ASSUME JudgeInv, NEW p \in Procs, Passes(p), Typed'
    PROVE  JudgeInv'
<1>1. ASSUME NEW q \in Procs, q # p  PROVE Decides(q)'
  <2>1. Decides(q) /\ pc'[q] = pc[q] /\ by'[q] = by[q] /\ item'[q] = item[q] /\ now'[q] = now[q]
        /\ seen' = seen /\ limit' = limit /\ target' = target
    BY <1>1 DEF JudgeInv, Passes
  <2> QED
    BY <2>1 DEF Decides, Age
<1>2. Decides(p)'
  BY DEF Passes, Decides, Judging
<1>3. \A q \in Procs : Judged(q)'
  BY DEF JudgeInv, Judged, Passes
<1> QED
  BY <1>1, <1>2, <1>3 DEF JudgeInv

\* Where a call goes by the time limit, which is everywhere but at the end of a decision.
LEMMA ByLimit ==
    ASSUME JudgeInv, NEW p \in Procs, pc[p] \notin {"zero", "compare", "overdue"}
    PROVE  by[p] = "limit"
  BY DEF JudgeInv, Decides

\* The steps that only go on, to one of these labels.
Onward == {"bufferRead", "bufferCas", "alloc", "link", "count", "stampClock", "stampRead",
           "stampCas", "lastRead", "lastCas", "copy", "uncount", "clearRead", "clearCas", "flag"}

\* They keep the invariant too.
LEMMA GoesOn ==
    ASSUME JudgeInv, NEW p \in Procs, NEW l \in Onward, Goto(p, l),
           pc[p] \notin {"zero", "compare", "overdue"}, todo[p] # <<>>,
           UNCHANGED <<limit, target, seen, outcome, clock, by>>,
           queue' \in Seq(Items), item' \in [Procs -> Items], now' \in [Procs -> Nat],
           \A q \in Procs : q # p => item'[q] = item[q] /\ now'[q] = now[q]
    PROVE  JudgeInv'
<1>1. Typed
  BY DEF JudgeInv
<1>2. l \in Labels /\ l \notin Judging \cup {"overdue"}
  BY DEF Onward, Labels, Judging
<1>3. /\ pc' \in [Procs -> Labels] /\ pc'[p] = l /\ todo' = todo
      /\ \A q \in Procs : q # p => pc'[q] = pc[q]
  BY <1>1, <1>2, Gone
<1>4. Typed'
  <2>1. \A q \in Procs : pc'[q] # "idle" => todo'[q] # <<>>
    BY <1>1, <1>3 DEF Typed
  <2> QED
    BY <1>1, <1>3, <2>1 DEF Typed
<1>5. Passes(p)
  BY <1>2, <1>3, ByLimit DEF Passes
<1> QED
  BY <1>4, <1>5, Passing

\* The steps that end a call without a decision.
LEMMA CallEnds ==
    ASSUME JudgeInv, NEW p \in Procs, Finish(p), todo[p] # <<>>,
           Forget(p) \/ (pc[p] = "idle" /\ UNCHANGED <<item, now, by>>),
           UNCHANGED <<limit, target, seen, outcome, clock, queue>>
    PROVE  JudgeInv'
<1>1. Typed
  BY DEF JudgeInv
<1>2. /\ pc' \in [Procs -> Labels] /\ pc'[p] = "idle"
      /\ \A q \in Procs : q # p => pc'[q] = pc[q]
  BY <1>1, Ended
<1>3. todo' \in [Procs -> Seq(CallSet)] /\ \A q \in Procs : q # p => todo'[q] = todo[q]
  BY <1>1, Fewer
<1>4. /\ item' \in [Procs -> Items] /\ now' \in [Procs -> Nat]
      /\ by' \in [Procs -> {"limit", "target"}] /\ by'[p] = "limit"
      /\ \A q \in Procs : q # p => item'[q] = item[q] /\ now'[q] = now[q] /\ by'[q] = by[q]
  <2>1. CASE Forget(p)
    BY <1>1, <2>1, Ended
  <2>2. CASE pc[p] = "idle" /\ UNCHANGED <<item, now, by>>
    BY <1>1, <2>2, ByLimit DEF Typed
  <2> QED
    BY <2>1, <2>2
<1>5. Typed'
  <2>1. \A q \in Procs : pc'[q] # "idle" => todo'[q] # <<>>
    BY <1>1, <1>2, <1>3 DEF Typed
  <2> QED
    BY <1>1, <1>2, <1>3, <1>4, <2>1 DEF Typed
<1>6. Passes(p)
  BY <1>2, <1>4 DEF Passes, Judging
<1> QED
  BY <1>5, <1>6, Passing


\* What the invariant says of one process.
LEMMA Known ==
    ASSUME JudgeInv, NEW p \in Procs
    PROVE  /\ Typed /\ item \in [Procs -> Items] /\ now \in [Procs -> Nat] /\ queue \in Seq(Items)
           /\ pc[p] # "idle" => todo[p] # <<>>
           /\ item[p] \in Items /\ clock \in Nat
  BY DEF JudgeInv, Typed

\* An add does not touch what a decision goes by.
LEMMA AddJudged ==
    ASSUME JudgeInv, NEW p \in Procs, Add(p)
    PROVE  JudgeInv'
<1>0. /\ Typed /\ item \in [Procs -> Items] /\ now \in [Procs -> Nat] /\ queue \in Seq(Items)
      /\ pc[p] # "idle" => todo[p] # <<>>
      /\ item[p] \in Items /\ clock \in Nat
  BY Known
<1>1. CASE AddRefused(p)
  <2>1. /\ Finish(p) /\ todo[p] # <<>>
        /\ Forget(p) \/ (pc[p] = "idle" /\ UNCHANGED <<item, now, by>>)
        /\ UNCHANGED <<limit, target, seen, outcome, clock, queue>>
    BY <1>0, <1>1 DEF AddRefused, Calling, fileVars, settings, locals, At
  <2> QED
    BY <2>1, CallEnds
<1>2. CASE AddClock(p)
  <2>1. /\ Goto(p, "bufferRead") /\ pc[p] = "idle" /\ todo[p] # <<>> /\ Head(todo[p]).op = "add"
        /\ item' = [item EXCEPT ![p] = [lens |-> Head(todo[p]).lens, stamp |-> clock, slots |-> 0]]
        /\ UNCHANGED <<limit, target, seen, outcome, clock, by, queue, now>>
    BY <1>2 DEF AddClock, At, Calling, fileVars, settings
  <2>2. [lens |-> Head(todo[p]).lens, stamp |-> clock, slots |-> 0] \in Items
    BY <1>0, <2>1, Pending DEF Items
  <2>3. item' \in [Procs -> Items] /\ \A q \in Procs : q # p => item'[q] = item[q]
    BY <1>0, <2>1, <2>2
  <2>4. "bufferRead" \in Onward
    BY DEF Onward
  <2> QED
    BY <1>0, <2>1, <2>3, <2>4, GoesOn
<1>3. CASE BufferRead(p)
  <2>1. /\ pc[p] \notin {"zero", "compare", "overdue"} /\ todo[p] # <<>>
        /\ UNCHANGED <<limit, target, seen, outcome, clock, by, queue, item, now>>
        /\ \E l \in {"bufferCas", "alloc"} : Goto(p, l)
    BY <1>0, <1>3 DEF BufferRead, At, Goto, fileVars, settings
  <2>2. PICK l \in {"bufferCas", "alloc"} : Goto(p, l)
    BY <2>1
  <2>3. l \in Onward
    BY DEF Onward
  <2> QED
    BY <1>0, <2>1, <2>2, <2>3, GoesOn
<1>4. CASE BufferCas(p)
  <2>1. /\ pc[p] \notin {"zero", "compare", "overdue"} /\ todo[p] # <<>>
        /\ UNCHANGED <<limit, target, seen, outcome, clock, by, queue, item, now>>
        /\ \E l \in {"bufferRead", "alloc"} : Goto(p, l)
    BY <1>0, <1>4 DEF BufferCas, At, Goto, settings, locals
  <2>2. PICK l \in {"bufferRead", "alloc"} : Goto(p, l)
    BY <2>1
  <2>3. l \in Onward
    BY DEF Onward
  <2> QED
    BY <1>0, <2>1, <2>2, <2>3, GoesOn
<1>5. CASE Alloc(p)
  <2>1. PICK slots \in BlockSizes :
             IF BadEntry(item[p].lens)
               THEN Finish(p) /\ Forget(p)
               ELSE /\ Goto(p, "link")
                    /\ item' = [item EXCEPT ![p].slots = slots]
                    /\ UNCHANGED <<now, old, by, got>>
    BY <1>5 DEF Alloc
  <2>2. /\ pc[p] = "alloc" /\ todo[p] # <<>>
        /\ UNCHANGED <<limit, target, seen, outcome, clock, queue>>
    BY <1>0, <1>5 DEF Alloc, At, fileVars, settings
  <2>3. CASE BadEntry(item[p].lens)
    BY <2>1, <2>2, <2>3, CallEnds
  <2>4. CASE ~BadEntry(item[p].lens)
    <3>1. [item[p] EXCEPT !.slots = slots] \in Items
      BY <1>0, ItemsAssumption DEF Items
    <3>2. item' \in [Procs -> Items] /\ \A q \in Procs : q # p => item'[q] = item[q]
      BY <1>0, <2>1, <2>4, <3>1
    <3>3. "link" \in Onward
      BY DEF Onward
    <3> QED
      BY <1>0, <2>1, <2>2, <2>4, <3>2, <3>3, GoesOn
  <2> QED
    BY <2>3, <2>4
<1>6. CASE NoMemory(p)
  <2>1. /\ Finish(p) /\ todo[p] # <<>>
        /\ Forget(p) \/ (pc[p] = "idle" /\ UNCHANGED <<item, now, by>>)
        /\ UNCHANGED <<limit, target, seen, outcome, clock, queue>>
    BY <1>0, <1>6 DEF NoMemory, At, fileVars, settings
  <2> QED
    BY <2>1, CallEnds
<1>7. CASE Link(p)
  <2>1. /\ Goto(p, "count") /\ "count" \in Onward /\ pc[p] = "link" /\ todo[p] # <<>>
        /\ queue' = Append(queue, item[p])
        /\ UNCHANGED <<limit, target, seen, outcome, clock, by, item, now>>
    BY <1>0, <1>7 DEF Onward, Link, At, settings, locals
  <2>2. queue' \in Seq(Items)
    BY <1>0, <2>1
  <2> QED
    BY <1>0, <2>1, <2>2, GoesOn
<1>8. CASE Count(p)
  <2>1. /\ pc[p] \notin {"zero", "compare", "overdue"} /\ todo[p] # <<>>
        /\ UNCHANGED <<limit, target, seen, outcome, clock, by, queue, item, now>>
        /\ \E l \in {"stampClock", "lastRead"} : Goto(p, l)
    BY <1>0, <1>8 DEF Count, At, Goto, settings, locals
  <2>2. PICK l \in {"stampClock", "lastRead"} : Goto(p, l)
    BY <2>1
  <2>3. l \in Onward
    BY DEF Onward
  <2> QED
    BY <1>0, <2>1, <2>2, <2>3, GoesOn
<1>9. CASE StampClock(p)
  <2>1. /\ Goto(p, "stampRead") /\ "stampRead" \in Onward /\ pc[p] = "stampClock" /\ todo[p] # <<>>
        /\ now' = [now EXCEPT ![p] = clock]
        /\ UNCHANGED <<limit, target, seen, outcome, clock, by, item, queue>>
    BY <1>0, <1>9 DEF Onward, StampClock, At, settings, fileVars
  <2>2. now' \in [Procs -> Nat] /\ \A q \in Procs : q # p => now'[q] = now[q]
    BY <1>0, <2>1
  <2> QED
    BY <1>0, <2>1, <2>2, GoesOn
<1>10. CASE StampRead(p)
  <2>1. /\ pc[p] \notin {"zero", "compare", "overdue"} /\ todo[p] # <<>>
        /\ UNCHANGED <<limit, target, seen, outcome, clock, by, queue, item, now>>
        /\ \E l \in {"stampCas", "lastRead"} : Goto(p, l)
    BY <1>0, <1>10 DEF StampRead, At, Goto, fileVars, settings
  <2>2. PICK l \in {"stampCas", "lastRead"} : Goto(p, l)
    BY <2>1
  <2>3. l \in Onward
    BY DEF Onward
  <2> QED
    BY <1>0, <2>1, <2>2, <2>3, GoesOn
<1>11. CASE StampCas(p)
  <2>1. /\ pc[p] \notin {"zero", "compare", "overdue"} /\ todo[p] # <<>>
        /\ UNCHANGED <<limit, target, seen, outcome, clock, by, queue, item, now>>
        /\ \E l \in {"lastRead", "stampRead"} : Goto(p, l)
    BY <1>0, <1>11 DEF StampCas, At, Goto, settings, locals
  <2>2. PICK l \in {"lastRead", "stampRead"} : Goto(p, l)
    BY <2>1
  <2>3. l \in Onward
    BY DEF Onward
  <2> QED
    BY <1>0, <2>1, <2>2, <2>3, GoesOn
<1>12. CASE LastRead(p)
  <2>1. /\ Goto(p, "lastCas") /\ "lastCas" \in Onward /\ pc[p] \notin {"zero", "compare", "overdue"}
        /\ todo[p] # <<>>
        /\ UNCHANGED <<limit, target, seen, outcome, clock, by, queue, item, now>>
    BY <1>0, <1>12 DEF Onward, LastRead, At, Goto, fileVars, settings
  <2> QED
    BY <1>0, <2>1, GoesOn
<1>13. CASE LastCas(p)
  <2>1. /\ Finish(p) /\ todo[p] # <<>>
        /\ Forget(p) \/ (pc[p] = "idle" /\ UNCHANGED <<item, now, by>>)
        /\ UNCHANGED <<limit, target, seen, outcome, clock, queue>>
    BY <1>0, <1>13 DEF LastCas, At, settings
  <2> QED
    BY <2>1, CallEnds
<1> QED
  BY <1>1, <1>2, <1>3, <1>4, <1>5, <1>6, <1>7, <1>8, <1>9, <1>10, <1>11, <1>12, <1>13 DEF Add

\* Nor does a remove, before it comes to the flag.
LEMMA TakeJudged ==
    ASSUME JudgeInv, NEW p \in Procs,
           Empty(p) \/ Take(p) \/ Copy(p) \/ CopyFails(p) \/ MapFails(p) \/ Uncount(p)
              \/ ClearRead(p) \/ ClearCas(p)
    PROVE  JudgeInv'
<1>0. /\ Typed /\ item \in [Procs -> Items] /\ now \in [Procs -> Nat] /\ queue \in Seq(Items)
      /\ pc[p] # "idle" => todo[p] # <<>>
      /\ item[p] \in Items /\ clock \in Nat
  BY Known
<1>1. CASE Empty(p)
  <2>1. /\ Finish(p) /\ todo[p] # <<>>
        /\ Forget(p) \/ (pc[p] = "idle" /\ UNCHANGED <<item, now, by>>)
        /\ UNCHANGED <<limit, target, seen, outcome, clock, queue>>
    BY <1>0, <1>1 DEF Empty, Calling, fileVars, settings, locals, At
  <2> QED
    BY <2>1, CallEnds
<1>2. CASE Take(p)
  <2>1. /\ Goto(p, "copy") /\ "copy" \in Onward /\ pc[p] = "idle" /\ todo[p] # <<>>
        /\ queue # <<>> /\ item' = [item EXCEPT ![p] = Head(queue)] /\ queue' = Tail(queue)
        /\ UNCHANGED <<limit, target, seen, outcome, clock, by, now>>
    BY <1>0, <1>2 DEF Onward, Take, At, Calling, settings
  <2>2. Head(queue) \in Items /\ Tail(queue) \in Seq(Items)
    BY <1>0, <2>1, HeadTail
  <2>3. item' \in [Procs -> Items] /\ \A q \in Procs : q # p => item'[q] = item[q]
    BY <1>0, <2>1, <2>2
  <2> QED
    BY <1>0, <2>1, <2>2, <2>3, GoesOn
<1>3. CASE Copy(p)
  <2>1. /\ Goto(p, "uncount") /\ "uncount" \in Onward /\ pc[p] \notin {"zero", "compare", "overdue"}
        /\ todo[p] # <<>>
        /\ UNCHANGED <<limit, target, seen, outcome, clock, by, queue, item, now>>
    BY <1>0, <1>3 DEF Onward, Copy, At, Goto, fileVars, settings
  <2> QED
    BY <1>0, <2>1, GoesOn
<1>4. CASE CopyFails(p)
  <2>1. /\ Goto(p, "uncount") /\ "uncount" \in Onward /\ pc[p] \notin {"zero", "compare", "overdue"}
        /\ todo[p] # <<>>
        /\ UNCHANGED <<limit, target, seen, outcome, clock, by, queue, item, now>>
    BY <1>0, <1>4 DEF Onward, CopyFails, At, Goto, fileVars, settings
  <2> QED
    BY <1>0, <2>1, GoesOn
<1>5. CASE MapFails(p)
  <2>1. /\ Finish(p) /\ todo[p] # <<>>
        /\ Forget(p) \/ (pc[p] = "idle" /\ UNCHANGED <<item, now, by>>)
        /\ UNCHANGED <<limit, target, seen, outcome, clock, queue>>
    BY <1>0, <1>5 DEF MapFails, At, fileVars, settings
  <2> QED
    BY <2>1, CallEnds
<1>6. CASE Uncount(p)
  <2>1. /\ pc[p] \notin {"zero", "compare", "overdue"} /\ todo[p] # <<>>
        /\ UNCHANGED <<limit, target, seen, outcome, clock, by, queue, item, now>>
        /\ \E l \in {"clearRead", "flag"} : Goto(p, l)
    BY <1>0, <1>6 DEF Uncount, At, Goto, settings
  <2>2. PICK l \in {"clearRead", "flag"} : Goto(p, l)
    BY <2>1
  <2>3. l \in Onward
    BY DEF Onward
  <2> QED
    BY <1>0, <2>1, <2>2, <2>3, GoesOn
<1>7. CASE ClearRead(p)
  <2>1. /\ Goto(p, "clearCas") /\ "clearCas" \in Onward
        /\ pc[p] \notin {"zero", "compare", "overdue"}
        /\ todo[p] # <<>>
        /\ UNCHANGED <<limit, target, seen, outcome, clock, by, queue, item, now>>
    BY <1>0, <1>7 DEF Onward, ClearRead, At, Goto, fileVars, settings
  <2> QED
    BY <1>0, <2>1, GoesOn
<1>8. CASE ClearCas(p)
  <2>1. /\ pc[p] \notin {"zero", "compare", "overdue"} /\ todo[p] # <<>>
        /\ UNCHANGED <<limit, target, seen, outcome, clock, by, queue, item, now>>
        /\ \E l \in {"flag", "clearRead"} : Goto(p, l)
    BY <1>0, <1>8 DEF ClearCas, At, Goto, settings, locals
  <2>2. PICK l \in {"flag", "clearRead"} : Goto(p, l)
    BY <2>1
  <2>3. l \in Onward
    BY DEF Onward
  <2> QED
    BY <1>0, <2>1, <2>2, <2>3, GoesOn
<1> QED
  BY <1>1, <1>2, <1>3, <1>4, <1>5, <1>6, <1>7, <1>8

\* A step of a decision: the settings and the calls stay, and so do all the others.
Deciding(p) ==
    /\ UNCHANGED <<limit, target, clock, queue>>
    /\ \A q \in Procs : q # p =>
          /\ pc'[q] = pc[q] /\ item'[q] = item[q] /\ now'[q] = now[q] /\ by'[q] = by[q]
          /\ seen'[q] = seen[q] /\ outcome'[q] = outcome[q]

\* Such a step is judged by its own process.
LEMMA DecidedBy ==
    ASSUME JudgeInv, NEW p \in Procs, Deciding(p), Typed', Decides(p)', Judged(p)'
    PROVE  JudgeInv'
<1>1. ASSUME NEW q \in Procs, q # p  PROVE Decides(q)' /\ Judged(q)'
  <2>1. Decides(q) /\ Judged(q) /\ limit' = limit /\ target' = target
        /\ pc'[q] = pc[q] /\ item'[q] = item[q] /\ now'[q] = now[q] /\ by'[q] = by[q]
        /\ seen'[q] = seen[q] /\ outcome'[q] = outcome[q]
    BY <1>1 DEF JudgeInv, Deciding
  <2> QED
    BY <2>1 DEF Decides, Judged, Age
<1> QED
  BY <1>1 DEF JudgeInv

\* A remove returns, and it is on record how old the item was.
LEMMA ReturnedJudged ==
    ASSUME JudgeInv, NEW p \in Procs, NEW status, NEW age, Returned(p, status, age),
           todo[p] # <<>>, UNCHANGED <<limit, target, clock, queue, seen>>,
           0 \notin seen[p] =>
              /\ status = "SH_ERR_EXIST" => \E d \in seen[p] : age > d
              /\ status = "SH_OK" => \E d \in seen[p] : age <= d
    PROVE  JudgeInv'
<1>1. Typed /\ Finish(p) /\ Forget(p)
  BY DEF JudgeInv, Returned
<1>2. /\ pc' \in [Procs -> Labels] /\ pc'[p] = "idle"
      /\ \A q \in Procs : q # p => pc'[q] = pc[q]
      /\ item' \in [Procs -> Items] /\ now' \in [Procs -> Nat]
      /\ by' \in [Procs -> {"limit", "target"}] /\ by'[p] = "limit"
      /\ \A q \in Procs : q # p => item'[q] = item[q] /\ now'[q] = now[q] /\ by'[q] = by[q]
  BY <1>1, Ended
<1>3. todo' \in [Procs -> Seq(CallSet)] /\ \A q \in Procs : q # p => todo'[q] = todo[q]
  BY <1>1, Fewer
<1>4. /\ DOMAIN outcome' = Procs /\ outcome'[p].status = status /\ outcome'[p].age = age
      /\ \A q \in Procs : q # p => outcome'[q] = outcome[q]
  BY <1>1 DEF Returned, Typed
<1>5. Typed'
  <2>1. \A q \in Procs : pc'[q] # "idle" => todo'[q] # <<>>
    BY <1>1, <1>2, <1>3 DEF Typed
  <2> QED
    BY <1>1, <1>2, <1>3, <1>4, <2>1 DEF Typed
<1>6. Decides(p)'
  BY <1>2 DEF Decides, Judging
<1>7. Judged(p)'
  BY <1>4 DEF Judged
<1>8. Deciding(p)
  BY <1>2, <1>4 DEF Deciding
<1> QED
  BY <1>5, <1>6, <1>7, <1>8, DecidedBy

\* A decision goes on.
LEMMA DecisionGoesOn ==
    ASSUME JudgeInv, NEW p \in Procs, NEW l \in Labels, Goto(p, l), todo[p] # <<>>,
           UNCHANGED <<limit, target, clock, queue, item>>,
           now' \in [Procs -> Nat], by' \in [Procs -> {"limit", "target"}],
           seen' \in [Procs -> SUBSET Nat], DOMAIN outcome' = Procs,
           \A q \in Procs : q # p => /\ now'[q] = now[q] /\ by'[q] = by[q]
                                     /\ seen'[q] = seen[q] /\ outcome'[q] = outcome[q],
           Decides(p)', Judged(p)'
    PROVE  JudgeInv'
<1>1. Typed
  BY DEF JudgeInv
<1>2. /\ pc' \in [Procs -> Labels] /\ pc'[p] = l /\ todo' = todo
      /\ \A q \in Procs : q # p => pc'[q] = pc[q]
  BY <1>1, Gone
<1>3. Typed'
  <2>1. \A q \in Procs : pc'[q] # "idle" => todo'[q] # <<>>
    BY <1>1, <1>2 DEF Typed
  <2> QED
    BY <1>1, <1>2, <2>1 DEF Typed
<1>4. Deciding(p)
  BY <1>2 DEF Deciding
<1> QED
  BY <1>3, <1>4, DecidedBy

\* The flag is read: the item is returned, or a decision begins with the settings there are.
LEMMA FlagJudged ==
    ASSUME JudgeInv, NEW p \in Procs, Flag(p)
    PROVE  JudgeInv'
<1>1. /\ Typed /\ pc[p] = "flag" /\ todo[p] # <<>>
      /\ UNCHANGED <<limit, target, clock, queue>>
  BY Known DEF Flag, At, fileVars, settings
<1>2. CASE discard
  <2> DEFINE new == {limit} \cup ({target} \ {0})
  <2>1. /\ Goto(p, "judge") /\ now' = [now EXCEPT ![p] = clock]
        /\ seen' = [seen EXCEPT ![p] = new] /\ outcome' = [outcome EXCEPT ![p] = Nothing]
        /\ UNCHANGED <<item, by>>
    BY <1>2 DEF Flag
  <2>2. new \subseteq Nat /\ limit \in new /\ (target \in new \/ target = 0)
    BY <1>1 DEF Typed
  <2> HIDE DEF new
  <2>3. /\ now' \in [Procs -> Nat] /\ by' \in [Procs -> {"limit", "target"}]
        /\ seen' \in [Procs -> SUBSET Nat] /\ DOMAIN outcome' = Procs
        /\ \A q \in Procs : q # p => /\ now'[q] = now[q] /\ by'[q] = by[q]
                                     /\ seen'[q] = seen[q] /\ outcome'[q] = outcome[q]
        /\ seen'[p] = new /\ outcome'[p] = Nothing
    BY <1>1, <2>1, <2>2 DEF Typed
  <2>4. "judge" \in Labels /\ pc'[p] = "judge" /\ by'[p] = "limit"
    BY <1>1, <2>1, ByLimit DEF Labels, Goto, Typed
  <2>5. Decides(p)'
    BY <1>1, <2>2, <2>3, <2>4 DEF Decides
  <2>6. Judged(p)'
    BY <2>3 DEF Judged, Nothing
  <2> QED
    BY <1>1, <2>1, <2>3, <2>4, <2>5, <2>6, DecisionGoesOn
<1>3. CASE ~discard
  <2>1. Returned(p, "kept", 0) /\ UNCHANGED seen
    BY <1>3 DEF Flag
  <2> QED
    BY <1>1, <2>1, ReturnedJudged
<1> QED
  BY <1>2, <1>3

\* The steps of a decision before an item is compared: they only change what it goes by.
LEMMA JudgeJudged ==
    ASSUME JudgeInv, NEW p \in Procs, Judge(p) \/ Interval(p)
    PROVE  JudgeInv'
<1>1. /\ Typed /\ pc[p] \in {"judge", "interval"} /\ todo[p] # <<>>
      /\ UNCHANGED <<limit, target, clock, queue, item, now, seen, outcome>>
      /\ Decides(p) /\ Judged(p)
  BY Known DEF JudgeInv, Judge, Interval, At, fileVars, settings
<1>2. /\ now \in [Procs -> Nat] /\ by \in [Procs -> {"limit", "target"}]
      /\ seen \in [Procs -> SUBSET Nat] /\ DOMAIN outcome = Procs /\ limit \in Nat /\ target \in Nat
  BY <1>1 DEF Typed
<1>3. Judged(p)'
  BY <1>1 DEF Judged
<1>4. CASE Judge(p)
  <2>1. PICK l \in {"interval", "zero"} : Goto(p, l) /\ (l = "interval" => target # 0)
    BY <1>4 DEF Judge, CoDelActive
  <2>2. pc[p] = "judge" /\ l \in Labels /\ by' = by /\ by[p] = "limit"
    BY <1>4, <2>1, ByLimit DEF Judge, At, Labels
  <2>3. pc'[p] = l
    BY <1>1, <2>1, <2>2, Gone
  <2>4. Decides(p)'
    BY <1>1, <2>1, <2>2, <2>3 DEF Decides, Judging
  <2> QED
    BY <1>1, <1>2, <1>3, <2>1, <2>2, <2>4, DecisionGoesOn
<1>5. CASE Interval(p)
  <2>1. /\ pc[p] = "interval" /\ Goto(p, "zero") /\ "zero" \in Labels
        /\ by' = [by EXCEPT ![p] = IF old[p] < now[p] - limit THEN "target" ELSE "limit"]
    BY <1>5 DEF Interval, At, Labels
  <2>2. by' \in [Procs -> {"limit", "target"}] /\ \A q \in Procs : q # p => by'[q] = by[q]
    BY <1>2, <2>1
  <2>3. pc'[p] = "zero"
    BY <1>1, <2>1, Gone
  <2>4. Decides(p)'
    BY <1>1, <2>1, <2>3 DEF Decides, Judging
  <2> QED
    BY <1>1, <1>2, <1>3, <2>1, <2>2, <2>4, DecisionGoesOn
<1> QED
  BY <1>4, <1>5

\* What an item is compared with is a limit that the decision has seen.
LEMMA DelaySeen ==
    ASSUME JudgeInv, NEW p \in Procs, pc[p] \in {"zero", "compare"}
    PROVE  /\ Delay(p) \in Nat /\ Age(p) \in Int
           /\ Delay(p) \in seen[p] \/ 0 \in seen[p]
<1>1. Typed /\ Decides(p)
  BY DEF JudgeInv
<1>2. limit \in Nat /\ target \in Nat /\ by[p] \in {"limit", "target"}
  BY <1>1 DEF Typed
<1>3. now[p] \in Nat /\ item[p].stamp \in Nat
  BY <1>1 DEF Typed, Items
<1> QED
  BY <1>1, <1>2, <1>3 DEF Decides, Delay, Age, Judging

\* The item is compared; who finds it overdue reads the flag again.
LEMMA CompareJudged ==
    ASSUME JudgeInv, NEW p \in Procs, Zero(p) \/ Compare(p) \/ Overdue(p)
    PROVE  JudgeInv'
<1>1. /\ Typed /\ pc[p] \in {"zero", "compare", "overdue"} /\ todo[p] # <<>>
      /\ UNCHANGED <<limit, target, clock, queue, seen>>
      /\ Decides(p) /\ Judged(p)
  BY Known DEF JudgeInv, Zero, Compare, Overdue, At, fileVars, settings
<1>2. /\ now \in [Procs -> Nat] /\ by \in [Procs -> {"limit", "target"}]
      /\ seen \in [Procs -> SUBSET Nat] /\ DOMAIN outcome = Procs /\ limit \in Nat /\ target \in Nat
  BY <1>1 DEF Typed
<1>3. ASSUME NEW l \in {"compare", "overdue"}, Goto(p, l), UNCHANGED <<item, now, by, outcome>>,
             pc[p] = "zero" \/ (pc[p] = "compare" /\ Age(p) > Delay(p)),
             l = "compare" <=> pc[p] = "zero"
      PROVE  JudgeInv'
  <2>1. l \in Labels
    BY DEF Labels
  <2>2. pc'[p] = l
    BY <1>1, <1>3, <2>1, Gone
  <2>3. pc[p] = "compare" => 0 \in seen[p] \/ \E d \in seen[p] : Age(p) > d
    BY <1>3, DelaySeen
  <2>4. Age(p)' = Age(p)
    BY <1>3 DEF Age
  <2>5. Decides(p)'
    <3>1. CASE l = "compare"
      BY <1>1, <1>3, <2>2, <3>1 DEF Decides, Judging
    <3>2. CASE l = "overdue"
      BY <1>1, <1>3, <2>2, <2>3, <2>4, <3>2 DEF Decides, Judging
    <3> QED
      BY <3>1, <3>2
  <2>6. Judged(p)'
    BY <1>1, <1>3 DEF Judged
  <2> QED
    BY <1>1, <1>2, <1>3, <2>1, <2>5, <2>6, DecisionGoesOn
<1>4. CASE Zero(p)
  <2>1. pc[p] = "zero"
    BY <1>4 DEF Zero, At
  <2>2. CASE Delay(p) = 0
    <3>1. Returned(p, "SH_OK", Age(p)) /\ 0 \in seen[p]
      BY <1>4, <2>1, <2>2, DelaySeen DEF Zero
    <3> QED
      BY <1>1, <3>1, ReturnedJudged
  <2>3. CASE Delay(p) # 0
    <3>1. Goto(p, "compare") /\ UNCHANGED <<item, now, by, outcome>>
      BY <1>4, <2>3 DEF Zero
    <3> QED
      BY <1>3, <2>1, <3>1
  <2> QED
    BY <2>2, <2>3
<1>5. CASE Compare(p)
  <2>1. pc[p] = "compare"
    BY <1>5 DEF Compare, At
  <2>2. CASE Age(p) > Delay(p)
    <3>1. Goto(p, "overdue") /\ UNCHANGED <<item, now, by, outcome>>
      BY <1>5, <2>2 DEF Compare
    <3> QED
      BY <1>3, <2>1, <2>2, <3>1
  <2>3. CASE ~(Age(p) > Delay(p))
    <3>1. Returned(p, "SH_OK", Age(p))
      BY <1>5, <2>3 DEF Compare
    <3>2. 0 \notin seen[p] => \E d \in seen[p] : Age(p) <= d
      BY <2>1, <2>3, DelaySeen
    <3> QED
      BY <1>1, <3>1, <3>2, ReturnedJudged
  <2> QED
    BY <2>2, <2>3
<1>6. CASE Overdue(p)
  <2>1. pc[p] = "overdue"
    BY <1>6 DEF Overdue, At
  <2>2. 0 \notin seen[p] => \E d \in seen[p] : Age(p) > d
    BY <1>1, <2>1 DEF Decides
  <2>3. Returned(p, "SH_ERR_EXIST", Age(p)) \/ Returned(p, "kept", 0)
    BY <1>6 DEF Overdue
  <2> QED
    BY <1>1, <2>2, <2>3, ReturnedJudged
<1> QED
  BY <1>4, <1>5, <1>6

\* A setting changes, and every decision that is being made has seen it.
LEMMA SettingJudged ==
    ASSUME JudgeInv, NEW p \in Procs, NEW new \in Nat, Noticed(new), pc[p] = "idle",
           \/ limit' = new /\ target' = target
           \/ limit' = limit /\ target' = new,
           pc' = pc, todo' \in [Procs -> Seq(CallSet)],
           \A q \in Procs : q # p => todo'[q] = todo[q],
           UNCHANGED <<clock, queue, item, now, by, outcome>>
    PROVE  JudgeInv'
<1>1. Typed
  BY DEF JudgeInv
<1>2. /\ seen' \in [Procs -> SUBSET Nat]
      /\ \A q \in Procs : /\ seen[q] \subseteq seen'[q]
                          /\ seen'[q] # seen[q] => pc[q] \in Judging
                          /\ pc[q] \in Judging => new \in seen'[q]
  BY <1>1 DEF Typed, Noticed
<1>3. Typed'
  <2>1. \A q \in Procs : pc'[q] # "idle" => todo'[q] # <<>>
    BY <1>1 DEF Typed
  <2>2. limit' \in Nat /\ target' \in Nat
    BY <1>1 DEF Typed
  <2> QED
    BY <1>1, <1>2, <2>1, <2>2 DEF Typed
<1>4. ASSUME NEW q \in Procs  PROVE Decides(q)' /\ Judged(q)'
  <2>1. Decides(q) /\ Judged(q)
    BY DEF JudgeInv
  <2>2. /\ seen[q] \subseteq seen'[q] /\ (pc[q] \in Judging => new \in seen'[q])
    BY <1>2
  <2>3. Judged(q)'
    BY <2>1, <2>2 DEF Judged
  <2>4. Age(q)' = Age(q)
    BY DEF Age
  <2>5. Decides(q)'
    <3>1. pc[q] \in Judging => limit' \in seen'[q] /\ (target' \in seen'[q] \/ target' = 0)
      BY <2>1, <2>2 DEF Decides
    <3>2. pc[q] = "interval" \/ (pc[q] \in {"zero", "compare"} /\ by[q] = "target") =>
             target' # 0 \/ 0 \in seen'[q]
      BY <2>1, <2>2 DEF Decides, Judging
    <3>3. pc[q] = "overdue" => 0 \in seen'[q] \/ \E d \in seen'[q] : Age(q) > d
      BY <2>1, <2>2 DEF Decides
    <3>4. pc[q] \notin {"zero", "compare", "overdue"} => by[q] = "limit"
      BY <2>1 DEF Decides
    <3> QED
      BY <2>4, <3>1, <3>2, <3>3, <3>4 DEF Decides
  <2> QED
    BY <2>3, <2>5
<1> QED
  BY <1>3, <1>4 DEF JudgeInv

\* The calls that change a setting.
LEMMA SettingsJudged ==
    ASSUME JudgeInv, NEW p \in Procs, TimeLimit(p) \/ TargetDelay(p) \/ Discard(p)
    PROVE  JudgeInv'
<1>1. Typed
  BY DEF JudgeInv
<1>2. CASE TimeLimit(p)
  <2>1. /\ pc[p] = "idle" /\ todo[p] # <<>> /\ Finish(p) /\ Head(todo[p]).op = "timelimit"
        /\ limit' = Head(todo[p]).to /\ Noticed(limit') /\ target' = target
        /\ UNCHANGED <<clock, queue, item, now, by, outcome>>
    BY <1>2 DEF TimeLimit, Calling, At, fileVars
  <2>2. Head(todo[p]).to \in Nat
    BY <1>1, <2>1, Pending
  <2>3. pc' = pc
    BY <1>1, <2>1 DEF Finish, Typed
  <2>4. todo' \in [Procs -> Seq(CallSet)] /\ \A q \in Procs : q # p => todo'[q] = todo[q]
    BY <1>1, <2>1, Fewer
  <2> QED
    BY <2>1, <2>2, <2>3, <2>4, SettingJudged
<1>3. CASE TargetDelay(p)
  <2>1. /\ pc[p] = "idle" /\ todo[p] # <<>> /\ Head(todo[p]).op = "target"
        /\ target' = Head(todo[p]).to /\ Noticed(target') /\ limit' = limit /\ pc' = pc
        /\ todo' = [todo EXCEPT ![p] = <<[op |-> "discard"]>> \o Tail(@)]
        /\ UNCHANGED <<clock, queue, item, now, by, outcome>>
    BY <1>3 DEF TargetDelay, Calling, At, fileVars
  <2>2. Head(todo[p]).to \in Nat /\ <<[op |-> "discard"]>> \o Tail(todo[p]) \in Seq(CallSet)
    BY <1>1, <2>1, Pending
  <2>3. todo' \in [Procs -> Seq(CallSet)] /\ \A q \in Procs : q # p => todo'[q] = todo[q]
    BY <1>1, <2>1, <2>2 DEF Typed
  <2> QED
    BY <2>1, <2>2, <2>3, SettingJudged
<1>4. CASE Discard(p)
  <2>1. /\ pc[p] = "idle" /\ todo[p] # <<>> /\ Finish(p)
        /\ UNCHANGED <<limit, target, seen, outcome, clock, queue, item, now, by>>
    BY <1>4 DEF Discard, Calling, At, fileVars, locals
  <2> QED
    BY <2>1, CallEnds
<1> QED
  BY <1>2, <1>3, <1>4

\* At first nothing has been decided,
LEMMA InitJudged == Init => JudgeInv
<1> SUFFICES ASSUME Init PROVE JudgeInv
  OBVIOUS
<1>1. PICK s \in Scenarios : limit = s.limit /\ target = s.target /\ todo = s.program
  BY DEF Init
<1>2. limit \in Nat /\ target \in Nat /\ todo \in [Procs -> Seq(CallSet)]
  BY <1>1, ItemsAssumption
<1>3. /\ clock = 1 /\ queue = <<>> /\ pc = [q \in Procs |-> "idle"]
      /\ item = [q \in Procs |-> NoItem] /\ now = [q \in Procs |-> 0]
      /\ by = [q \in Procs |-> "limit"] /\ seen = [q \in Procs |-> {}]
      /\ outcome = [q \in Procs |-> Nothing]
  BY DEF Init
<1>4. NoItem \in Items /\ "idle" \in Labels
  BY DEF NoItem, Items, Labels
<1>5. Typed
  BY <1>2, <1>3, <1>4 DEF Typed
<1>6. \A p \in Procs : Decides(p) /\ Judged(p)
  BY <1>3 DEF Decides, Judged, Judging, Nothing
<1> QED
  BY <1>5, <1>6 DEF JudgeInv

\* and every step keeps the invariant.
LEMMA NextJudged == JudgeInv /\ [Next]_vars => JudgeInv'
<1> SUFFICES ASSUME JudgeInv, [Next]_vars PROVE JudgeInv'
  OBVIOUS
<1>1. ASSUME NEW p \in Procs, Remove(p)  PROVE JudgeInv'
  BY <1>1, TakeJudged, FlagJudged, JudgeJudged, CompareJudged DEF Remove
<1>2. CASE Tick \/ UNCHANGED vars
  <2>1. /\ UNCHANGED <<limit, target, queue, todo, pc, item, now, by, seen, outcome>>
        /\ clock' = clock \/ clock' = clock + 1
    BY <1>2 DEF Tick, vars, fileVars, settings, locals
  <2>2. Typed'
    BY <2>1 DEF JudgeInv, Typed
  <2>3. \A p \in Procs : Decides(p)' /\ Judged(p)'
    BY <2>1 DEF JudgeInv, Decides, Judged, Age
  <2> QED
    BY <2>2, <2>3 DEF JudgeInv
<1> QED
  BY <1>1, <1>2, AddJudged, SettingsJudged DEF Next

(***************************************************************************)
(* item_exceeds_delay and the flag read around it decide by a limit that   *)
(* was in force during the decision, for any limits and times and any      *)
(* number of calls that change them: a discarded item is older than one of *)
(* those, an item that a discarding queue returns is not older than all.   *)
(***************************************************************************)
THEOREM DelayJudged == Spec => []JudgedByDelay
<1>1. JudgeInv => JudgedByDelay
  BY DEF JudgeInv, Judged, JudgedByDelay
<1> QED
  BY <1>1, InitJudged, NextJudged, PTL DEF Spec

-----------------------------------------------------------------------------
(* The places of the entries, of vectors of any length                      *)

\* the order of the numbers, as a relation
Less == {ss \in Nat \X Nat : ss[1] < ss[2]}

\* The numbers are well founded by <.
LEMMA LessWellFounded == IsWellFoundedOn(Less, Nat)
  BY NatLessThanWellFounded, Zenon DEF OpToRel, Less

\* A set of numbers that is not empty has a least one.
LEMMA LeastNumber ==
  ASSUME NEW T, T \subseteq Nat, T # {}
  PROVE  \E m \in T : \A k \in T : m <= k
<1>1. PICK m \in T : \A y \in T : ~ (<<y, m>> \in Less)
  BY LessWellFounded, WFMin
<1>2. \A k \in T : ~(k < m)
  BY <1>1 DEF Less
<1> QED
  BY <1>1, <1>2

\* f adds up d, from b
Adds(f, n, b, d) ==
    /\ f \in [0..n -> Nat] /\ f[0] = b
    /\ \A i \in 1..n : f[i] = f[i - 1] + d[i]

\* A sum of the same numbers, whose other values are left open.
AddsUp(g, n, b, d) == \A i \in 0..n : g[i] = IF i = 0 THEN b ELSE g[i - 1] + d[i]

\* f and g are the same up to n
Agree(f, g, n) == \A i \in 0..n : f[i] = g[i]

\* There is such an f: the functions of ItemData that are defined by recursion exist.
LEMMA SumsExist ==
  ASSUME NEW n \in Nat, NEW b \in Nat, NEW d \in [1..n -> Nat]
  PROVE  \E f : Adds(f, n, b, d)
<1> DEFINE T == {k \in 0..n : ~ \E f : Adds(f, k, b, d)}
<1>1. SUFFICES ASSUME T # {} PROVE FALSE
  OBVIOUS
<1>2. T \subseteq Nat
  OBVIOUS
<1>3. PICK m \in T : \A k \in T : m <= k
  <2> HIDE DEF T
  <2> QED
    BY <1>1, <1>2, LeastNumber
<1>4. CASE m = 0
  <2>1. Adds([i \in 0..0 |-> b], 0, b, d)
    BY DEF Adds
  <2> QED
    BY <1>4, <2>1
<1>5. CASE m # 0
  <2>1. m \in 1..n /\ m - 1 \in 0..n /\ m - 1 \notin T
    BY <1>3, <1>5
  <2>2. PICK f : Adds(f, m - 1, b, d)
    BY <2>1
  <2> DEFINE g == [i \in 0..m |-> IF i = m THEN f[m - 1] + d[m] ELSE f[i]]
  <2>3. m - 1 \in 0..(m - 1) /\ f[m - 1] \in Nat /\ d[m] \in Nat
    BY <2>1, <2>2 DEF Adds
  <2>4. g \in [0..m -> Nat]
    BY <2>1, <2>2, <2>3 DEF Adds
  <2>5. g[0] = b
    BY <2>1, <2>2 DEF Adds
  <2>6. \A i \in 1..m : g[i] = g[i - 1] + d[i]
    <3> SUFFICES ASSUME NEW i \in 1..m PROVE g[i] = g[i - 1] + d[i]
      OBVIOUS
    <3>1. i - 1 \in 0..m /\ i - 1 # m /\ i \in 0..m
      BY <2>1
    <3>2. g[i - 1] = f[i - 1]
      BY <3>1
    <3>3. CASE i = m
      BY <3>1, <3>2, <3>3
    <3>4. CASE i # m
      <4>1. i \in 1..(m - 1)
        BY <2>1, <3>4
      <4> QED
        BY <2>2, <3>1, <3>2, <3>4, <4>1 DEF Adds
    <3> QED
      BY <3>3, <3>4
  <2> HIDE DEF g
  <2>7. Adds(g, m, b, d)
    BY <2>4, <2>5, <2>6 DEF Adds
  <2> QED
    BY <2>7
<1> QED
  BY <1>4, <1>5

\* There is no other.
LEMMA SumsSame ==
  \A n, b, d, f, g :
     n \in Nat /\ d \in [1..n -> Nat] /\ Adds(f, n, b, d) /\ AddsUp(g, n, b, d) =>
        Agree(f, g, n)
<1> TAKE n, b, d, f, g
<1> HAVE n \in Nat /\ d \in [1..n -> Nat] /\ Adds(f, n, b, d) /\ AddsUp(g, n, b, d)
<1> USE DEF Agree
<1> DEFINE T == {k \in 0..n : g[k] # f[k]}
<1>1. SUFFICES ASSUME T # {} PROVE FALSE
  OBVIOUS
<1>2. T \subseteq Nat
  OBVIOUS
<1>3. PICK m \in T : \A k \in T : m <= k
  <2> HIDE DEF T
  <2> QED
    BY <1>1, <1>2, LeastNumber
<1>4. CASE m = 0
  BY <1>3, <1>4 DEF Adds, AddsUp
<1>5. CASE m # 0
  <2>1. m \in 1..n /\ m - 1 \in 0..n /\ m - 1 \notin T
    BY <1>3, <1>5
  <2>2. g[m - 1] = f[m - 1]
    BY <2>1
  <2>3. g[m] = g[m - 1] + d[m] /\ f[m] = f[m - 1] + d[m]
    BY <2>1, <1>5 DEF Adds, AddsUp
  <2> QED
    BY <1>3, <2>2, <2>3
<1> QED
  BY <1>4, <1>5

\* It grows where d is positive,
LEMMA SumsGrow ==
  \A n, b, d, f :
     /\ n \in Nat /\ d \in [1..n -> Nat] /\ Adds(f, n, b, d)
     /\ \A i \in 1..n : 0 < d[i]
     => \A i, j \in 0..n : i < j => f[i] < f[j]
<1> TAKE n, b, d, f
<1> HAVE n \in Nat /\ d \in [1..n -> Nat] /\ Adds(f, n, b, d) /\ \A i \in 1..n : 0 < d[i]
<1> SUFFICES ASSUME NEW i \in 0..n PROVE \A j \in 0..n : i < j => f[i] < f[j]
  OBVIOUS
<1> DEFINE T == {j \in 0..n : i < j /\ ~(f[i] < f[j])}
<1>1. SUFFICES ASSUME T # {} PROVE FALSE
  OBVIOUS
<1>2. T \subseteq Nat
  OBVIOUS
<1>3. PICK m \in T : \A k \in T : m <= k
  <2> HIDE DEF T
  <2> QED
    BY <1>1, <1>2, LeastNumber
<1>4. m \in 1..n /\ m - 1 \in 0..n /\ m - 1 \notin T /\ i <= m - 1
  BY <1>3
<1>5. f[m] = f[m - 1] + d[m] /\ d[m] > 0 /\ d[m] \in Nat /\ f[m - 1] \in Nat /\ f[i] \in Nat
  BY <1>4 DEF Adds
<1>6. CASE i = m - 1
  BY <1>3, <1>5, <1>6
<1>7. CASE i < m - 1
  <2>1. f[i] < f[m - 1]
    BY <1>4, <1>7
  <2> QED
    BY <1>3, <1>5, <2>1
<1> QED
  BY <1>4, <1>6, <1>7

\* and faster where d is greater.
LEMMA SumsOrder ==
  \A n, b, c, d, e, f, g :
     /\ n \in Nat /\ d \in [1..n -> Nat] /\ Adds(f, n, b, d)
     /\ e \in [1..n -> Nat] /\ Adds(g, n, c, e) /\ b <= c
     /\ \A i \in 1..n : d[i] <= e[i]
     => \A i \in 0..n : f[i] <= g[i]
<1> TAKE n, b, c, d, e, f, g
<1> HAVE /\ n \in Nat /\ d \in [1..n -> Nat] /\ Adds(f, n, b, d)
         /\ e \in [1..n -> Nat] /\ Adds(g, n, c, e) /\ b <= c
         /\ \A i \in 1..n : d[i] <= e[i]
<1> DEFINE T == {k \in 0..n : ~(f[k] <= g[k])}
<1>1. SUFFICES ASSUME T # {} PROVE FALSE
  OBVIOUS
<1>2. T \subseteq Nat
  OBVIOUS
<1>3. PICK m \in T : \A k \in T : m <= k
  <2> HIDE DEF T
  <2> QED
    BY <1>1, <1>2, LeastNumber
<1>4. CASE m = 0
  BY <1>3, <1>4 DEF Adds
<1>5. CASE m # 0
  <2>1. m \in 1..n /\ m - 1 \in 0..n /\ m - 1 \notin T
    BY <1>3, <1>5
  <2>2. f[m - 1] <= g[m - 1]
    BY <2>1
  <2>3. g[m] = g[m - 1] + e[m] /\ f[m] = f[m - 1] + d[m] /\ d[m] <= e[m]
    BY <2>1, <1>5 DEF Adds
  <2>4. d[m] \in Nat /\ e[m] \in Nat /\ f[m - 1] \in Nat /\ g[m - 1] \in Nat
    BY <2>1 DEF Adds
  <2>5. f[m] <= g[m]
    BY <2>2, <2>3, <2>4
  <2> QED
    BY <1>3, <2>5
<1> QED
  BY <1>4, <1>5

-----------------------------------------------------------------------------
(* The layout of whole items *)

\* the steps of the writer, and the room set aside, entry by entry
Steps(lens) == [i \in 1..Len(lens) |-> WriterStride(lens[i])]
Rooms(lens) == [i \in 1..Len(lens) |-> EntryRoom(lens[i])]

\* They are numbers, and there is room for each step.
LEMMA StepsAndRooms ==
    ASSUME NEW lens \in Seq(Nat)
    PROVE  /\ Len(lens) \in Nat
           /\ Steps(lens) \in [1..Len(lens) -> Nat] /\ Rooms(lens) \in [1..Len(lens) -> Nat]
           /\ \A i \in 1..Len(lens) : /\ Steps(lens)[i] = WriterStride(lens[i])
                                      /\ Rooms(lens)[i] = EntryRoom(lens[i])
                                      /\ 0 < Steps(lens)[i] /\ Steps(lens)[i] <= Rooms(lens)[i]
<1>1. ASSUME NEW len \in Nat
      PROVE  Slots(len) \in Nat /\ WriterStride(len) \in Nat /\ EntryRoom(len) \in Nat
                /\ 0 < WriterStride(len)
  <2>1. len \div 8 \in Nat
    BY SMT
  <2> QED
    BY <2>1, SMT DEF WriterStride, EntryRoom, Slots, SLOT
<1>2. \A i \in 1..Len(lens) : lens[i] \in Nat
  OBVIOUS
<1>3. \A i \in 1..Len(lens) :
         /\ WriterStride(lens[i]) \in Nat /\ EntryRoom(lens[i]) \in Nat
         /\ 0 < WriterStride(lens[i]) /\ WriterStride(lens[i]) <= EntryRoom(lens[i])
  BY <1>1, <1>2, EntriesHaveRoom, Zenon
<1> QED
  BY <1>3 DEF Steps, Rooms

\* RoomFor adds up the room of the entries.
LEMMA RoomAdds ==
    ASSUME NEW lens \in Seq(Nat)
    PROVE  \E s : Adds(s, Len(lens), 0, Rooms(lens)) /\ RoomFor(lens) = s[Len(lens)]
<1> DEFINE n == Len(lens)
           r == CHOOSE sum : sum = [i \in 0..Len(lens) |->
                   IF i = 0 THEN 0 ELSE sum[i - 1] + EntryRoom(lens[i])]
<1>1. n \in Nat /\ Rooms(lens) \in [1..n -> Nat]
      /\ \A i \in 1..n : Rooms(lens)[i] = EntryRoom(lens[i])
  BY StepsAndRooms
<1>2. PICK s : Adds(s, n, 0, Rooms(lens))
  BY <1>1, SumsExist
<1>3. s = [i \in 0..Len(lens) |-> IF i = 0 THEN 0 ELSE s[i - 1] + EntryRoom(lens[i])]
  BY <1>1, <1>2 DEF Adds
<1>4. r = [i \in 0..Len(lens) |-> IF i = 0 THEN 0 ELSE r[i - 1] + EntryRoom(lens[i])]
  BY <1>3
<1>5. RoomFor(lens) = r[Len(lens)]
  BY DEF RoomFor
<1> HIDE DEF r
<1>6. \A i \in 0..n : r[i] = IF i = 0 THEN 0 ELSE r[i - 1] + Rooms(lens)[i]
  <2> SUFFICES ASSUME NEW i \in 0..n
               PROVE  r[i] = IF i = 0 THEN 0 ELSE r[i - 1] + Rooms(lens)[i]
    OBVIOUS
  <2>1. r[i] = IF i = 0 THEN 0 ELSE r[i - 1] + EntryRoom(lens[i])
    BY <1>4, Zenon
  <2>2. i # 0 => i \in 1..n
    BY <1>1
  <2> QED
    BY <1>1, <2>1, <2>2
<1>7. r[n] = s[n]
  <2>1. Agree(s, r, n)
    <3>1. AddsUp(r, n, 0, Rooms(lens)) /\ 0 \in Nat
      BY <1>6 DEF AddsUp
    <3> QED
      BY <1>1, <1>2, <3>1, SumsSame, Zenon
  <2> QED
    BY <1>1, <2>1 DEF Agree
<1> QED
  BY <1>2, <1>5, <1>7

\* WrittenAt adds up the steps of the writer.
LEMMA WrittenAdds ==
    ASSUME NEW lens \in Seq(Nat)
    PROVE  \E p : /\ Adds(p, Len(lens), DATA_HDR, Steps(lens))
                  /\ WrittenAt(lens) = [i \in 1..Len(lens) |-> p[i - 1]]
<1> DEFINE n == Len(lens)
           r == CHOOSE at : at = [i \in 1..Len(lens) |->
                   IF i = 1 THEN DATA_HDR ELSE at[i - 1] + WriterStride(lens[i - 1])]
<1>1. n \in Nat /\ Steps(lens) \in [1..n -> Nat] /\ DATA_HDR \in Nat
      /\ \A i \in 1..n : Steps(lens)[i] = WriterStride(lens[i])
  BY StepsAndRooms DEF DATA_HDR
<1>2. PICK p : Adds(p, n, DATA_HDR, Steps(lens))
  BY <1>1, SumsExist
<1> DEFINE q == [i \in 1..Len(lens) |-> p[i - 1]]
<1>3. q = [i \in 1..Len(lens) |->
             IF i = 1 THEN DATA_HDR ELSE q[i - 1] + WriterStride(lens[i - 1])]
  <2> SUFFICES ASSUME NEW i \in 1..n
               PROVE  q[i] = IF i = 1 THEN DATA_HDR ELSE q[i - 1] + WriterStride(lens[i - 1])
    OBVIOUS
  <2>1. CASE i = 1
    BY <1>1, <1>2, <2>1 DEF Adds
  <2>2. CASE i # 1
    <3>1. i - 1 \in 1..n
      BY <1>1, <2>2
    <3>2. q[i] = p[i - 1] /\ q[i - 1] = p[(i - 1) - 1]
      BY <3>1
    <3>3. p[i - 1] = p[(i - 1) - 1] + WriterStride(lens[i - 1])
      BY <1>1, <1>2, <3>1 DEF Adds
    <3> QED
      BY <2>2, <3>2, <3>3
  <2> QED
    BY <2>1, <2>2
<1>4. r = [i \in 1..Len(lens) |->
             IF i = 1 THEN DATA_HDR ELSE r[i - 1] + WriterStride(lens[i - 1])]
  <2> HIDE DEF q
  <2> QED
    BY <1>3
<1>5. WrittenAt(lens) = r
  BY DEF WrittenAt
<1> HIDE DEF r
<1> DEFINE g == [i \in 0..n |-> IF i = 0 THEN DATA_HDR ELSE r[i] + WriterStride(lens[i])]
<1>6. \A i \in 0..n : g[i] = IF i = 0 THEN DATA_HDR ELSE g[i - 1] + Steps(lens)[i]
  <2> SUFFICES ASSUME NEW i \in 0..n, i # 0  PROVE g[i] = g[i - 1] + Steps(lens)[i]
    OBVIOUS
  <2>1. i \in 1..n /\ i - 1 \in 0..n
    BY <1>1
  <2>2. r[i] = IF i = 1 THEN DATA_HDR ELSE r[i - 1] + WriterStride(lens[i - 1])
    BY <1>4, <2>1, Zenon
  <2>3. g[i] = r[i] + WriterStride(lens[i])
    BY <2>1
  <2>4. g[i - 1] = IF i - 1 = 0 THEN DATA_HDR ELSE r[i - 1] + WriterStride(lens[i - 1])
    BY <2>1
  <2>5. g[i - 1] = r[i]
    BY <2>1, <2>2, <2>4
  <2> QED
    BY <1>1, <2>1, <2>3, <2>5
<1> HIDE DEF g
<1>7. Agree(p, g, n)
  <2>1. AddsUp(g, n, DATA_HDR, Steps(lens))
    BY <1>6 DEF AddsUp
  <2> QED
    BY <1>1, <1>2, <2>1, SumsSame, Zenon
<1>8. ASSUME NEW i \in 1..Len(lens)  PROVE r[i] = p[i - 1]
  <2>1. i - 1 \in 0..n /\ i - 1 # n
    BY <1>1
  <2>2. g[i - 1] = IF i - 1 = 0 THEN DATA_HDR ELSE r[i - 1] + WriterStride(lens[i - 1])
    BY <2>1 DEF g
  <2>3. r[i] = IF i = 1 THEN DATA_HDR ELSE r[i - 1] + WriterStride(lens[i - 1])
    BY <1>4, Zenon
  <2>4. r[i] = g[i - 1]
    BY <1>1, <2>2, <2>3
  <2> QED
    BY <1>7, <2>1, <2>4 DEF Agree
<1>9. r = [i \in 1..Len(lens) |-> p[i - 1]]
  BY <1>4, <1>8
<1> QED
  BY <1>2, <1>5, <1>9

\* What calc_data_slots, calc_vector_slots and update_buffer_size compute are numbers.
LEMMA SpaceNumber ==
    ASSUME NEW lens \in Seq(Nat)
    PROVE  /\ RoomFor(lens) \in Nat /\ Space(lens) \in Nat /\ Asked(lens) \in Nat
           /\ Len(lens) \in Nat
           /\ Len(lens) = 1 => lens[1] \in Nat /\ Slots(lens[1]) \in Nat
                                 /\ lens[1] <= SLOT * Slots(lens[1])
                                 /\ Space(lens) = DATA_HDR + Slots(lens[1])
           /\ Len(lens) # 1 => Space(lens) = DATA_HDR + RoomFor(lens)
<1>1. PICK s : Adds(s, Len(lens), 0, Rooms(lens)) /\ RoomFor(lens) = s[Len(lens)]
  BY RoomAdds
<1>2. Len(lens) \in Nat
  OBVIOUS
<1>3. RoomFor(lens) \in Nat
  BY <1>1, <1>2 DEF Adds
<1>4. ASSUME NEW len \in Nat PROVE Slots(len) \in Nat /\ len <= SLOT * Slots(len)
  <2>1. len \div 8 \in Nat /\ len % 8 \in 0..7 /\ len = (8 * (len \div 8)) + (len % 8)
    BY SMT
  <2> QED
    BY <2>1, SMT DEF Slots, SLOT
<1>5. Len(lens) = 1 => lens[1] \in Nat /\ Slots(lens[1]) \in Nat
                         /\ lens[1] <= SLOT * Slots(lens[1])
  <2>1. Len(lens) >= 1 => lens[1] \in Nat
    OBVIOUS
  <2> QED
    BY <1>2, <1>4, <2>1
<1>6. Space(lens) = DATA_HDR + (IF Len(lens) = 1 THEN Slots(lens[1]) ELSE RoomFor(lens))
  BY DEF Space
<1>7. Space(lens) \in Nat
  BY <1>3, <1>5, <1>6, SMT DEF DATA_HDR
<1>8. Asked(lens) \in Nat
  BY <1>2, <1>7, SMT DEF Asked, SLOT, VEC
<1> QED
  BY <1>2, <1>3, <1>5, <1>6, <1>7, <1>8

(***************************************************************************)
(* Where copy_vector stores the entries: one behind the other, and inside  *)
(* of what calc_vector_slots asked for.                                    *)
(***************************************************************************)
LEMMA WrittenInside ==
    ASSUME NEW lens \in Seq(Nat)
    PROVE  /\ WrittenAt(lens) \in [1..Len(lens) -> Nat]
           /\ \A i \in 1..Len(lens) :
                 /\ DATA_HDR <= WrittenAt(lens)[i]
                 /\ WrittenAt(lens)[i] + WriterStride(lens[i]) <= DATA_HDR + RoomFor(lens)
                 /\ \A j \in 1..Len(lens) : i < j => WrittenAt(lens)[i] < WrittenAt(lens)[j]
           /\ \A i \in 1..Len(lens) :
                 WrittenAt(lens)[i] = IF i = 1 THEN DATA_HDR
                                      ELSE WrittenAt(lens)[i - 1] + WriterStride(lens[i - 1])
<1> DEFINE n == Len(lens)
           w == WrittenAt(lens)
<1>1. /\ n \in Nat /\ Steps(lens) \in [1..n -> Nat] /\ Rooms(lens) \in [1..n -> Nat]
      /\ \A i \in 1..n : Steps(lens)[i] = WriterStride(lens[i])
      /\ \A i \in 1..n : 0 < Steps(lens)[i]
      /\ \A i \in 1..n : Steps(lens)[i] <= Rooms(lens)[i]
  BY StepsAndRooms
<1>2. PICK p : Adds(p, n, DATA_HDR, Steps(lens)) /\ w = [i \in 1..n |-> p[i - 1]]
  BY WrittenAdds
<1>3. PICK s : Adds(s, n, 0, Rooms(lens)) /\ RoomFor(lens) = s[n]
  BY RoomAdds
<1> HIDE DEF w
<1> DEFINE g == [i \in 0..n |-> DATA_HDR + s[i]]
<1>4. Adds(g, n, DATA_HDR, Rooms(lens))
  <2>1. /\ s \in [0..n -> Nat] /\ s[0] = 0
        /\ \A i \in 1..n : s[i] = s[i - 1] + Rooms(lens)[i]
    BY <1>3 DEF Adds
  <2>2. g \in [0..n -> Nat] /\ g[0] = DATA_HDR
    BY <1>1, <2>1 DEF DATA_HDR
  <2>3. ASSUME NEW i \in 1..n  PROVE g[i] = g[i - 1] + Rooms(lens)[i]
    <3>1. i \in 0..n /\ i - 1 \in 0..n
      BY <1>1
    <3>2. g[i] = DATA_HDR + s[i] /\ g[i - 1] = DATA_HDR + s[i - 1]
      BY <3>1
    <3>3. s[i] = s[i - 1] + Rooms(lens)[i]
      BY <2>1, Zenon
    <3>4. s[i - 1] \in Nat
      BY <2>1, <3>1, Zenon
    <3>5. Rooms(lens)[i] \in Nat
      BY <1>1, Zenon
    <3> HIDE DEF g
    <3> QED
      BY <3>2, <3>3, <3>4, <3>5 DEF DATA_HDR
  <2> QED
    BY <2>2, <2>3 DEF Adds
<1>5. g[n] = DATA_HDR + RoomFor(lens)
  BY <1>1, <1>3
<1> HIDE DEF g
<1>6. DATA_HDR <= DATA_HDR
  BY DEF DATA_HDR
<1>7. \A i \in 0..n : p[i] <= g[i]
  BY <1>1, <1>2, <1>4, <1>6, SumsOrder, Zenon
<1>8. \A i, j \in 0..n : i < j => p[i] < p[j]
  BY <1>1, <1>2, SumsGrow, Zenon
<1>9. \A i \in 1..n : 0 < Rooms(lens)[i]
  BY <1>1
<1>10. \A i, j \in 0..n : i < j => g[i] < g[j]
  BY <1>1, <1>4, <1>9, SumsGrow, Zenon
<1>11. /\ p \in [0..n -> Nat] /\ g \in [0..n -> Nat] /\ p[0] = DATA_HDR
       /\ \A i \in 1..n : p[i] = p[i - 1] + WriterStride(lens[i])
  BY <1>1, <1>2, <1>4 DEF Adds
<1>12. w \in [1..n -> Nat] /\ \A i \in 1..n : w[i] = p[i - 1]
  BY <1>1, <1>2, <1>11
<1>13. ASSUME NEW i \in 1..n
       PROVE  /\ DATA_HDR <= w[i]
              /\ w[i] + WriterStride(lens[i]) <= DATA_HDR + RoomFor(lens)
              /\ \A j \in 1..n : i < j => w[i] < w[j]
              /\ w[i] = IF i = 1 THEN DATA_HDR ELSE w[i - 1] + WriterStride(lens[i - 1])
  <2>1. i \in 0..n /\ i - 1 \in 0..n /\ n \in 0..n /\ 0 \in 0..n /\ w[i] = p[i - 1]
    BY <1>1, <1>12
  <2>2. DATA_HDR <= w[i]
    <3>1. 0 < i - 1 => p[0] < p[i - 1]
      BY <1>8, <2>1
    <3>2. p[i - 1] \in Nat
      BY <1>11, <2>1
    <3> QED
      BY <1>11, <2>1, <3>1, <3>2 DEF DATA_HDR
  <2>3. w[i] + WriterStride(lens[i]) <= g[n]
    <3>1. p[i] = w[i] + WriterStride(lens[i])
      BY <1>11, <2>1
    <3>2. p[i] <= g[i] /\ p[i] \in Nat /\ g[i] \in Nat /\ g[n] \in Nat
      BY <1>7, <1>11, <2>1
    <3>3. i < n => g[i] < g[n]
      BY <1>10, <2>1
    <3>4. i = n \/ i < n
      BY <1>1
    <3>5. p[i] <= g[n]
      BY <3>2, <3>3, <3>4
    <3> QED
      BY <3>1, <3>5
  <2>4. \A j \in 1..n : i < j => w[i] < w[j]
    <3> SUFFICES ASSUME NEW j \in 1..n, i < j  PROVE w[i] < w[j]
      OBVIOUS
    <3>1. j - 1 \in 0..n /\ i - 1 < j - 1 /\ w[j] = p[j - 1]
      BY <1>1, <1>12
    <3> QED
      BY <1>8, <2>1, <3>1
  <2>5. w[i] = IF i = 1 THEN DATA_HDR ELSE w[i - 1] + WriterStride(lens[i - 1])
    <3>1. CASE i = 1
      BY <1>11, <2>1, <3>1
    <3>2. CASE i # 1
      <4>1. i - 1 \in 1..n
        BY <1>1, <3>2
      <4>2. p[i - 1] = p[(i - 1) - 1] + WriterStride(lens[i - 1])
        BY <1>11, <4>1
      <4>3. w[i - 1] = p[(i - 1) - 1]
        BY <1>12, <4>1
      <4> QED
        BY <2>1, <3>2, <4>2, <4>3
    <3> QED
      BY <3>1, <3>2
  <2> QED
    BY <1>5, <2>2, <2>3, <2>4, <2>5
<1> QED
  BY <1>12, <1>13 DEF w

\* An item ends inside of what was asked for it.
LEMMA EndsInside ==
    ASSUME NEW lens \in Seq(Nat), lens # <<>>
    PROVE  Ends(lens) <= Space(lens) /\ Ends(lens) \in Int
<1>1. Len(lens) \in Nat /\ Len(lens) >= 1 /\ Len(lens) \in 1..Len(lens)
  OBVIOUS
<1>2. CASE Len(lens) = 1
  BY <1>2, SpaceNumber DEF Ends, DATA_HDR
<1>3. CASE Len(lens) # 1
  <2>1. Ends(lens) = WrittenAt(lens)[Len(lens)] + WriterStride(lens[Len(lens)])
    BY <1>3 DEF Ends
  <2>2. Ends(lens) <= DATA_HDR + RoomFor(lens) /\ WrittenAt(lens)[Len(lens)] \in Nat
    BY <1>1, <2>1, WrittenInside
  <2>3. WriterStride(lens[Len(lens)]) \in Nat
    BY <1>1, StepsAndRooms
  <2> QED
    BY <1>3, <2>1, <2>2, <2>3, SpaceNumber
<1> QED
  BY <1>2, <1>3

\* Each entry is found by the place of its length.
LEMMA LengthFound ==
    ASSUME NEW lens \in Seq(Nat), NEW i \in 1..Len(lens)
    PROVE  LengthAt(lens, WrittenAt(lens)[i]) = lens[i]
<1> DEFINE w == WrittenAt(lens)
           found == {k \in 1..Len(lens) : w[k] = w[i]}
<1>1. /\ w \in [1..Len(lens) -> Nat]
      /\ \A k, j \in 1..Len(lens) : k < j => w[k] < w[j]
  BY WrittenInside
<1> HIDE DEF w
<1>2. \A k \in 1..Len(lens) : w[k] = w[i] => k = i
  <2> SUFFICES ASSUME NEW k \in 1..Len(lens), w[k] = w[i], k # i  PROVE FALSE
    OBVIOUS
  <2>1. k < i \/ i < k
    OBVIOUS
  <2>2. w[k] \in Nat /\ w[i] \in Nat
    BY <1>1
  <2> QED
    BY <1>1, <2>1, <2>2
<1>3. found = {i}
  BY <1>2
<1>4. LengthAt(lens, w[i]) = IF found = {} THEN 0 ELSE lens[CHOOSE k \in found : TRUE]
  BY DEF LengthAt, w
<1> HIDE DEF found
<1>5. (CHOOSE k \in found : TRUE) = i
  BY <1>3
<1> QED
  BY <1>3, <1>4, <1>5 DEF w

(***************************************************************************)
(* copy_to_buffer and initialize_item_vector find every entry that         *)
(* copy_vector stored, where it stored it: the first word of the block is  *)
(* not copied, the type and the length of an entry come before its data.   *)
(***************************************************************************)
LEMMA EntriesFound ==
    ASSUME NEW lens \in Seq(Nat), lens # <<>>, ~BadEntry(lens)
    PROVE  /\ Entries(lens) \in [1..Len(lens) -> [base : Nat, len : Nat]]
           /\ \A i \in 1..Len(lens) :
                 /\ Entries(lens)[i].len = lens[i]
                 /\ Entries(lens)[i].base + 1 =
                       WrittenAt(lens)[i] + (IF Len(lens) = 1 THEN 0 ELSE 2)
<1> DEFINE n == Len(lens)
           w == WrittenAt(lens)
<1>1. /\ n \in Nat /\ n >= 1
      /\ \A i \in 1..n : lens[i] \in Nat /\ lens[i] # 0
  BY DEF BadEntry
<1>2. /\ w \in [1..n -> Nat]
      /\ \A i \in 1..n : DATA_HDR <= w[i]
      /\ \A i \in 1..n : w[i] = IF i = 1 THEN DATA_HDR
                                ELSE w[i - 1] + WriterStride(lens[i - 1])
  BY WrittenInside
<1>3. \A i \in 1..n : LengthAt(lens, w[i]) = lens[i]
  BY LengthFound
<1>4. CASE n = 1
  <2>1. Entries(lens) = << [base |-> DATA_HDR - 1, len |-> lens[1]] >>
    BY <1>4 DEF Entries
  <2>2. 1..n = {1} /\ lens[1] \in Nat /\ w[1] = DATA_HDR
    BY <1>1, <1>2, <1>4
  <2>3. Len(lens) = 1
    BY <1>4
  <2>4. /\ Entries(lens)[1] = [base |-> DATA_HDR - 1, len |-> lens[1]]
        /\ Entries(lens) \in [{1} -> [base : Nat, len : Nat]]
    BY <2>1, <2>2 DEF DATA_HDR
  <2> QED
    BY <2>2, <2>3, <2>4 DEF DATA_HDR
<1>5. CASE n # 1
  <2> DEFINE r == CHOOSE at : at = [i \in 1..Len(lens) |->
                     IF i = 1 THEN DATA_HDR - 1
                     ELSE at[i - 1] + ReaderStride(LengthAt(lens, at[i - 1] + 1))]
             t == [i \in 1..Len(lens) |-> w[i] - 1]
  <2> HIDE DEF w
  <2>1. ASSUME NEW i \in 1..n, i # 1
        PROVE  /\ i - 1 \in 1..n
               /\ \A x : x = w[i - 1] - 1 =>
                     w[i] - 1 = x + ReaderStride(LengthAt(lens, x + 1))
    <3>1. i - 1 \in 1..n
      BY <1>1, <2>1
    <3>2. w[i - 1] \in Nat /\ w[i] \in Nat /\ w[i] = w[i - 1] + WriterStride(lens[i - 1])
      BY <1>2, <2>1, <3>1
    <3>3. LengthAt(lens, w[i - 1]) = lens[i - 1] /\ lens[i - 1] \in Nat \ {0}
      BY <1>1, <1>3, <3>1
    <3>4. ReaderStride(LengthAt(lens, w[i - 1])) = WriterStride(lens[i - 1])
      BY <3>3, StridesAgree
    <3>5. WriterStride(lens[i - 1]) \in Nat
      BY <3>1, StepsAndRooms, ZenonT(60)
    <3>6. ASSUME NEW x, x = w[i - 1] - 1
          PROVE  w[i] - 1 = x + ReaderStride(LengthAt(lens, x + 1))
      <4>1. x + 1 = w[i - 1]
        BY <3>2, <3>6
      <4>2. ReaderStride(LengthAt(lens, x + 1)) = WriterStride(lens[i - 1])
        BY <3>4, <4>1
      <4> QED
        BY <3>2, <3>5, <3>6, <4>2, SMTT(30)
    <3> QED
      BY <3>1, <3>6
  <2>2. t = [i \in 1..Len(lens) |->
               IF i = 1 THEN DATA_HDR - 1
               ELSE t[i - 1] + ReaderStride(LengthAt(lens, t[i - 1] + 1))]
    <3> SUFFICES ASSUME NEW i \in 1..n
                 PROVE  t[i] = IF i = 1 THEN DATA_HDR - 1
                               ELSE t[i - 1] + ReaderStride(LengthAt(lens, t[i - 1] + 1))
      OBVIOUS
    <3>1. t[i] = w[i] - 1
      OBVIOUS
    <3>2. i # 1 => t[i - 1] = w[i - 1] - 1
      BY <2>1
    <3>3. i = 1 => w[i] = DATA_HDR
      BY <1>2
    <3> HIDE DEF t
    <3>4. i # 1 => w[i] - 1 = t[i - 1] + ReaderStride(LengthAt(lens, t[i - 1] + 1))
      BY <2>1, <3>2
    <3> QED
      BY <3>1, <3>3, <3>4
  <2>3. r = [i \in 1..Len(lens) |->
               IF i = 1 THEN DATA_HDR - 1
               ELSE r[i - 1] + ReaderStride(LengthAt(lens, r[i - 1] + 1))]
    <3> HIDE DEF t
    <3> QED
      BY <2>2
  <2>4. Entries(lens) = [i \in 1..Len(lens) |->
                           [base |-> r[i] + 2, len |-> LengthAt(lens, r[i] + 1)]]
    BY <1>5 DEF Entries
  <2> HIDE DEF r, t
  <2>5. \A i \in 1..n : r[i] = w[i] - 1
    <3> DEFINE T == {i \in 1..n : r[i] # w[i] - 1}
    <3>1. SUFFICES ASSUME T # {} PROVE FALSE
      OBVIOUS
    <3>2. T \subseteq Nat
      OBVIOUS
    <3>3. PICK m \in T : \A k \in T : m <= k
      <4> HIDE DEF T
      <4> QED
        BY <3>1, <3>2, LeastNumber
    <3>4. m \in 1..n /\ r[m] # w[m] - 1
      BY <3>3
    <3>5. m # 1
      BY <1>2, <2>3, <3>4
    <3>6. m - 1 \in 1..n /\ m - 1 \notin T
      BY <2>1, <3>3, <3>4, <3>5
    <3>7. r[m - 1] = w[m - 1] - 1
      BY <3>6
    <3>8. r[m] = r[m - 1] + ReaderStride(LengthAt(lens, r[m - 1] + 1))
      BY <2>3, <3>4, <3>5, Zenon
    <3> QED
      BY <2>1, <3>4, <3>5, <3>7, <3>8
  <2>6. ASSUME NEW i \in 1..n
        PROVE  /\ Entries(lens)[i] = [base |-> w[i] + 1, len |-> lens[i]]
               /\ w[i] + 1 \in Nat /\ lens[i] \in Nat
               /\ (w[i] + 1) + 1 = w[i] + 2
    <3>1. r[i] = w[i] - 1 /\ w[i] \in Nat
      BY <1>2, <2>5
    <3>2. r[i] + 1 = w[i] /\ r[i] + 2 = w[i] + 1
      BY <3>1
    <3>3. Entries(lens)[i] = [base |-> r[i] + 2, len |-> LengthAt(lens, r[i] + 1)]
      BY <2>4
    <3>4. LengthAt(lens, r[i] + 1) = lens[i]
      BY <1>3, <3>2
    <3> QED
      BY <1>1, <3>1, <3>2, <3>3, <3>4
  <2>7. Entries(lens) \in [1..n -> [base : Nat, len : Nat]]
    <3> DEFINE E == Entries(lens)
               K == [base : Nat, len : Nat]
    <3>1. ASSUME NEW i \in 1..n  PROVE E[i] \in K
      <4>1. w[i] + 1 \in Nat /\ lens[i] \in Nat
        BY <2>6
      <4>2. \A x, y \in Nat : [base |-> x, len |-> y] \in K
        OBVIOUS
      <4> HIDE DEF K
      <4>3. [base |-> w[i] + 1, len |-> lens[i]] \in K
        BY <4>1, <4>2
      <4> QED
        BY <2>6, <4>3, Zenon
    <3>2. E = [i \in 1..n |-> E[i]]
      <4>1. \A i \in 1..n : E[i] = [base |-> r[i] + 2, len |-> LengthAt(lens, r[i] + 1)]
        BY <2>4
      <4> QED
        BY <2>4, <4>1, Zenon
    <3> HIDE DEF E, K
    <3>3. E \in [1..n -> K]
      BY <3>1, <3>2
    <3> QED
      BY <3>3 DEF E, K
  <2> QED
    BY <1>5, <2>6, <2>7 DEF w
<1> QED
  BY <1>4, <1>5

-----------------------------------------------------------------------------
(* Types, and the items where they are *)

\* an item that a block holds
Stored(i) == i.lens # <<>> /\ ~BadEntry(i.lens) /\ Space(i.lens) <= i.slots

Outcomes == [status : {"none", "kept", "SH_OK", "SH_ERR_EXIST"}, age : Nat]

\* what holds of the file and of the items on the queue
FileInv ==
    /\ end \in Nat /\ buffer \in Nat /\ count \in Int /\ discard \in BOOLEAN
    /\ empty \in 0..clock /\ lastAdd \in 0..clock
    /\ DOMAIN size = Procs /\ DOMAIN got = Procs
    /\ \A n \in 1..Len(queue) :
          /\ queue[n].stamp \in 0..clock /\ Stored(queue[n])
          /\ Asked(queue[n].lens) <= buffer

\* the labels between which an item is on its way
Storing == {"bufferRead", "bufferCas", "alloc"}
Holding == {"link", "copy", "uncount"}

\* what holds of a call
CallInv(p) ==
    /\ now[p] \in 0..clock /\ item[p].stamp \in 0..clock /\ old[p] \in Nat /\ size[p] \in Nat
    /\ outcome[p] \in Outcomes
    /\ pc[p] \in Judging \cup {"overdue"} => item[p].stamp <= now[p]
    /\ pc[p] \in Storing => item[p].lens # <<>>
    /\ pc[p] \in {"alloc", "link"} => Asked(item[p].lens) <= buffer
    /\ pc[p] \in Holding => Stored(item[p])
    /\ got[p] # <<>> => /\ pc[p] = "uncount" /\ got[p] = Entries(item[p].lens)
                        /\ size[p] >= Needed(item[p].slots, item[p].lens)

\* the locals that no type invariant above mentions are functions
Tables ==
    /\ old = [p \in Procs |-> old[p]] /\ size = [p \in Procs |-> size[p]]
    /\ got = [p \in Procs |-> got[p]] /\ outcome = [p \in Procs |-> outcome[p]]

LayoutInv == JudgeInv /\ Inv /\ Tables /\ FileInv /\ \A p \in Procs : CallInv(p)

\* the other calls are where they were, and have what they had
Alone(p) ==
    \A q \in Procs : q # p =>
       /\ pc'[q] = pc[q] /\ item'[q] = item[q] /\ now'[q] = now[q] /\ old'[q] = old[q]
       /\ size'[q] = size[q] /\ got'[q] = got[q] /\ outcome'[q] = outcome[q]

\* Such a step leaves what holds of the others, as BUFFER does not fall.
LEMMA OthersKept ==
    ASSUME \A r \in Procs : CallInv(r), \A r \in Procs : Asked(item[r].lens) \in Int,
           NEW p \in Procs, Alone(p), clock' = clock,
           buffer \in Int, buffer' \in Int, buffer <= buffer',
           NEW q \in Procs, q # p
    PROVE  CallInv(q)'
<1>1. CallInv(q) /\ Asked(item[q].lens) \in Int
  OBVIOUS
<1>2. /\ pc'[q] = pc[q] /\ item'[q] = item[q] /\ now'[q] = now[q] /\ old'[q] = old[q]
      /\ size'[q] = size[q] /\ got'[q] = got[q] /\ outcome'[q] = outcome[q]
  BY DEF Alone
<1> QED
  BY <1>1, <1>2 DEF CallInv

\* What the invariant says of the types.
LEMMA Shaped ==
    ASSUME LayoutInv
    PROVE  /\ clock \in Nat /\ buffer \in Nat /\ queue \in Seq(Items)
           /\ pc \in [Procs -> Labels] /\ todo \in [Procs -> Seq(CallSet)]
           /\ item \in [Procs -> Items] /\ now \in [Procs -> Nat]
           /\ by \in [Procs -> {"limit", "target"}]
           /\ DOMAIN old = Procs /\ DOMAIN size = Procs /\ DOMAIN got = Procs
           /\ DOMAIN outcome = Procs
           /\ \A p \in Procs : /\ item[p].lens \in Seq(Nat) /\ item[p].slots \in Nat
                               /\ item[p].stamp \in Nat
                               /\ pc[p] # "idle" => todo[p] # <<>>
                               /\ Asked(item[p].lens) \in Int
<1>1. Typed /\ FileInv /\ Shapes
  BY DEF LayoutInv, JudgeInv, Inv
<1>2. \A p \in Procs : item[p].lens \in Seq(Nat) /\ item[p].slots \in Nat /\ item[p].stamp \in Nat
  BY <1>1 DEF Typed, Items
<1>3. \A p \in Procs : Asked(item[p].lens) \in Int
  BY <1>2, SpaceNumber
<1> QED
  BY <1>1, <1>2, <1>3 DEF Typed, FileInv, Shapes

\* A call touches nothing of another one.
LEMMA AloneAll ==
    ASSUME LayoutInv, NEW p \in Procs,
           Add(p) \/ Remove(p) \/ TimeLimit(p) \/ TargetDelay(p) \/ Discard(p)
    PROVE  Alone(p) /\ clock' = clock /\ end' = end
<1>1. /\ DOMAIN pc = Procs /\ DOMAIN item = Procs /\ DOMAIN now = Procs /\ DOMAIN old = Procs
      /\ DOMAIN size = Procs /\ DOMAIN got = Procs /\ DOMAIN outcome = Procs
  BY Shaped
<1>2. ASSUME AddRefused(p)  PROVE Alone(p) /\ clock' = clock /\ end' = end
  BY <1>1, <1>2 DEF Alone, AddRefused, Calling, At, Finish, fileVars, settings, locals
<1>3. ASSUME AddClock(p)  PROVE Alone(p) /\ clock' = clock /\ end' = end
  BY <1>1, <1>3 DEF Alone, AddClock, Calling, At, Goto, fileVars, settings
<1>4. ASSUME BufferRead(p)  PROVE Alone(p) /\ clock' = clock /\ end' = end
  BY <1>1, <1>4 DEF Alone, BufferRead, At, Goto, fileVars, settings
<1>5. ASSUME BufferCas(p)  PROVE Alone(p) /\ clock' = clock /\ end' = end
  BY <1>1, <1>5 DEF Alone, BufferCas, At, Goto, settings, locals
<1>6. ASSUME Alloc(p)  PROVE Alone(p) /\ clock' = clock /\ end' = end
  BY <1>1, <1>6 DEF Alone, Alloc, At, Goto, Finish, Forget, fileVars, settings
<1>7. ASSUME NoMemory(p)  PROVE Alone(p) /\ clock' = clock /\ end' = end
  BY <1>1, <1>7 DEF Alone, NoMemory, At, Finish, Forget, fileVars, settings
<1>8. ASSUME Link(p)  PROVE Alone(p) /\ clock' = clock /\ end' = end
  BY <1>1, <1>8 DEF Alone, Link, At, Goto, settings, locals
<1>9. ASSUME Count(p)  PROVE Alone(p) /\ clock' = clock /\ end' = end
  BY <1>1, <1>9 DEF Alone, Count, At, Goto, settings, locals
<1>10. ASSUME StampClock(p)  PROVE Alone(p) /\ clock' = clock /\ end' = end
  BY <1>1, <1>10 DEF Alone, StampClock, At, Goto, fileVars, settings
<1>11. ASSUME StampRead(p)  PROVE Alone(p) /\ clock' = clock /\ end' = end
  BY <1>1, <1>11 DEF Alone, StampRead, At, Goto, fileVars, settings
<1>12. ASSUME StampCas(p)  PROVE Alone(p) /\ clock' = clock /\ end' = end
  BY <1>1, <1>12 DEF Alone, StampCas, At, Goto, settings, locals
<1>13. ASSUME LastRead(p)  PROVE Alone(p) /\ clock' = clock /\ end' = end
  BY <1>1, <1>13 DEF Alone, LastRead, At, Goto, fileVars, settings
<1>14. ASSUME LastCas(p)  PROVE Alone(p) /\ clock' = clock /\ end' = end
  BY <1>1, <1>14 DEF Alone, LastCas, At, Finish, Forget, settings
<1>15. ASSUME Empty(p)  PROVE Alone(p) /\ clock' = clock /\ end' = end
  BY <1>1, <1>15 DEF Alone, Empty, Calling, At, Finish, fileVars, settings, locals
<1>16. ASSUME Take(p)  PROVE Alone(p) /\ clock' = clock /\ end' = end
  BY <1>1, <1>16 DEF Alone, Take, Calling, At, Goto, settings
<1>17. ASSUME Copy(p)  PROVE Alone(p) /\ clock' = clock /\ end' = end
  BY <1>1, <1>17 DEF Alone, Copy, At, Goto, fileVars, settings
<1>18. ASSUME CopyFails(p)  PROVE Alone(p) /\ clock' = clock /\ end' = end
  BY <1>1, <1>18 DEF Alone, CopyFails, At, Goto, fileVars, settings
<1>19. ASSUME MapFails(p)  PROVE Alone(p) /\ clock' = clock /\ end' = end
  BY <1>1, <1>19 DEF Alone, MapFails, At, Finish, Forget, fileVars, settings
<1>20. ASSUME Uncount(p)  PROVE Alone(p) /\ clock' = clock /\ end' = end
  BY <1>1, <1>20 DEF Alone, Uncount, At, Goto, settings
<1>21. ASSUME ClearRead(p)  PROVE Alone(p) /\ clock' = clock /\ end' = end
  BY <1>1, <1>21 DEF Alone, ClearRead, At, Goto, fileVars, settings
<1>22. ASSUME ClearCas(p)  PROVE Alone(p) /\ clock' = clock /\ end' = end
  BY <1>1, <1>22 DEF Alone, ClearCas, At, Goto, settings, locals
<1>23. ASSUME Flag(p)  PROVE Alone(p) /\ clock' = clock /\ end' = end
  BY <1>1, <1>23 DEF Alone, Flag, At, Goto, Returned, Finish, Forget, fileVars, settings
<1>24. ASSUME Judge(p)  PROVE Alone(p) /\ clock' = clock /\ end' = end
  BY <1>1, <1>24 DEF Alone, Judge, At, Goto, fileVars, settings
<1>25. ASSUME Interval(p)  PROVE Alone(p) /\ clock' = clock /\ end' = end
  BY <1>1, <1>25 DEF Alone, Interval, At, Goto, fileVars, settings
<1>26. ASSUME Zero(p)  PROVE Alone(p) /\ clock' = clock /\ end' = end
  BY <1>1, <1>26 DEF Alone, Zero, At, Goto, Returned, Finish, Forget, fileVars, settings
<1>27. ASSUME Compare(p)  PROVE Alone(p) /\ clock' = clock /\ end' = end
  BY <1>1, <1>27 DEF Alone, Compare, At, Goto, Returned, Finish, Forget, fileVars, settings
<1>28. ASSUME Overdue(p)  PROVE Alone(p) /\ clock' = clock /\ end' = end
  BY <1>1, <1>28 DEF Alone, Overdue, At, Returned, Finish, Forget, fileVars, settings
<1>29. ASSUME TimeLimit(p)  PROVE Alone(p) /\ clock' = clock /\ end' = end
  BY <1>1, <1>29 DEF Alone, TimeLimit, Calling, At, Finish, fileVars
<1>30. ASSUME TargetDelay(p)  PROVE Alone(p) /\ clock' = clock /\ end' = end
  BY <1>1, <1>30 DEF Alone, TargetDelay, Calling, At, fileVars
<1>31. ASSUME Discard(p)  PROVE Alone(p) /\ clock' = clock /\ end' = end
  BY <1>1, <1>31 DEF Alone, Discard, Calling, At, Finish, fileVars, locals
<1> QED
  BY <1>2, <1>3, <1>4, <1>5, <1>6, <1>7, <1>8, <1>9, <1>10, <1>11, <1>12, <1>13, <1>14, <1>15,
     <1>16, <1>17, <1>18, <1>19, <1>20, <1>21, <1>22, <1>23, <1>24, <1>25, <1>26, <1>27, <1>28,
     <1>29, <1>30, <1>31 DEF Add, Remove

\* Every local stays a function.
LEMMA TablesKept ==
    ASSUME Tables, NEW p \in Procs,
           Add(p) \/ Remove(p) \/ TimeLimit(p) \/ TargetDelay(p) \/ Discard(p)
    PROVE  Tables'
<1>1. ASSUME AddRefused(p)  PROVE Tables'
  BY <1>1 DEF Tables, AddRefused, Calling, At, Finish, fileVars, settings, locals
<1>2. ASSUME AddClock(p)  PROVE Tables'
  BY <1>2 DEF Tables, AddClock, Calling, At, Goto, fileVars, settings
<1>3. ASSUME BufferRead(p)  PROVE Tables'
  BY <1>3 DEF Tables, BufferRead, At, Goto, fileVars, settings
<1>4. ASSUME BufferCas(p)  PROVE Tables'
  BY <1>4 DEF Tables, BufferCas, At, Goto, settings, locals
<1>5. ASSUME Alloc(p)  PROVE Tables'
  BY <1>5 DEF Tables, Alloc, At, Goto, Finish, Forget, fileVars, settings
<1>6. ASSUME NoMemory(p)  PROVE Tables'
  BY <1>6 DEF Tables, NoMemory, At, Finish, Forget, fileVars, settings
<1>7. ASSUME Link(p)  PROVE Tables'
  BY <1>7 DEF Tables, Link, At, Goto, settings, locals
<1>8. ASSUME Count(p)  PROVE Tables'
  BY <1>8 DEF Tables, Count, At, Goto, settings, locals
<1>9. ASSUME StampClock(p)  PROVE Tables'
  BY <1>9 DEF Tables, StampClock, At, Goto, fileVars, settings
<1>10. ASSUME StampRead(p)  PROVE Tables'
  BY <1>10 DEF Tables, StampRead, At, Goto, fileVars, settings
<1>11. ASSUME StampCas(p)  PROVE Tables'
  BY <1>11 DEF Tables, StampCas, At, Goto, settings, locals
<1>12. ASSUME LastRead(p)  PROVE Tables'
  BY <1>12 DEF Tables, LastRead, At, Goto, fileVars, settings
<1>13. ASSUME LastCas(p)  PROVE Tables'
  BY <1>13 DEF Tables, LastCas, At, Finish, Forget, settings
<1>14. ASSUME Empty(p)  PROVE Tables'
  BY <1>14 DEF Tables, Empty, Calling, At, Finish, fileVars, settings, locals
<1>15. ASSUME Take(p)  PROVE Tables'
  BY <1>15 DEF Tables, Take, Calling, At, Goto, settings
<1>16. ASSUME Copy(p)  PROVE Tables'
  BY <1>16 DEF Tables, Copy, At, Goto, fileVars, settings
<1>17. ASSUME CopyFails(p)  PROVE Tables'
  BY <1>17 DEF Tables, CopyFails, At, Goto, fileVars, settings
<1>18. ASSUME MapFails(p)  PROVE Tables'
  BY <1>18 DEF Tables, MapFails, At, Finish, Forget, fileVars, settings
<1>19. ASSUME Uncount(p)  PROVE Tables'
  BY <1>19 DEF Tables, Uncount, At, Goto, settings
<1>20. ASSUME ClearRead(p)  PROVE Tables'
  BY <1>20 DEF Tables, ClearRead, At, Goto, fileVars, settings
<1>21. ASSUME ClearCas(p)  PROVE Tables'
  BY <1>21 DEF Tables, ClearCas, At, Goto, settings, locals
<1>22. ASSUME Flag(p)  PROVE Tables'
  BY <1>22 DEF Tables, Flag, At, Goto, Returned, Finish, Forget, fileVars, settings
<1>23. ASSUME Judge(p)  PROVE Tables'
  BY <1>23 DEF Tables, Judge, At, Goto, fileVars, settings
<1>24. ASSUME Interval(p)  PROVE Tables'
  BY <1>24 DEF Tables, Interval, At, Goto, fileVars, settings
<1>25. ASSUME Zero(p)  PROVE Tables'
  BY <1>25 DEF Tables, Zero, At, Goto, Returned, Finish, Forget, fileVars, settings
<1>26. ASSUME Compare(p)  PROVE Tables'
  BY <1>26 DEF Tables, Compare, At, Goto, Returned, Finish, Forget, fileVars, settings
<1>27. ASSUME Overdue(p)  PROVE Tables'
  BY <1>27 DEF Tables, Overdue, At, Returned, Finish, Forget, fileVars, settings
<1>28. ASSUME TimeLimit(p)  PROVE Tables'
  BY <1>28 DEF Tables, TimeLimit, Calling, At, Finish, fileVars
<1>29. ASSUME TargetDelay(p)  PROVE Tables'
  BY <1>29 DEF Tables, TargetDelay, Calling, At, fileVars
<1>30. ASSUME Discard(p)  PROVE Tables'
  BY <1>30 DEF Tables, Discard, Calling, At, Finish, fileVars, locals
<1> QED
  BY <1>1, <1>2, <1>3, <1>4, <1>5, <1>6, <1>7, <1>8, <1>9, <1>10, <1>11, <1>12, <1>13, <1>14,
     <1>15, <1>16, <1>17, <1>18, <1>19, <1>20, <1>21, <1>22, <1>23, <1>24, <1>25, <1>26, <1>27,
     <1>28, <1>29, <1>30 DEF Add, Remove

\* What a step needs to know of its own call.
LEMMA Own ==
    ASSUME LayoutInv, NEW p \in Procs
    PROVE  /\ FileInv /\ CallInv(p) /\ clock \in Nat /\ buffer \in Nat /\ queue \in Seq(Items)
           /\ pc \in [Procs -> Labels] /\ item \in [Procs -> Items] /\ now \in [Procs -> Nat]
           /\ DOMAIN old = Procs /\ DOMAIN size = Procs /\ DOMAIN got = Procs
           /\ DOMAIN outcome = Procs
           /\ item[p].lens \in Seq(Nat) /\ item[p].slots \in Nat /\ item[p].stamp \in Nat
           /\ Asked(item[p].lens) \in Int
  BY Shaped DEF LayoutInv

\* The end of a call.
LEMMA CallOver ==
    ASSUME LayoutInv, NEW p \in Procs, Finish(p), Forget(p), clock' = clock, size' = size,
           outcome'[p] \in Outcomes
    PROVE  CallInv(p)'
<1>1. /\ FileInv /\ CallInv(p) /\ clock \in Nat /\ buffer \in Nat /\ queue \in Seq(Items)
      /\ pc \in [Procs -> Labels] /\ item \in [Procs -> Items] /\ now \in [Procs -> Nat]
      /\ DOMAIN old = Procs /\ DOMAIN size = Procs /\ DOMAIN got = Procs
      /\ DOMAIN outcome = Procs
      /\ item[p].lens \in Seq(Nat) /\ item[p].slots \in Nat /\ item[p].stamp \in Nat
      /\ Asked(item[p].lens) \in Int
  BY Own
<1>2. /\ pc'[p] = "idle" /\ item'[p] = NoItem /\ now'[p] = 0 /\ old'[p] = 0 /\ got'[p] = <<>>
  BY <1>1 DEF Finish, Forget
<1>3. NoItem.stamp = 0
  BY DEF NoItem
<1> QED
  BY <1>1, <1>2, <1>3 DEF CallInv, Judging, Storing, Holding

\* A remove returns an item of any age.
LEMMA CallReturns ==
    ASSUME LayoutInv, NEW p \in Procs, NEW status \in {"none", "kept", "SH_OK", "SH_ERR_EXIST"},
           NEW age \in Nat, Returned(p, status, age), clock' = clock, size' = size
    PROVE  CallInv(p)'
<1>1. DOMAIN outcome = Procs
  BY Own
<1>2. outcome'[p] = [status |-> status, age |-> age]
  BY <1>1 DEF Returned
<1>3. outcome'[p] \in Outcomes
  BY <1>2 DEF Outcomes
<1> QED
  BY <1>3, CallOver DEF Returned

\* What a reader needs for an item is a number.
LEMMA NeededNumber ==
    ASSUME NEW i \in Items, Stored(i)
    PROVE  Needed(i.slots, i.lens) \in Nat
<1>1. i.lens \in Seq(Nat) /\ i.slots \in Nat /\ Space(i.lens) <= i.slots
  BY DEF Items, Stored
<1>2. /\ RoomFor(i.lens) \in Nat /\ Len(i.lens) \in Nat
      /\ Len(i.lens) = 1 => Slots(i.lens[1]) \in Nat /\ Space(i.lens) = DATA_HDR + Slots(i.lens[1])
      /\ Len(i.lens) # 1 => Space(i.lens) = DATA_HDR + RoomFor(i.lens)
  BY <1>1, SpaceNumber
<1>3. DATA_HDR <= i.slots
  BY <1>1, <1>2 DEF DATA_HDR
<1> QED
  BY <1>1, <1>2, <1>3, SMTT(30) DEF Needed, Copied, SLOT, VEC, DATA_HDR

\* An add keeps what holds of the file and of itself.
LEMMA AddKept ==
    ASSUME LayoutInv, NEW p \in Procs,
           Add(p)
    PROVE  FileInv' /\ CallInv(p)' /\ buffer <= buffer'
<1>1. /\ FileInv /\ CallInv(p) /\ clock \in Nat /\ buffer \in Nat /\ queue \in Seq(Items)
      /\ pc \in [Procs -> Labels] /\ item \in [Procs -> Items] /\ now \in [Procs -> Nat]
      /\ DOMAIN old = Procs /\ DOMAIN size = Procs /\ DOMAIN got = Procs
      /\ DOMAIN outcome = Procs
      /\ item[p].lens \in Seq(Nat) /\ item[p].slots \in Nat /\ item[p].stamp \in Nat
      /\ Asked(item[p].lens) \in Int
  BY Own
<1>2. ASSUME AddRefused(p)  PROVE FileInv' /\ CallInv(p)' /\ buffer <= buffer'
  <2>1. FileInv' /\ buffer <= buffer'
    BY <1>1, <1>2 DEF FileInv, AddRefused, Calling, At, Finish, fileVars, settings, locals
  <2>2. CallInv(p)'
    BY <1>1, <1>2 DEF CallInv, FileInv, Storing, Holding, Judging, AddRefused, Calling, At,
       Finish, fileVars, settings, locals
  <2> QED
    BY <2>1, <2>2
<1>3. ASSUME AddClock(p)  PROVE FileInv' /\ CallInv(p)' /\ buffer <= buffer'
  <2>1. FileInv' /\ buffer <= buffer'
    BY <1>1, <1>3 DEF FileInv, AddClock, Calling, At, Goto, fileVars, settings
  <2>2. CallInv(p)'
    <3>1. /\ pc[p] = "idle" /\ todo[p] # <<>> /\ Head(todo[p]).op = "add"
          /\ pc' = [pc EXCEPT ![p] = "bufferRead"]
          /\ item' = [item EXCEPT ![p] =
                         [lens |-> Head(todo[p]).lens, stamp |-> clock, slots |-> 0]]
          /\ UNCHANGED <<clock, buffer, now, old, size, got, outcome>>
      BY <1>3 DEF AddClock, Calling, At, Goto, fileVars
    <3>2. Head(todo[p]) \in CallSet
      BY <3>1, Pending DEF LayoutInv, JudgeInv
    <3>3. Head(todo[p]).lens # <<>>
      BY <3>1, <3>2 DEF CallSet
    <3>4. /\ pc'[p] = "bufferRead" /\ item'[p].stamp = clock /\ item'[p].lens # <<>>
      BY <1>1, <3>1, <3>3
    <3> QED
      BY <1>1, <3>1, <3>4 DEF CallInv, Storing, Holding, Judging
  <2> QED
    BY <2>1, <2>2
<1>4. ASSUME BufferRead(p)  PROVE FileInv' /\ CallInv(p)' /\ buffer <= buffer'
  <2>1. FileInv' /\ buffer <= buffer'
    BY <1>1, <1>4 DEF FileInv, BufferRead, At, Goto, fileVars, settings
  <2>2. CallInv(p)'
    BY <1>1, <1>4, SMTT(30)
       DEF CallInv, FileInv, Storing, Holding, Judging, BufferRead, At, Goto, fileVars, settings
  <2> QED
    BY <2>1, <2>2
<1>5. ASSUME BufferCas(p)  PROVE FileInv' /\ CallInv(p)' /\ buffer <= buffer'
  <2>1. FileInv' /\ buffer <= buffer'
    <3>1. Asked(item[p].lens) > old[p] /\ old[p] \in Nat
      BY <1>1, <1>5 DEF LayoutInv, Inv, Ahead, CallInv, BufferCas, At
    <3>2. \A n \in 1..Len(queue) : Asked(queue[n].lens) \in Int
      <4>1. \A i \in Items : i.lens \in Seq(Nat)
        BY DEF Items
      <4>2. \A i \in Items : Asked(i.lens) \in Int
        BY <4>1, SpaceNumber
      <4>3. \A n \in 1..Len(queue) : queue[n] \in Items
        BY <1>1
      <4> QED
        BY <4>2, <4>3
    <3>3. /\ buffer' \in Nat /\ buffer <= buffer'
          /\ UNCHANGED <<clock, end, count, empty, lastAdd, queue, discard, size, got>>
      BY <1>1, <1>5, <3>1 DEF BufferCas, settings, locals
    <3> QED
      BY <1>1, <3>2, <3>3 DEF FileInv
  <2>2. CallInv(p)'
    BY <1>1, <1>5, SMTT(30)
       DEF CallInv, FileInv, Storing, Holding, Judging, BufferCas, At, Goto, settings, locals
  <2> QED
    BY <2>1, <2>2
<1>6. ASSUME Alloc(p)  PROVE FileInv' /\ CallInv(p)' /\ buffer <= buffer'
  <2>1. FileInv' /\ buffer <= buffer'
    BY <1>1, <1>6 DEF FileInv, Alloc, At, Goto, Finish, Forget, fileVars, settings
  <2>2. CallInv(p)'
    <3>1. PICK slots \in BlockSizes :
             /\ slots >= Space(item[p].lens)
             /\ IF BadEntry(item[p].lens)
                  THEN Finish(p) /\ Forget(p)
                  ELSE /\ Goto(p, "link")
                       /\ item' = [item EXCEPT ![p].slots = slots]
                       /\ UNCHANGED <<now, old, by, got>>
      BY <1>6 DEF Alloc
    <3>2. pc[p] = "alloc" /\ UNCHANGED <<clock, buffer, size, outcome>> /\ outcome[p] \in Outcomes
      BY <1>1, <1>6 DEF Alloc, At, fileVars, CallInv
    <3>3. CASE BadEntry(item[p].lens)
      BY <3>1, <3>2, <3>3, CallOver
    <3>4. CASE ~BadEntry(item[p].lens)
      <4>1. /\ pc'[p] = "link" /\ UNCHANGED <<now, old, got>>
            /\ item'[p] = [item[p] EXCEPT !.slots = slots]
        BY <1>1, <3>1, <3>4 DEF Goto
      <4>2. /\ item'[p].lens = item[p].lens /\ item'[p].stamp = item[p].stamp
            /\ item'[p].slots = slots
        BY <1>1, <4>1 DEF Items
      <4>3. item[p].lens # <<>> /\ Asked(item[p].lens) <= buffer
        BY <1>1, <3>2 DEF CallInv, Storing
      <4>4. Stored(item'[p])
        BY <3>1, <3>4, <4>2, <4>3, SpaceNumber, <1>1, ItemsAssumption DEF Stored
      <4>5. got[p] = <<>>
        BY <1>1, <3>2 DEF CallInv
      <4> QED
        BY <1>1, <3>2, <4>1, <4>2, <4>3, <4>4, <4>5 DEF CallInv, Storing, Holding, Judging
    <3> QED
      BY <3>3, <3>4
  <2> QED
    BY <2>1, <2>2
<1>7. ASSUME NoMemory(p)  PROVE FileInv' /\ CallInv(p)' /\ buffer <= buffer'
  <2>1. FileInv' /\ buffer <= buffer'
    BY <1>1, <1>7 DEF FileInv, NoMemory, At, Finish, Forget, fileVars, settings
  <2>2. CallInv(p)'
    BY <1>1, <1>7, CallOver DEF CallInv, NoMemory, settings, fileVars
  <2> QED
    BY <2>1, <2>2
<1>8. ASSUME Link(p)  PROVE FileInv' /\ CallInv(p)' /\ buffer <= buffer'
  <2>1. FileInv' /\ buffer <= buffer'
    <3>1. /\ Stored(item[p]) /\ Asked(item[p].lens) <= buffer /\ item[p].stamp \in 0..clock
      BY <1>1, <1>8 DEF CallInv, Holding, Link, At
    <3>2. /\ queue' = Append(queue, item[p])
          /\ UNCHANGED <<clock, end, buffer, count, empty, lastAdd, discard, size, got>>
      BY <1>8 DEF Link, settings, locals
    <3>3. \A n \in 1..Len(queue') :
             queue'[n] = item[p] \/ \E m \in 1..Len(queue) : queue'[n] = queue[m]
      BY <1>1, <3>2
    <3>4. \A n \in 1..Len(queue') : /\ queue'[n].stamp \in 0..clock /\ Stored(queue'[n])
                                    /\ Asked(queue'[n].lens) <= buffer
      BY <1>1, <3>1, <3>3 DEF FileInv
    <3> QED
      BY <1>1, <3>2, <3>4 DEF FileInv
  <2>2. CallInv(p)'
    BY <1>1, <1>8 DEF CallInv, FileInv, Storing, Holding, Judging, Link, At, Goto, settings, locals
  <2> QED
    BY <2>1, <2>2
<1>9. ASSUME Count(p)  PROVE FileInv' /\ CallInv(p)' /\ buffer <= buffer'
  <2>1. FileInv' /\ buffer <= buffer'
    BY <1>1, <1>9 DEF FileInv, Count, At, Goto, settings, locals
  <2>2. CallInv(p)'
    BY <1>1, <1>9 DEF CallInv, FileInv, Storing, Holding, Judging, Count, At, Goto, settings, locals
  <2> QED
    BY <2>1, <2>2
<1>10. ASSUME StampClock(p)  PROVE FileInv' /\ CallInv(p)' /\ buffer <= buffer'
  <2>1. FileInv' /\ buffer <= buffer'
    BY <1>1, <1>10 DEF FileInv, StampClock, At, Goto, fileVars, settings
  <2>2. CallInv(p)'
    BY <1>1, <1>10
       DEF CallInv, FileInv, Storing, Holding, Judging, StampClock, At, Goto, fileVars, settings
  <2> QED
    BY <2>1, <2>2
<1>11. ASSUME StampRead(p)  PROVE FileInv' /\ CallInv(p)' /\ buffer <= buffer'
  <2>1. FileInv' /\ buffer <= buffer'
    BY <1>1, <1>11 DEF FileInv, StampRead, At, Goto, fileVars, settings
  <2>2. CallInv(p)'
    BY <1>1, <1>11
       DEF CallInv, FileInv, Storing, Holding, Judging, StampRead, At, Goto, fileVars, settings
  <2> QED
    BY <2>1, <2>2
<1>12. ASSUME StampCas(p)  PROVE FileInv' /\ CallInv(p)' /\ buffer <= buffer'
  <2>1. FileInv' /\ buffer <= buffer'
    BY <1>1, <1>12 DEF FileInv, CallInv, StampCas, At, Goto, settings, locals
  <2>2. CallInv(p)'
    BY <1>1, <1>12
       DEF CallInv, FileInv, Storing, Holding, Judging, StampCas, At, Goto, settings, locals
  <2> QED
    BY <2>1, <2>2
<1>13. ASSUME LastRead(p)  PROVE FileInv' /\ CallInv(p)' /\ buffer <= buffer'
  <2>1. FileInv' /\ buffer <= buffer'
    BY <1>1, <1>13 DEF FileInv, LastRead, At, Goto, fileVars, settings
  <2>2. CallInv(p)'
    BY <1>1, <1>13
       DEF CallInv, FileInv, Storing, Holding, Judging, LastRead, At, Goto, fileVars, settings
  <2> QED
    BY <2>1, <2>2
<1>14. ASSUME LastCas(p)  PROVE FileInv' /\ CallInv(p)' /\ buffer <= buffer'
  <2>1. FileInv' /\ buffer <= buffer'
    <3>1. Forget(p) /\ DOMAIN got' = Procs
      BY <1>1, <1>14 DEF LastCas, Forget
    <3> QED
      BY <1>1, <1>14, <3>1 DEF FileInv, CallInv, LastCas, At, settings
  <2>2. CallInv(p)'
    BY <1>1, <1>14, CallOver DEF CallInv, LastCas, settings, fileVars
  <2> QED
    BY <2>1, <2>2
<1> QED
  BY <1>2, <1>3, <1>4, <1>5, <1>6, <1>7, <1>8, <1>9, <1>10, <1>11, <1>12, <1>13, <1>14 DEF Add

\* So does a remove before it comes to the flag,
LEMMA TakeKept ==
    ASSUME LayoutInv, NEW p \in Procs,
           Empty(p) \/ Take(p) \/ Copy(p) \/ CopyFails(p)
              \/ MapFails(p) \/ Uncount(p) \/ ClearRead(p) \/ ClearCas(p)
    PROVE  FileInv' /\ CallInv(p)' /\ buffer <= buffer'
<1>1. /\ FileInv /\ CallInv(p) /\ clock \in Nat /\ buffer \in Nat /\ queue \in Seq(Items)
      /\ pc \in [Procs -> Labels] /\ item \in [Procs -> Items] /\ now \in [Procs -> Nat]
      /\ DOMAIN old = Procs /\ DOMAIN size = Procs /\ DOMAIN got = Procs
      /\ DOMAIN outcome = Procs
      /\ item[p].lens \in Seq(Nat) /\ item[p].slots \in Nat /\ item[p].stamp \in Nat
      /\ Asked(item[p].lens) \in Int
  BY Own
<1>2. ASSUME Empty(p)  PROVE FileInv' /\ CallInv(p)' /\ buffer <= buffer'
  <2>1. FileInv' /\ buffer <= buffer'
    BY <1>1, <1>2 DEF FileInv, Empty, Calling, At, Finish, fileVars, settings, locals
  <2>2. CallInv(p)'
    BY <1>1, <1>2 DEF CallInv, FileInv, Storing, Holding, Judging, Empty, Calling, At, Finish,
       fileVars, settings, locals
  <2> QED
    BY <2>1, <2>2
<1>3. ASSUME Take(p)  PROVE FileInv' /\ CallInv(p)' /\ buffer <= buffer'
  <2>1. FileInv' /\ buffer <= buffer'
    BY <1>1, <1>3 DEF FileInv, Take, Calling, At, Goto, settings
  <2>2. CallInv(p)'
    BY <1>1, <1>3 DEF CallInv, FileInv, Storing, Holding, Judging, Take, Calling, At, Goto, settings
  <2> QED
    BY <2>1, <2>2
<1>4. ASSUME Copy(p)  PROVE FileInv' /\ CallInv(p)' /\ buffer <= buffer'
  <2>1. FileInv' /\ buffer <= buffer'
    BY <1>1, <1>4 DEF FileInv, Copy, At, Goto, fileVars, settings
  <2>2. CallInv(p)'
    <3> DEFINE needed == Needed(item[p].slots, item[p].lens)
    <3>1. /\ pc[p] = "copy" /\ pc'[p] = "uncount"
          /\ size' = [size EXCEPT ![p] = IF @ < needed THEN needed ELSE @]
          /\ got'[p] = Entries(item[p].lens)
          /\ UNCHANGED <<clock, buffer, item, now, old, outcome>>
      BY <1>1, <1>4 DEF Copy, At, Goto, fileVars
    <3>2. Stored(item[p]) /\ size[p] \in Nat
      BY <1>1, <3>1 DEF CallInv, Holding
    <3>3. needed \in Nat
      BY <1>1, <3>2, NeededNumber
    <3>4. size'[p] \in Nat /\ size'[p] >= needed
      <4> HIDE DEF needed
      <4> QED
        BY <1>1, <3>1, <3>2, <3>3
    <3> QED
      BY <1>1, <3>1, <3>2, <3>4 DEF CallInv, Storing, Holding, Judging
  <2> QED
    BY <2>1, <2>2
<1>5. ASSUME CopyFails(p)  PROVE FileInv' /\ CallInv(p)' /\ buffer <= buffer'
  <2>1. FileInv' /\ buffer <= buffer'
    BY <1>1, <1>5 DEF FileInv, CopyFails, At, Goto, fileVars, settings
  <2>2. CallInv(p)'
    BY <1>1, <1>5
       DEF CallInv, FileInv, Storing, Holding, Judging, CopyFails, At, Goto, fileVars, settings
  <2> QED
    BY <2>1, <2>2
<1>6. ASSUME MapFails(p)  PROVE FileInv' /\ CallInv(p)' /\ buffer <= buffer'
  <2>1. FileInv' /\ buffer <= buffer'
    BY <1>1, <1>6 DEF FileInv, MapFails, At, Finish, Forget, fileVars, settings
  <2>2. CallInv(p)'
    BY <1>1, <1>6, CallOver DEF CallInv, MapFails, settings, fileVars
  <2> QED
    BY <2>1, <2>2
<1>7. ASSUME Uncount(p)  PROVE FileInv' /\ CallInv(p)' /\ buffer <= buffer'
  <2>1. FileInv' /\ buffer <= buffer'
    BY <1>1, <1>7 DEF FileInv, Uncount, At, Goto, settings
  <2>2. CallInv(p)'
    BY <1>1, <1>7 DEF CallInv, FileInv, Storing, Holding, Judging, Uncount, At, Goto, settings
  <2> QED
    BY <2>1, <2>2
<1>8. ASSUME ClearRead(p)  PROVE FileInv' /\ CallInv(p)' /\ buffer <= buffer'
  <2>1. FileInv' /\ buffer <= buffer'
    BY <1>1, <1>8 DEF FileInv, ClearRead, At, Goto, fileVars, settings
  <2>2. CallInv(p)'
    BY <1>1, <1>8
       DEF CallInv, FileInv, Storing, Holding, Judging, ClearRead, At, Goto, fileVars, settings
  <2> QED
    BY <2>1, <2>2
<1>9. ASSUME ClearCas(p)  PROVE FileInv' /\ CallInv(p)' /\ buffer <= buffer'
  <2>1. FileInv' /\ buffer <= buffer'
    BY <1>1, <1>9 DEF FileInv, ClearCas, At, Goto, settings, locals
  <2>2. CallInv(p)'
    BY <1>1, <1>9
       DEF CallInv, FileInv, Storing, Holding, Judging, ClearCas, At, Goto, settings, locals
  <2> QED
    BY <2>1, <2>2
<1> QED
  BY <1>2, <1>3, <1>4, <1>5, <1>6, <1>7, <1>8, <1>9

\* and after it,
LEMMA DecideKept ==
    ASSUME LayoutInv, NEW p \in Procs,
           Flag(p) \/ Judge(p) \/ Interval(p) \/ Zero(p) \/ Compare(p) \/ Overdue(p)
    PROVE  FileInv' /\ CallInv(p)' /\ buffer <= buffer'
<1>1. /\ FileInv /\ CallInv(p) /\ clock \in Nat /\ buffer \in Nat /\ queue \in Seq(Items)
      /\ pc \in [Procs -> Labels] /\ item \in [Procs -> Items] /\ now \in [Procs -> Nat]
      /\ DOMAIN old = Procs /\ DOMAIN size = Procs /\ DOMAIN got = Procs
      /\ DOMAIN outcome = Procs
      /\ item[p].lens \in Seq(Nat) /\ item[p].slots \in Nat /\ item[p].stamp \in Nat
      /\ Asked(item[p].lens) \in Int
  BY Own
<1>2. ASSUME Flag(p)  PROVE FileInv' /\ CallInv(p)' /\ buffer <= buffer'
  <2>1. FileInv' /\ buffer <= buffer'
    BY <1>1, <1>2 DEF FileInv, Flag, At, Goto, Returned, Finish, Forget, fileVars, settings
  <2>2. CallInv(p)'
    <3>1. clock' = clock /\ size' = size /\ pc[p] = "flag"
      BY <1>2 DEF Flag, At
    <3>2. CASE discard
      <4>1. /\ pc'[p] = "judge" /\ now'[p] = clock /\ outcome'[p] = Nothing
            /\ UNCHANGED <<item, old, got, buffer>>
        BY <1>1, <1>2, <3>2 DEF Flag, Goto, fileVars
      <4>2. Nothing \in Outcomes
        BY DEF Nothing, Outcomes
      <4> QED
        BY <1>1, <3>1, <4>1, <4>2 DEF CallInv, Storing, Holding, Judging
    <3>3. CASE ~discard
      BY <1>2, <3>1, <3>3, CallReturns DEF Flag
    <3> QED
      BY <3>2, <3>3
  <2> QED
    BY <2>1, <2>2
<1>3. ASSUME Judge(p)  PROVE FileInv' /\ CallInv(p)' /\ buffer <= buffer'
  <2>1. FileInv' /\ buffer <= buffer'
    BY <1>1, <1>3 DEF FileInv, Judge, At, Goto, fileVars, settings
  <2>2. CallInv(p)'
    <3>1. /\ pc[p] = "judge" /\ UNCHANGED <<clock, buffer, item, now, size, got, outcome>>
          /\ \/ pc'[p] = "interval" /\ old'[p] = empty
             \/ pc'[p] = "zero" /\ old' = old
      BY <1>1, <1>3 DEF Judge, At, Goto, fileVars
    <3>2. old'[p] \in Nat
      BY <1>1, <3>1 DEF CallInv, FileInv
    <3> QED
      BY <1>1, <3>1, <3>2 DEF CallInv, Storing, Holding, Judging
  <2> QED
    BY <2>1, <2>2
<1>4. ASSUME Interval(p)  PROVE FileInv' /\ CallInv(p)' /\ buffer <= buffer'
  <2>1. FileInv' /\ buffer <= buffer'
    BY <1>1, <1>4 DEF FileInv, Interval, At, Goto, fileVars, settings
  <2>2. CallInv(p)'
    BY <1>1, <1>4
       DEF CallInv, FileInv, Storing, Holding, Judging, Interval, At, Goto, fileVars, settings
  <2> QED
    BY <2>1, <2>2
<1>5. ASSUME Zero(p)  PROVE FileInv' /\ CallInv(p)' /\ buffer <= buffer'
  <2>1. FileInv' /\ buffer <= buffer'
    BY <1>1, <1>5 DEF FileInv, Zero, At, Goto, Returned, Finish, Forget, fileVars, settings
  <2>2. CallInv(p)'
    <3>1. /\ pc[p] = "zero" /\ UNCHANGED <<clock, size, buffer>>
          /\ \/ Returned(p, "SH_OK", Age(p))
             \/ Goto(p, "compare") /\ UNCHANGED <<item, now, old, got, outcome>>
      BY <1>5 DEF Zero, At, fileVars
    <3>2. Age(p) \in Nat
      BY <1>1, <3>1 DEF CallInv, Judging, Age
    <3>3. CASE Returned(p, "SH_OK", Age(p))
      BY <3>1, <3>2, <3>3, CallReturns
    <3>4. CASE Goto(p, "compare") /\ UNCHANGED <<item, now, old, got, outcome>>
      BY <1>1, <3>1, <3>4 DEF CallInv, Storing, Holding, Judging, Goto
    <3> QED
      BY <3>1, <3>3, <3>4
  <2> QED
    BY <2>1, <2>2
<1>6. ASSUME Compare(p)  PROVE FileInv' /\ CallInv(p)' /\ buffer <= buffer'
  <2>1. FileInv' /\ buffer <= buffer'
    BY <1>1, <1>6 DEF FileInv, Compare, At, Goto, Returned, Finish, Forget, fileVars, settings
  <2>2. CallInv(p)'
    <3>1. /\ pc[p] = "compare" /\ UNCHANGED <<clock, size, buffer>>
          /\ \/ Returned(p, "SH_OK", Age(p))
             \/ Goto(p, "overdue") /\ UNCHANGED <<item, now, old, got, outcome>>
      BY <1>6 DEF Compare, At, fileVars
    <3>2. Age(p) \in Nat
      BY <1>1, <3>1 DEF CallInv, Judging, Age
    <3>3. CASE Returned(p, "SH_OK", Age(p))
      BY <3>1, <3>2, <3>3, CallReturns
    <3>4. CASE Goto(p, "overdue") /\ UNCHANGED <<item, now, old, got, outcome>>
      BY <1>1, <3>1, <3>4 DEF CallInv, Storing, Holding, Judging, Goto
    <3> QED
      BY <3>1, <3>3, <3>4
  <2> QED
    BY <2>1, <2>2
<1>7. ASSUME Overdue(p)  PROVE FileInv' /\ CallInv(p)' /\ buffer <= buffer'
  <2>1. FileInv' /\ buffer <= buffer'
    BY <1>1, <1>7 DEF FileInv, Overdue, At, Returned, Finish, Forget, fileVars, settings
  <2>2. CallInv(p)'
    <3>1. /\ pc[p] = "overdue" /\ UNCHANGED <<clock, size>>
          /\ Returned(p, "SH_ERR_EXIST", Age(p)) \/ Returned(p, "kept", 0)
      BY <1>7 DEF Overdue, At
    <3>2. Age(p) \in Nat
      BY <1>1, <3>1 DEF CallInv, Judging, Age
    <3> QED
      BY <3>1, <3>2, CallReturns
  <2> QED
    BY <2>1, <2>2
<1> QED
  BY <1>2, <1>3, <1>4, <1>5, <1>6, <1>7

\* and a change of the settings.
LEMMA SettingKept ==
    ASSUME LayoutInv, NEW p \in Procs,
           TimeLimit(p) \/ TargetDelay(p) \/ Discard(p)
    PROVE  FileInv' /\ CallInv(p)' /\ buffer <= buffer'
<1>1. /\ FileInv /\ CallInv(p) /\ clock \in Nat /\ buffer \in Nat /\ queue \in Seq(Items)
      /\ pc \in [Procs -> Labels] /\ item \in [Procs -> Items] /\ now \in [Procs -> Nat]
      /\ DOMAIN old = Procs /\ DOMAIN size = Procs /\ DOMAIN got = Procs
      /\ DOMAIN outcome = Procs
      /\ item[p].lens \in Seq(Nat) /\ item[p].slots \in Nat /\ item[p].stamp \in Nat
      /\ Asked(item[p].lens) \in Int
  BY Own
<1>2. ASSUME TimeLimit(p)  PROVE FileInv' /\ CallInv(p)' /\ buffer <= buffer'
  <2>1. FileInv' /\ buffer <= buffer'
    BY <1>1, <1>2 DEF FileInv, TimeLimit, Calling, At, Finish, fileVars
  <2>2. CallInv(p)'
    BY <1>1, <1>2
       DEF CallInv, FileInv, Storing, Holding, Judging, TimeLimit, Calling, At, Finish, fileVars
  <2> QED
    BY <2>1, <2>2
<1>3. ASSUME TargetDelay(p)  PROVE FileInv' /\ CallInv(p)' /\ buffer <= buffer'
  <2>1. FileInv' /\ buffer <= buffer'
    BY <1>1, <1>3 DEF FileInv, TargetDelay, Calling, At, fileVars
  <2>2. CallInv(p)'
    BY <1>1, <1>3
       DEF CallInv, FileInv, Storing, Holding, Judging, TargetDelay, Calling, At, fileVars
  <2> QED
    BY <2>1, <2>2
<1>4. ASSUME Discard(p)  PROVE FileInv' /\ CallInv(p)' /\ buffer <= buffer'
  <2>1. FileInv' /\ buffer <= buffer'
    BY <1>1, <1>4 DEF FileInv, Discard, Calling, At, Finish, fileVars, locals
  <2>2. CallInv(p)'
    BY <1>1, <1>4 DEF CallInv, FileInv, Storing, Holding, Judging, Discard, Calling, At, Finish,
       fileVars, locals
  <2> QED
    BY <2>1, <2>2
<1> QED
  BY <1>2, <1>3, <1>4

\* At first there is no item,
LEMMA InitLayout == Init => LayoutInv
<1> SUFFICES ASSUME Init PROVE LayoutInv
  OBVIOUS
<1>1. PICK s \in Scenarios : discard = s.discard /\ end = s.end
  BY DEF Init
<1>2. discard \in BOOLEAN /\ end \in Nat
  BY <1>1, ItemsAssumption
<1>3. /\ clock = 1 /\ buffer = 0 /\ count = 0 /\ empty = 0 /\ lastAdd = 0 /\ queue = <<>>
      /\ pc = [p \in Procs |-> "idle"] /\ item = [p \in Procs |-> NoItem]
      /\ now = [p \in Procs |-> 0] /\ old = [p \in Procs |-> 0] /\ size = [p \in Procs |-> 0]
      /\ got = [p \in Procs |-> <<>>] /\ outcome = [p \in Procs |-> Nothing]
  BY DEF Init
<1>4. FileInv
  BY <1>2, <1>3 DEF FileInv
<1>5. Tables
  BY <1>3 DEF Tables
<1>6. NoItem.stamp = 0 /\ Nothing \in Outcomes
  BY DEF NoItem, Nothing, Outcomes
<1>7. \A p \in Procs : CallInv(p)
  BY <1>3, <1>6 DEF CallInv, Judging, Storing, Holding
<1> QED
  BY <1>4, <1>5, <1>7, InitialInv, InitJudged DEF LayoutInv

\* and every step leaves the items where the invariant says.
LEMMA NextLayout == LayoutInv /\ [Next]_vars => LayoutInv'
<1> SUFFICES ASSUME LayoutInv, [Next]_vars PROVE LayoutInv'
  OBVIOUS
<1>1. JudgeInv' /\ Inv'
  BY InvKept, NextJudged DEF LayoutInv
<1>2. ASSUME NEW p \in Procs,
             Add(p) \/ Remove(p) \/ TimeLimit(p) \/ TargetDelay(p) \/ Discard(p)
      PROVE  Tables' /\ FileInv' /\ \A q \in Procs : CallInv(q)'
  <2>1. FileInv' /\ CallInv(p)' /\ buffer <= buffer'
    <3>1. CASE Add(p)
      BY <3>1, AddKept
    <3>2. CASE Remove(p)
      BY <3>2, TakeKept, DecideKept DEF Remove
    <3>3. CASE TimeLimit(p) \/ TargetDelay(p) \/ Discard(p)
      BY <3>3, SettingKept
    <3> QED
      BY <1>2, <3>1, <3>2, <3>3
  <2>2. Alone(p) /\ clock' = clock
    BY <1>2, AloneAll
  <2>3. Tables'
    BY <1>2, TablesKept DEF LayoutInv
  <2>4. buffer \in Int /\ buffer' \in Int
    BY <2>1 DEF LayoutInv, FileInv
  <2>5. (\A r \in Procs : CallInv(r)) /\ \A r \in Procs : Asked(item[r].lens) \in Int
    BY Shaped DEF LayoutInv
  <2>6. ASSUME NEW q \in Procs  PROVE CallInv(q)'
    <3>1. CASE q = p
      BY <2>1, <3>1
    <3>2. CASE q # p
      BY <2>1, <2>2, <2>4, <2>5, <3>2, OthersKept
    <3> QED
      BY <3>1, <3>2
  <2> QED
    BY <2>1, <2>3, <2>6
<1>3. ASSUME Tick \/ UNCHANGED vars  PROVE Tables' /\ FileInv' /\ \A q \in Procs : CallInv(q)'
  <2>1. /\ UNCHANGED <<end, buffer, count, empty, lastAdd, discard, queue, pc, item, now, old, size,
                       got, outcome>>
        /\ clock' = clock \/ clock' = clock + 1
    BY <1>3 DEF Tick, vars, fileVars, settings, locals
  <2>2. clock \in Nat /\ FileInv /\ Tables /\ \A q \in Procs : CallInv(q)
    BY Shaped DEF LayoutInv
  <2>3. FileInv'
    BY <2>1, <2>2 DEF FileInv
  <2>4. Tables'
    BY <2>1, <2>2 DEF Tables
  <2>5. \A q \in Procs : CallInv(q)'
    BY <2>1, <2>2 DEF CallInv
  <2> QED
    BY <2>3, <2>4, <2>5
<1>4. Tables' /\ FileInv' /\ \A q \in Procs : CallInv(q)'
  BY <1>2, <1>3 DEF Next
<1> QED
  BY <1>1, <1>4 DEF LayoutInv

\* A function on 1..n is a sequence.
LEMMA AsSequence ==
    ASSUME NEW S, NEW n \in Nat, NEW s \in [1..n -> S]
    PROVE  s \in Seq(S) /\ Len(s) = n
  OBVIOUS

(***************************************************************************)
(* All variables of the queue's items have their types, for any lengths,   *)
(* times and numbers of calls: BUFFER never loses its place in the         *)
(* numbers, no time stamp is ahead of the clock, and the age by which an   *)
(* item is judged is never negative.                                       *)
(***************************************************************************)
THEOREM ItemsTyped == Spec => []TypeOK
<1>1. LayoutInv => TypeOK
  <2> SUFFICES ASSUME LayoutInv PROVE TypeOK
    OBVIOUS
  <2>1. /\ Typed /\ FileInv /\ Tables
        /\ \A p \in Procs : CallInv(p)
    BY DEF LayoutInv, JudgeInv
  <2>2. now \in [Procs -> 0..clock] /\ old \in [Procs -> Nat] /\ size \in [Procs -> Nat]
    <3>1. now = [p \in Procs |-> now[p]]
      BY <2>1 DEF Typed
    <3>2. \A p \in Procs : now[p] \in 0..clock /\ old[p] \in Nat /\ size[p] \in Nat
      BY <2>1 DEF CallInv
    <3>3. old = [p \in Procs |-> old[p]] /\ size = [p \in Procs |-> size[p]]
      BY <2>1 DEF Tables
    <3> QED
      BY <3>1, <3>2, <3>3
  <2>3. outcome \in [Procs -> [status : {"none", "kept", "SH_OK", "SH_ERR_EXIST"}, age : Nat]]
    <3>1. outcome = [p \in Procs |-> outcome[p]] /\ \A p \in Procs : outcome[p] \in Outcomes
      BY <2>1 DEF Tables, CallInv
    <3>2. outcome \in [Procs -> Outcomes]
      BY <3>1
    <3> QED
      BY <3>2 DEF Outcomes
  <2>4. got \in [Procs -> Seq([base : Nat, len : Nat])]
    <3> DEFINE E == [base : Nat, len : Nat]
    <3>1. ASSUME NEW p \in Procs  PROVE got[p] \in Seq(E)
      <4>1. CASE got[p] = <<>>
        BY <4>1
      <4>2. CASE got[p] # <<>>
        <5>1. Stored(item[p]) /\ got[p] = Entries(item[p].lens) /\ item[p].lens \in Seq(Nat)
          BY <2>1, <4>2, Shaped DEF CallInv, Holding
        <5>2. Entries(item[p].lens) \in [1..Len(item[p].lens) -> E] /\ Len(item[p].lens) \in Nat
          BY <5>1, EntriesFound DEF Stored
        <5> HIDE DEF E
        <5>3. Entries(item[p].lens) \in Seq(E)
          BY <5>2, AsSequence
        <5> QED
          BY <5>1, <5>3
      <4> QED
        BY <4>1, <4>2
    <3>2. got = [p \in Procs |-> got[p]]
      BY <2>1 DEF Tables
    <3> HIDE DEF E
    <3>3. got \in [Procs -> Seq(E)]
      BY <3>1, <3>2
    <3> QED
      BY <3>3 DEF E
  <2> QED
    BY <2>1, <2>2, <2>3, <2>4 DEF TypeOK, Typed, FileInv
<1> QED
  BY <1>1, InitLayout, NextLayout, PTL DEF Spec

\* What a remove has copied out is what was added.
LEMMA ReadRight ==
    ASSUME NEW p \in Procs, item[p] \in Items, Stored(item[p]),
           got[p] = Entries(item[p].lens), size[p] >= Needed(item[p].slots, item[p].lens)
    PROVE  Read(p)
<1> DEFINE lens == item[p].lens
           slots == item[p].slots
           n == Len(lens)
           w == WrittenAt(lens)
<1>1. lens \in Seq(Nat) /\ slots \in Nat /\ lens # <<>> /\ ~BadEntry(lens) /\ Space(lens) <= slots
  BY DEF Items, Stored
<1> HIDE DEF lens, slots
<1>2. n \in Nat /\ n >= 1
  BY <1>1
<1>3. /\ Entries(lens) \in [1..n -> [base : Nat, len : Nat]]
      /\ \A i \in 1..n : /\ Entries(lens)[i].len = lens[i]
                         /\ Entries(lens)[i].base + 1 = w[i] + (IF n = 1 THEN 0 ELSE 2)
  BY <1>1, EntriesFound
<1>4. Len(Entries(lens)) = n
  BY <1>2, <1>3, AsSequence
<1>5. ASSUME NEW i \in 1..n
      PROVE  SLOT * Entries(lens)[i].base + Entries(lens)[i].len <= Copied(slots)
  <2> DEFINE b == Entries(lens)[i].base
  <2>1. /\ b \in Nat /\ Entries(lens)[i].len = lens[i] /\ lens[i] \in Nat
        /\ b + 1 = w[i] + (IF n = 1 THEN 0 ELSE 2)
    BY <1>1, <1>3
  <2>2. w[i] \in Nat /\ w[i] + WriterStride(lens[i]) <= DATA_HDR + RoomFor(lens)
    BY <1>1, WrittenInside
  <2>3. WriterStride(lens[i]) \in Nat /\ lens[i] <= SLOT * (WriterStride(lens[i]) - 2)
    BY <1>1, <2>1, EntriesHaveRoom, StepsAndRooms
  <2> HIDE DEF b
  <2>4. CASE n = 1
    <3>1. i = 1 /\ w[1] = DATA_HDR
      BY <1>1, <1>2, <2>4, WrittenInside
    <3>2. /\ Slots(lens[1]) \in Nat /\ lens[1] <= SLOT * Slots(lens[1])
          /\ Space(lens) = DATA_HDR + Slots(lens[1])
      BY <1>1, <2>4, SpaceNumber
    <3>3. b = DATA_HDR - 1
      BY <2>1, <2>4, <3>1 DEF DATA_HDR
    <3>4. SLOT * b + lens[1] <= Copied(slots)
      BY <1>1, <2>1, <3>1, <3>2, <3>3 DEF Copied, SLOT, DATA_HDR
    <3> QED
      BY <2>1, <3>1, <3>4 DEF b
  <2>5. CASE n # 1
    <3>1. Space(lens) = DATA_HDR + RoomFor(lens) /\ RoomFor(lens) \in Nat
      BY <1>1, <2>5, SpaceNumber
    <3>2. b = w[i] + 1
      BY <2>1, <2>2, <2>5
    <3>3. \A at, stride, len, room, s \in Nat :
             at + stride <= 7 + room /\ len <= 8 * (stride - 2) /\ 7 + room <= s
                => 8 * (at + 1) + len <= 8 * s - 8
      BY SMT
    <3>4. SLOT * (w[i] + 1) + lens[i] <= SLOT * slots - SLOT
      BY <1>1, <2>1, <2>2, <2>3, <3>1, <3>3, ZenonT(60) DEF SLOT, DATA_HDR
    <3>5. SLOT * b + lens[i] <= Copied(slots)
      BY <3>2, <3>4 DEF Copied
    <3> QED
      BY <2>1, <3>5 DEF b
  <2> QED
    BY <2>4, <2>5
<1>6. Entries(lens) = got[p] /\ size[p] >= Needed(slots, lens)
  BY DEF lens, slots
<1>7. /\ Len(got[p]) = n
      /\ \A i \in 1..n : /\ got[p][i].len = lens[i]
                         /\ got[p][i].base + 1 = w[i] + (IF n = 1 THEN 0 ELSE 2)
                         /\ SLOT * got[p][i].base + got[p][i].len <= Copied(slots)
  BY <1>3, <1>4, <1>5, <1>6
<1> QED
  BY <1>6, <1>7, Zenon DEF Read, lens, slots

(***************************************************************************)
(* Writer and reader agree on the layout, for vectors of any length with   *)
(* entries of any length: what is on the queue ends inside its block and   *)
(* is covered by BUFFER, and a remove finds the entries that were added.   *)
(***************************************************************************)
THEOREM ReadBack == Spec => []ItemsReadBack
<1>1. LayoutInv => ItemsReadBack
  <2> SUFFICES ASSUME LayoutInv PROVE ItemsReadBack
    OBVIOUS
  <2>1. FileInv /\ queue \in Seq(Items) /\ item \in [Procs -> Items]
    BY Shaped DEF LayoutInv
  <2>2. ASSUME NEW n \in 1..Len(queue)  PROVE Fits(queue[n])
    <3>1. queue[n] \in Items /\ Stored(queue[n]) /\ Asked(queue[n].lens) <= buffer
      BY <2>1 DEF FileInv
    <3>2. /\ queue[n].lens \in Seq(Nat) /\ queue[n].slots \in Nat
          /\ queue[n].lens # <<>> /\ Space(queue[n].lens) <= queue[n].slots
      BY <3>1 DEF Items, Stored
    <3>3. Ends(queue[n].lens) <= Space(queue[n].lens) /\ Ends(queue[n].lens) \in Int
      BY <3>2, EndsInside
    <3>4. Space(queue[n].lens) \in Nat
      BY <3>2, SpaceNumber
    <3> QED
      BY <3>1, <3>2, <3>3, <3>4 DEF Fits
  <2>3. ASSUME NEW p \in Procs, pc[p] = "uncount", got[p] # <<>>  PROVE Read(p)
    <3>1. CallInv(p) /\ item[p] \in Items
      BY <2>1 DEF LayoutInv
    <3>2. /\ Stored(item[p]) /\ got[p] = Entries(item[p].lens)
          /\ size[p] >= Needed(item[p].slots, item[p].lens)
      BY <2>3, <3>1 DEF CallInv, Holding
    <3> QED
      BY <3>1, <3>2, ReadRight
  <2> QED
    BY <2>2, <2>3 DEF ItemsReadBack
<1> QED
  BY <1>1, InitLayout, NextLayout, PTL DEF Spec

=============================================================================
