------------------------------ MODULE AbsQueue ------------------------------
(***************************************************************************)
(* What libshr promises the callers of shr_q_add and shr_q_remove: a queue *)
(* of at most MaxDepth items, first in first out, with a stack that items  *)
(* are put on while adaptive LIFO is on.  An item is put once and given to *)
(* one caller only; on neither side is it overtaken by one it should go    *)
(* before.  A queue that is never in LIFO mode has no stack: what is left  *)
(* is the first-in-first-out queue.                                        *)
(* The detailed modules are shown to implement this one.                   *)
(***************************************************************************)
EXTENDS Naturals, Sequences

CONSTANTS
    Items,      \* the items callers may add
    NoItem,     \* "no item": outside Items
    Takers,     \* the callers of shr_q_remove
    MaxDepth    \* the max_depth argument of shr_q_create

VARIABLES
    queue,      \* the items in the order they were added
    stack,      \* those added in LIFO mode, the last one first
    given       \* the item each taker was handed and has not yet returned

absVars == <<queue, stack, given>>

AbsInit ==
    /\ queue = <<>>
    /\ stack = <<>>
    /\ given = [t \in Takers |-> NoItem]

HasPlace == Len(queue) + Len(stack) < MaxDepth

\* one more item, behind those that were there
Put ==
    /\ HasPlace
    /\ Len(queue') = Len(queue) + 1
    /\ SubSeq(queue', 1, Len(queue)) = queue
    /\ queue'[Len(queue')] \in Items
    /\ UNCHANGED <<stack, given>>

\* one more item, before those that were there
PutTop ==
    /\ HasPlace
    /\ stack' # <<>>
    /\ Head(stack') \in Items
    /\ Tail(stack') = stack
    /\ UNCHANGED <<queue, given>>

Give(t, i) == given[t] = NoItem /\ given' = [given EXCEPT ![t] = i]

Get(t) ==
    /\ queue # <<>>
    /\ Give(t, Head(queue))
    /\ queue' = Tail(queue)
    /\ UNCHANGED stack

GetTop(t) ==
    /\ stack # <<>>
    /\ Give(t, Head(stack))
    /\ stack' = Tail(stack)
    /\ UNCHANGED queue

Return(t) ==
    /\ given[t] # NoItem
    /\ given' = [given EXCEPT ![t] = NoItem]
    /\ UNCHANGED <<queue, stack>>

AbsNext ==
    \/ Put \/ PutTop
    \/ \E t \in Takers : Get(t) \/ GetTop(t) \/ Return(t)

AbsSpec == AbsInit /\ [][AbsNext]_absVars
=============================================================================
