--------------------------- MODULE ShrListChains ----------------------------
(***************************************************************************)
(* The lists of ShrList are chains of nodes: the invariant of add_end,     *)
(* remove_front and the node allocator, for any number of processes,       *)
(* nodes, calls and crashes.  A chain is a sequence of nodes that explains *)
(* what the memory holds; ChainInv says of two such sequences, one for the *)
(* queue and one for the pool, that every node is in one place, where the  *)
(* tails are, which generations can still be met, and what each process    *)
(* knows between its reads and its CAS.  Each step keeps the invariant, of *)
(* the same chains, of a chain with one node more or of one with its first *)
(* node gone; a step that links a node does so unless FreshAgain.          *)
(***************************************************************************)
EXTENDS ShrListProofs, WellFoundedInduction

-----------------------------------------------------------------------------
(* The invariant of the lists.                                             *)

\* a process at one of these labels has a number for its node
Numbered == {"endStore", "endLo", "endHi", "endTest", "endLink", "helpLo", "helpHi", "helpSwing"}

\* a process at one of these has read both halves of the tail
Informed == {"endTest", "endLink", "endSwing", "helpLo", "helpHi", "helpSwing"}

\* at one of these it helps a tail that is behind
Helping == {"helpLo", "helpHi", "helpSwing"}

\* n is a node of chain s
OnChain(s, n) == \E i \in 1..Len(s) : s[i] = n

\* s is list l, node by node: it starts at the head, no node comes twice, each refers
\* to the next one and the last one to itself
Linking(s, l) ==
    /\ s \in Seq(Nodes)
    /\ Len(s) >= 1
    /\ s[1] = head[l].lo
    /\ \A i, j \in 1..Len(s) : s[i] = s[j] => i = j
    /\ \A i \in 1..(Len(s) - 1) : word[s[i]].lo = s[i + 1]
    /\ word[Last(s)].lo = Last(s)

\* every node ever allocated is in one place
Separate(c) ==
    /\ \A n \in Nodes : ~OnChain(c["queue"], n) \/ ~OnChain(c["free"], n)
    /\ \A l \in Lists, n \in Nodes : OnChain(c[l], n) => n < dataAlloc
    /\ \A p \in Procs : HoldsNode(p) => loc[p].slot < dataAlloc
    /\ \A p \in Procs, l \in Lists : HoldsNode(p) => ~OnChain(c[l], loc[p].slot)
    /\ \A p, q \in Procs : HoldsNode(p) /\ HoldsNode(q) /\ loc[p].slot = loc[q].slot => p = q
    /\ \A n \in Nodes : n < dataAlloc =>
          \/ \E l \in Lists : OnChain(c[l], n)
          \/ \E p \in Procs : HoldsNode(p) /\ loc[p].slot = n
    /\ \A n \in Nodes : n >= dataAlloc => word[n] = Zero

\* what a process has stored in the node it holds
Filled(p) ==
    LET s == loc[p].slot
    IN /\ pc[p] = "frontZero" => word[s].lo # s
       /\ pc[p] \in {"poolClear", "store", "endGen"} => word[s] = Zero
       /\ pc[p] = "endStore" => word[s] = W(s, 0)
       /\ pc[p] \in Numbered \ {"endStore"} => word[s] = W(s, loc[p].gen)

\* numbers are positive, come out of idCntr and are given once
Numbers ==
    /\ idCntr >= 1
    /\ \A p \in Procs : pc[p] \in Numbered => loc[p].gen >= 1 /\ loc[p].gen < idCntr
    /\ \A p, q \in Procs :
          pc[p] \in Numbered /\ pc[q] \in Numbered /\ loc[p].gen = loc[q].gen => p = q

\* g has been the generation of a last node of list l: no process holds it, and the only
\* node that may still refer to itself with it is the last one
Issued(c, l, g) ==
    /\ g < idCntr
    /\ g = 0 => l = "free"
    /\ \A q \in Procs : pc[q] \in Numbered => loc[q].gen # g
    /\ \A m \in Nodes : g > 0 /\ word[m] = W(m, g) => m = Last(c[l])

\* while the tail is behind, g is not the generation of the last node
Passed(c, l, g) == tail[l].lo # Last(c[l]) => word[Last(c[l])].hi # g

\* a generation that a process may have read in the tail of list l
Known(c, l, g) == Issued(c, l, g) /\ Passed(c, l, g)

\* the generations of the last nodes and of the tails, and those that processes have read in
\* a tail, are such
Generations(c) ==
    /\ \A l \in Lists, g \in Nat :
          /\ word[Last(c[l])].hi = g => Issued(c, l, g)
          /\ tail[l].hi = g => Known(c, l, g)
    /\ \A p \in Procs, l \in Lists, g \in Nat :
          pc[p] \in Informed /\ loc[p].list = l /\ loc[p].before.hi = g => Known(c, l, g)

\* the last node is linked and the process that linked it has yet to swing the tail
Lags(c, l) ==
    /\ Len(c[l]) >= 2 /\ tail[l].lo = c[l][Len(c[l]) - 1]
    /\ word[tail[l].lo] = word[Last(c[l])]
    /\ \E q \in Procs : pc[q] = "endSwing" /\ loc[q].list = l /\ loc[q].before = tail[l]

\* the tail is the last node, with its generation, or one behind
Tails(c) == \A l \in Lists : tail[l] = word[Last(c[l])] \/ Lags(c, l)

\* what a process knows of the node after the tail, if the tail is still the one it read
Swings(p) ==
    /\ pc[p] \in Informed \cup {"endHi"} => loc[p].before.lo \in Nodes
    /\ tail[loc[p].list] = loc[p].before =>
          LET w == word[loc[p].before.lo]
          IN /\ pc[p] = "endSwing" => w = Linked(p)
             /\ pc[p] \in Helping \cup {"endSwing"} => w.lo # loc[p].before.lo
             /\ pc[p] \in {"helpHi", "helpSwing"} => loc[p].after.lo = w.lo
             /\ pc[p] = "helpSwing" => loc[p].after = w

\* a process at one of these labels has read the generation of a head
Heading == {"poolHead", "poolTest", "frontTest", "frontNext", "frontCas",
            "fifoHead", "fifoTest", "fifoNext", "fifoData"}

\* what a process knows of the list's front, if the head is still the one it read
Fronts(p) ==
    LET l == loc[p].list
        r == loc[p].ref
    IN /\ pc[p] # "abort"
       /\ pc[p] \in {"poolHead", "poolTest"} => l = "free"
       /\ pc[p] \in FifoLabels \ {"deqHead"} => l = "queue" /\ r \in Nodes
       /\ pc[p] \in Heading => loc[p].refGen <= head[l].hi
       /\ head[l] = W(r, loc[p].refGen) =>
             /\ pc[p] \in {"fifoNext", "fifoData", "frontNext", "frontCas"} => tail[l].lo # r
             /\ pc[p] \in {"fifoData", "frontCas"} => loc[p].next = word[r].lo
             /\ pc[p] \in FrontLabels /\ l = "queue" =>
                   tail[l].lo # r /\ loc[p].data = val[word[r].lo]

\* the order of the numbers, as a relation
Less == {ss \in Nat \X Nat : ss[1] < ss[2]}

-----------------------------------------------------------------------------
(* What a chain is, and that Chain finds it.                               *)

\* The numbers are well founded by <.
LEMMA LessWellFounded == IsWellFoundedOn(Less, Nat)
  BY NatLessThanWellFounded, Zenon DEF OpToRel, Less

\* A set of numbers that is not empty has a least one.
LEMMA LeastNumber ==
  ASSUME NEW T, T \subseteq Nat, T # {}
  PROVE  \E m \in T : \A k \in T : m <= k
<1>1. PICK m \in T : \A y \in T : ~ (<<y, m>> \in Less)
  BY LessWellFounded, WFMin
<1>2. \A k \in T : ~(k < m)
  BY <1>1 DEF Less
<1> QED BY <1>1, <1>2

\* The walk along the references (Walk, which the properties are stated with) does what its
\* definition says: there is a function that satisfies it.
LEMMA WalkUnrolls ==
  ASSUME NEW l \in Lists, NEW s, Linking(s, l), TypeOK, Len(s) <= MaxNodes
  PROVE  Walk(l) = [k \in 1..MaxNodes |-> IF k = 1 THEN head[l].lo ELSE Follow[Walk(l)[k - 1]]]
<1> DEFINE g == [k \in 1..MaxNodes |-> IF k <= Len(s) THEN s[k] ELSE Last(s)]
<1>a. MaxNodes \in Nat /\ Len(s) \in Nat
  BY SizesAssumption DEF Linking
<1>b. \A i \in 1..Len(s) : s[i] \in Nodes
  BY DEF Linking
<1>c. \A i \in 1..Len(s) : Follow[s[i]] = IF i < Len(s) THEN s[i + 1] ELSE Last(s)
  <2>1. \A n \in Nodes : Follow[n] = word[n].lo
    BY SizesAssumption DEF Follow, Nodes, Null
  <2> QED BY <2>1, <1>b, <1>a DEF Linking, Last
<1>1. g = [k \in 1..MaxNodes |-> IF k = 1 THEN head[l].lo ELSE Follow[g[k - 1]]]
  <2> SUFFICES ASSUME NEW k \in 1..MaxNodes
      PROVE  g[k] = IF k = 1 THEN head[l].lo ELSE Follow[g[k - 1]]
    OBVIOUS
  <2>1. CASE k = 1
    BY <2>1, <1>a DEF Linking
  <2>2. CASE k # 1
    <3>0. k - 1 \in 1..MaxNodes
      BY <2>2, <1>a
    <3>1. CASE k <= Len(s)
      <4>1. g[k] = s[k] /\ g[k - 1] = s[k - 1] /\ k - 1 \in 1..Len(s) /\ k - 1 < Len(s)
        BY <3>0, <3>1, <1>a, <2>2
      <4> QED BY <4>1, <1>c, <2>2, <1>a
    <3>2. CASE k > Len(s)
      <4>1. g[k] = Last(s)
        BY <3>2, <1>a
      <4>2. g[k - 1] = Last(s)
        BY <3>0, <3>2, <1>a DEF Last
      <4>3. Len(s) \in 1..Len(s) /\ ~(Len(s) < Len(s)) /\ s[Len(s)] = Last(s)
        BY <1>a DEF Linking, Last
      <4>4. Follow[Last(s)] = Last(s)
        BY <4>3, <1>c
      <4> QED BY <4>1, <4>2, <4>4, <2>2
    <3> QED BY <3>1, <3>2, <1>a
  <2> QED BY <2>1, <2>2
<1> HIDE DEF g
<1> QED
  BY <1>1 DEF Walk

\* The walk meets the nodes of the chain in order and stays at the last one: the first place
\* where it did not would not be the first.
LEMMA WalkIs ==
  ASSUME NEW l \in Lists, NEW s, Linking(s, l), TypeOK, Len(s) <= MaxNodes
  PROVE  /\ DOMAIN Walk(l) = 1..MaxNodes
         /\ \A k \in 1..MaxNodes : Walk(l)[k] = IF k <= Len(s) THEN s[k] ELSE Last(s)
<1> DEFINE w == Walk(l)
           good(k) == w[k] = IF k <= Len(s) THEN s[k] ELSE Last(s)
           T == {k \in 1..MaxNodes : ~good(k)}
<1>1. w = [k \in 1..MaxNodes |-> IF k = 1 THEN head[l].lo ELSE Follow[w[k - 1]]]
  BY WalkUnrolls
<1>a. MaxNodes \in Nat /\ Len(s) \in Nat
  BY SizesAssumption DEF Linking
<1>b. \A i \in 1..Len(s) : s[i] \in Nodes
  BY DEF Linking
<1>c. \A i \in 1..Len(s) : Follow[s[i]] = IF i < Len(s) THEN s[i + 1] ELSE Last(s)
  <2>1. \A n \in Nodes : Follow[n] = word[n].lo
    BY SizesAssumption DEF Follow, Nodes, Null
  <2> QED BY <2>1, <1>b, <1>a DEF Linking, Last
<1> HIDE DEF w
<1>2. T = {}
  <2> SUFFICES ASSUME T # {} PROVE FALSE
    OBVIOUS
  <2>0. T \subseteq Nat
    BY <1>a
  <2>1. PICK m \in T : \A k \in T : m <= k
    <3> HIDE DEF T
    <3> QED BY <2>0, LeastNumber
  <2>2. m \in 1..MaxNodes /\ ~good(m)
    OBVIOUS
  <2>3. CASE m = 1
    <3>1. w[1] = s[1] /\ 1 <= Len(s)
      BY <1>1, <2>2, <2>3 DEF Linking
    <3> QED BY <3>1, <2>2, <2>3
  <2>4. CASE m # 1
    <3>1. m - 1 \in 1..MaxNodes /\ m - 1 \notin T
      BY <2>1, <2>2, <2>4, <1>a
    <3>2. good(m - 1)
      BY <3>1
    <3>3. w[m] = Follow[w[m - 1]]
      BY <1>1, <2>2, <2>4
    <3>4. CASE m <= Len(s)
      <4>1. m - 1 \in 1..Len(s) /\ m - 1 < Len(s) /\ m - 1 + 1 = m
        BY <3>1, <3>4, <2>2, <1>a
      <4>2. w[m - 1] = s[m - 1]
        BY <4>1, <3>2
      <4>3. w[m] = s[m]
        BY <4>1, <4>2, <3>3, <1>c
      <4> QED BY <4>3, <3>4, <2>2
    <3>5. CASE m > Len(s)
      <4>1. w[m - 1] = Last(s)
        BY <3>1, <3>2, <3>5, <1>a DEF Last
      <4>2. Follow[Last(s)] = Last(s)
        BY <1>a, <1>c DEF Linking, Last
      <4> QED BY <4>1, <4>2, <3>3, <3>5, <2>2
    <3> QED BY <3>4, <3>5, <2>2, <1>a
  <2> QED BY <2>3, <2>4
<1>3. \A k \in 1..MaxNodes : good(k)
  BY <1>2
<1>4. DOMAIN w = 1..MaxNodes
  BY <1>1
<1> QED BY <1>3, <1>4 DEF w

\* A sequence of different nodes is no longer than there are nodes.
LEMMA DifferentNodes ==
  ASSUME NEW s \in Seq(Nodes), \A i, j \in 1..Len(s) : s[i] = s[j] => i = j
  PROVE  Len(s) <= MaxNodes
<1>a. MaxNodes \in Nat /\ Len(s) \in Nat
  BY SizesAssumption
<1>b. s \in [1..Len(s) -> Nodes]
  OBVIOUS
<1>1. s \in Injection(1..Len(s), Nodes)
  BY <1>b DEF Injection, IsInjective
<1>2. IsFiniteSet(Nodes) /\ Cardinality(Nodes) = MaxNodes
  BY <1>a, FS_Interval, SizesAssumption DEF Nodes
<1>3. Cardinality(1..Len(s)) <= Cardinality(Nodes)
  BY <1>1, <1>2, FS_Injection
<1>4. Cardinality(1..Len(s)) = Len(s)
  <2>1. Cardinality(1..Len(s)) = IF 1 > Len(s) THEN 0 ELSE Len(s) - 1 + 1
    BY <1>a, FS_Interval, SMTT(30)
  <2> QED BY <1>a, <2>1
<1> QED BY <1>2, <1>3, <1>4

\* So Chain(l), which the properties speak of, is the chain of the invariant.
LEMMA ChainIs ==
  ASSUME NEW l \in Lists, NEW s, Linking(s, l), TypeOK
  PROVE  Chain(l) = s
<1>a. MaxNodes \in Nat /\ Len(s) \in Nat /\ Len(s) >= 1
  BY SizesAssumption DEF Linking
<1>b. s \in Seq(Nodes) /\ \A i, j \in 1..Len(s) : s[i] = s[j] => i = j
  BY DEF Linking
<1>c. Len(s) <= MaxNodes
  BY <1>b, DifferentNodes
<1> DEFINE w == Walk(l)
           R == {s[i] : i \in 1..Len(s)}
<1>1. /\ DOMAIN w = 1..MaxNodes
      /\ \A k \in 1..MaxNodes : w[k] = IF k <= Len(s) THEN s[k] ELSE Last(s)
  BY <1>c, WalkIs
<1> HIDE DEF w
<1>2. Range(w) = R
  <2>1. Last(s) = s[Len(s)] /\ Len(s) \in 1..Len(s)
    BY <1>a DEF Last
  <2>2. ASSUME NEW x \in Range(w) PROVE x \in R
    BY <1>1, <1>a, <2>1 DEF Range
  <2>3. ASSUME NEW i \in 1..Len(s) PROVE s[i] \in Range(w)
    <3>1. i \in 1..MaxNodes /\ w[i] = s[i]
      BY <1>1, <1>a, <1>c
    <3> QED BY <3>1, <1>1 DEF Range
  <2> QED BY <2>2, <2>3
<1>3. Cardinality(R) = Len(s)
  <2>1. s \in Bijection(1..Len(s), R)
    <3>1. DOMAIN s = 1..Len(s) /\ s \in [1..Len(s) -> R]
      BY <1>b
    <3> QED BY <3>1, <1>b DEF Bijection, Injection, Surjection, IsInjective
  <2>2. IsFiniteSet(1..Len(s)) /\ Cardinality(1..Len(s)) = Len(s)
    <3>1. /\ IsFiniteSet(1..Len(s))
          /\ Cardinality(1..Len(s)) = IF 1 > Len(s) THEN 0 ELSE Len(s) - 1 + 1
      BY <1>a, FS_Interval, SMTT(30)
    <3> QED BY <1>a, <3>1
  <2>3. ExistsBijection(1..Len(s), R)
    BY <2>1 DEF ExistsBijection
  <2> QED BY <2>2, <2>3, FS_Bijection
<1>4. Chain(l) = SubSeq(w, 1, Len(s))
  BY <1>2, <1>3 DEF Chain, w
<1>5. SubSeq(w, 1, Len(s)) = [i \in 1..Len(s) |-> w[i]]
  BY <1>a
<1>6. s = [i \in 1..Len(s) |-> s[i]]
  BY <1>b
<1>7. [i \in 1..Len(s) |-> w[i]] = [i \in 1..Len(s) |-> s[i]]
  BY <1>1, <1>a, <1>c
<1> QED BY <1>4, <1>5, <1>6, <1>7

\* The chains of both lists, and what every process and both tails know of them.
ChainInv(c) ==
    /\ c \in [Lists -> Seq(Nodes)]
    /\ \A l \in Lists : Linking(c[l], l)
    /\ Separate(c)
    /\ \A p \in Procs : Filled(p)
    /\ Numbers
    /\ Generations(c)
    /\ Tails(c)
    /\ \A p \in Procs : Swings(p)
    /\ \A p \in Procs : Fronts(p)

\* The nodes of the chains.
LEMMA ChainNodes ==
  ASSUME NEW c, c \in [Lists -> Seq(Nodes)], \A l \in Lists : Linking(c[l], l)
  PROVE  \A l \in Lists :
           /\ Len(c[l]) \in Nat /\ Len(c[l]) >= 1
           /\ \A i \in 1..Len(c[l]) : c[l][i] \in Nodes /\ OnChain(c[l], c[l][i])
           /\ Last(c[l]) = c[l][Len(c[l])] /\ Last(c[l]) \in Nodes /\ OnChain(c[l], Last(c[l]))
           /\ c[l][1] = head[l].lo /\ head[l].lo \in Nodes /\ OnChain(c[l], head[l].lo)
<1> SUFFICES ASSUME NEW l \in Lists
    PROVE  /\ Len(c[l]) \in Nat /\ Len(c[l]) >= 1
           /\ \A i \in 1..Len(c[l]) : c[l][i] \in Nodes /\ OnChain(c[l], c[l][i])
           /\ Last(c[l]) = c[l][Len(c[l])] /\ Last(c[l]) \in Nodes /\ OnChain(c[l], Last(c[l]))
           /\ c[l][1] = head[l].lo /\ head[l].lo \in Nodes /\ OnChain(c[l], head[l].lo)
  OBVIOUS
<1>1. c[l] \in Seq(Nodes) /\ Len(c[l]) \in Nat /\ Len(c[l]) >= 1 /\ c[l][1] = head[l].lo
  BY DEF Linking
<1>2. \A i \in 1..Len(c[l]) : c[l][i] \in Nodes /\ OnChain(c[l], c[l][i])
  BY <1>1 DEF OnChain
<1>3. 1 \in 1..Len(c[l]) /\ Len(c[l]) \in 1..Len(c[l])
  BY <1>1
<1> QED BY <1>1, <1>2, <1>3 DEF Last

\* The node after the head, or the head itself.
LEMMA HeadNext ==
  ASSUME NEW c, c \in [Lists -> Seq(Nodes)], \A l \in Lists : Linking(c[l], l), NEW l \in Lists
  PROVE  /\ word[head[l].lo].lo \in Nodes /\ OnChain(c[l], word[head[l].lo].lo)
         /\ Len(c[l]) >= 2 => word[head[l].lo].lo = c[l][2]
<1>1. /\ Len(c[l]) \in Nat /\ Len(c[l]) >= 1
      /\ \A i \in 1..Len(c[l]) : c[l][i] \in Nodes /\ OnChain(c[l], c[l][i])
      /\ c[l][1] = head[l].lo
  BY ChainNodes
<1>2. CASE Len(c[l]) <= 1
  <2>0. \A n \in Nat : n >= 1 /\ n <= 1 => n = 1
    OBVIOUS
  <2>1. Len(c[l]) = 1
    BY <1>1, <1>2, <2>0, Zenon
  <2>2. word[c[l][1]].lo = c[l][1]
    BY <2>1, Zenon DEF Linking, Last
  <2>3. c[l][1] \in Nodes /\ OnChain(c[l], c[l][1])
    BY <1>1
  <2> QED BY <1>1, <1>2, <2>2, <2>3
<1>3. CASE Len(c[l]) >= 2
  <2>1. 1 \in 1..(Len(c[l]) - 1) /\ 2 \in 1..Len(c[l]) /\ 1 + 1 = 2
    BY <1>1, <1>3
  <2>2. word[c[l][1]].lo = c[l][1 + 1]
    BY <2>1 DEF Linking
  <2> QED BY <1>1, <2>1, <2>2
<1> QED BY <1>2, <1>3

\* Where the tail is, and what it is.
LEMMA TailPlace ==
  ASSUME ListInv, NEW c, c \in [Lists -> Seq(Nodes)], \A l \in Lists : Linking(c[l], l), Tails(c),
         NEW l \in Lists
  PROVE  /\ tail[l].lo \in Nodes /\ OnChain(c[l], tail[l].lo) /\ tail[l] \in Word
         /\ \/ tail[l].lo = Last(c[l]) /\ tail[l] = word[Last(c[l])]
            \/ /\ Lags(c, l) /\ tail[l].lo # Last(c[l])
               /\ Len(c[l]) >= 2 /\ tail[l].lo = c[l][Len(c[l]) - 1]
<1>1. /\ Len(c[l]) \in Nat /\ Len(c[l]) >= 1
      /\ \A i \in 1..Len(c[l]) : c[l][i] \in Nodes /\ OnChain(c[l], c[l][i])
      /\ Last(c[l]) = c[l][Len(c[l])] /\ Last(c[l]) \in Nodes /\ OnChain(c[l], Last(c[l]))
  BY ChainNodes
<1>2. tail[l] \in Word
  BY DEF ListInv, TypeOK
<1>3. CASE tail[l] = word[Last(c[l])]
  <2>1. tail[l].lo = Last(c[l])
    BY <1>3 DEF Linking
  <2> QED BY <1>1, <1>2, <1>3, <2>1
<1>4. CASE Lags(c, l)
  <2>1. Len(c[l]) >= 2 /\ tail[l].lo = c[l][Len(c[l]) - 1]
    BY <1>4 DEF Lags
  <2>2. Len(c[l]) - 1 \in 1..Len(c[l]) /\ Len(c[l]) \in 1..Len(c[l]) /\ Len(c[l]) - 1 # Len(c[l])
    BY <1>1, <2>1
  <2>3. c[l][Len(c[l]) - 1] # c[l][Len(c[l])]
    BY <2>2 DEF Linking
  <2> QED BY <1>1, <1>2, <1>4, <2>1, <2>2, <2>3
<1> QED BY <1>3, <1>4 DEF Tails

-----------------------------------------------------------------------------
(* Steps that change no chain.                                             *)

(***************************************************************************)
(* A step of p that links nothing, unlinks nothing and leaves head and     *)
(* tail alone: it writes at most the node that p holds.                    *)
(***************************************************************************)
KeepStep(c, p) ==
  /\ UNCHANGED <<head, tail>>
  /\ idCntr' >= idCntr
  /\ \A q \in Procs : q # p => pc'[q] = pc[q] /\ loc'[q] = loc[q]
  /\ \A n \in Nodes : \/ HoldsNode(p) /\ n = loc[p].slot
                      \/ word'[n] = word[n] /\ val'[n] = val[n]
  /\ HoldsNode(p) =>
        \A g \in Nat : (g > 0 /\ word'[loc[p].slot] = W(loc[p].slot, g))
                          => pc[p] \in Numbered /\ loc[p].gen = g
  /\ pc'[p] \in Numbered =>
        \/ pc[p] \in Numbered /\ loc'[p].gen = loc[p].gen
        \/ loc'[p].gen = idCntr /\ idCntr' > idCntr
  /\ \A l \in Lists, g \in Nat :
        pc'[p] \in Informed /\ loc'[p].list = l /\ loc'[p].before.hi = g => Known(c, l, g)
  /\ pc[p] = "endSwing" => tail[loc[p].list] # loc[p].before
  /\ Filled(p)' /\ Swings(p)' /\ Fronts(p)'

\* One that also takes no node and gives none away.
OwnStep(c, p) ==
  /\ KeepStep(c, p)
  /\ dataAlloc' = dataAlloc
  /\ HoldsNode(p)' <=> HoldsNode(p)
  /\ HoldsNode(p) => loc'[p].slot = loc[p].slot

\* Such a step changes no chain and nothing that anybody knows.
LEMMA KeepStepInv ==
  ASSUME ListInv, ListInv', NEW c, ChainInv(c), NEW p \in Procs, KeepStep(c, p), Separate(c)'
  PROVE  ChainInv(c)'
<1>t. /\ c \in [Lists -> Seq(Nodes)]
      /\ \A l \in Lists : Linking(c[l], l)
      /\ Separate(c) /\ Numbers /\ Generations(c) /\ Tails(c)
      /\ \A q \in Procs : Filled(q) /\ Swings(q) /\ Fronts(q)
  BY DEF ChainInv
<1>k. /\ \A l \in Lists :
           /\ Len(c[l]) \in Nat /\ Len(c[l]) >= 1
           /\ \A i \in 1..Len(c[l]) : c[l][i] \in Nodes /\ OnChain(c[l], c[l][i])
           /\ Last(c[l]) = c[l][Len(c[l])] /\ Last(c[l]) \in Nodes /\ OnChain(c[l], Last(c[l]))
           /\ c[l][1] = head[l].lo /\ head[l].lo \in Nodes /\ OnChain(c[l], head[l].lo)
  BY <1>t, ChainNodes
<1>h. head' = head /\ tail' = tail
  BY DEF KeepStep
<1>o. \A q \in Procs : q # p => pc'[q] = pc[q] /\ loc'[q] = loc[q]
  BY DEF KeepStep
<1>w. \A n \in Nodes : (HoldsNode(p) /\ n = loc[p].slot) \/ (word'[n] = word[n] /\ val'[n] = val[n])
  BY DEF KeepStep
<1>c. \A l \in Lists, n \in Nodes : OnChain(c[l], n) => word'[n] = word[n] /\ val'[n] = val[n]
  BY <1>t, <1>w DEF Separate
<1>e. \A l \in Lists : word'[Last(c[l])] = word[Last(c[l])] /\ word'[tail[l].lo] = word[tail[l].lo]
  <2>1. \A l \in Lists : tail[l].lo \in Nodes /\ OnChain(c[l], tail[l].lo)
    BY <1>t, TailPlace
  <2> QED BY <1>k, <1>c, <2>1
<1>1. \A l \in Lists : Linking(c[l], l)'
  <2> SUFFICES ASSUME NEW l \in Lists PROVE Linking(c[l], l)'
    OBVIOUS
  <2>1. \A i \in 1..(Len(c[l]) - 1) : word'[c[l][i]].lo = c[l][i + 1]
    <3> SUFFICES ASSUME NEW i \in 1..(Len(c[l]) - 1) PROVE word'[c[l][i]].lo = c[l][i + 1]
      OBVIOUS
    <3>1. i \in 1..Len(c[l])
      BY <1>k
    <3>2. word'[c[l][i]] = word[c[l][i]]
      BY <3>1, <1>k, <1>c
    <3> QED BY <3>2, <1>t DEF Linking
  <2>2. word'[Last(c[l])].lo = Last(c[l])
    BY <1>e, <1>t DEF Linking
  <2> QED BY <2>1, <2>2, <1>h, <1>t DEF Linking
<1>3. \A q \in Procs : Filled(q)'
  <2> SUFFICES ASSUME NEW q \in Procs, q # p PROVE Filled(q)'
    BY DEF KeepStep
  <2>1. pc'[q] = pc[q] /\ loc'[q] = loc[q]
    BY <1>o
  <2>2. CASE HoldsNode(q)
    <3>1. loc[q].slot \in Nodes
      BY <2>2 DEF ListInv, LocalsOK, RefersToNodes, UsesSlot, HoldsNode
    <3>2. word'[loc[q].slot] = word[loc[q].slot]
      BY <1>w, <2>2, <3>1, <1>t DEF Separate
    <3> QED BY <2>1, <3>2, <1>t DEF Filled
  <2>3. CASE ~HoldsNode(q)
    BY <2>3, <2>1 DEF HoldsNode, HoldLabels, Filled, Numbered
  <2> QED BY <2>2, <2>3
<1>4. Numbers'
  <2>1. idCntr \in Nat /\ idCntr' \in Nat /\ idCntr' >= idCntr /\ idCntr >= 1
    BY <1>t DEF KeepStep, ListInv, TypeOK, Numbers
  <2>2. \A q \in Procs : loc[q].gen \in Nat /\ loc'[q].gen \in Nat
    BY DEF ListInv, TypeOK, Locals
  <2>3. \A q \in Procs : q # p /\ pc'[q] \in Numbered =>
           pc[q] \in Numbered /\ loc'[q].gen = loc[q].gen
    BY <1>o
  <2>4. pc'[p] \in Numbered =>
        \/ pc[p] \in Numbered /\ loc'[p].gen = loc[p].gen
        \/ loc'[p].gen = idCntr /\ idCntr' > idCntr
    BY DEF KeepStep
  <2>5. \A q \in Procs : pc'[q] \in Numbered => loc'[q].gen >= 1 /\ loc'[q].gen < idCntr'
    BY <2>1, <2>2, <2>3, <2>4, <1>t DEF Numbers
  <2>6. \A a, b \in Procs :
           pc'[a] \in Numbered /\ pc'[b] \in Numbered /\ loc'[a].gen = loc'[b].gen => a = b
    BY <2>1, <2>2, <2>3, <2>4, <1>t DEF Numbers
  <2> QED BY <2>1, <2>5, <2>6 DEF Numbers
<1>i. ASSUME NEW l \in Lists, NEW g \in Nat, Issued(c, l, g) PROVE Issued(c, l, g)'
  <2>1. idCntr \in Nat /\ idCntr' \in Nat /\ idCntr' >= idCntr
    BY <1>t DEF KeepStep, ListInv, TypeOK, Numbers
  <2>2. g < idCntr /\ (g = 0 => l = "free")
    BY <1>i DEF Issued
  <2>3. \A q \in Procs : pc[q] \in Numbered => loc[q].gen # g
    BY <1>i DEF Issued
  <2>4. \A q \in Procs : pc'[q] \in Numbered => loc'[q].gen # g
    <3>1. pc'[p] \in Numbered =>
        \/ pc[p] \in Numbered /\ loc'[p].gen = loc[p].gen
        \/ loc'[p].gen = idCntr /\ idCntr' > idCntr
      BY DEF KeepStep
    <3> QED BY <2>1, <2>2, <2>3, <3>1, <1>o
  <2>5. ASSUME NEW m \in Nodes, g > 0, word'[m] = W(m, g) PROVE m = Last(c[l])
    <3>1. word'[m] = word[m]
      <4> SUFFICES ASSUME HoldsNode(p), m = loc[p].slot PROVE FALSE
        BY <1>w
      <4>1. pc[p] \in Numbered /\ loc[p].gen = g
        BY <2>5 DEF KeepStep
      <4> QED BY <4>1, <2>3
    <3> QED BY <3>1, <2>5, <1>i DEF Issued
  <2> QED BY <2>1, <2>2, <2>4, <2>5 DEF Issued
<1>p. ASSUME NEW l \in Lists, NEW g \in Nat, Known(c, l, g) PROVE Known(c, l, g)'
  <2>1. Issued(c, l, g)'
    BY <1>p, <1>i DEF Known
  <2>2. Passed(c, l, g)'
    BY <1>p, <1>e, <1>h DEF Known, Passed
  <2> QED BY <2>1, <2>2 DEF Known
<1>5. Generations(c)'
  <2>1. ASSUME NEW l \in Lists, NEW g \in Nat, word'[Last(c[l])].hi = g PROVE Issued(c, l, g)'
    BY <2>1, <1>e, <1>t, <1>i DEF Generations
  <2>2. ASSUME NEW l \in Lists, NEW g \in Nat, tail'[l].hi = g PROVE Known(c, l, g)'
    BY <2>2, <1>h, <1>t, <1>p DEF Generations
  <2>3. ASSUME NEW q \in Procs, NEW l \in Lists, NEW g \in Nat,
               pc'[q] \in Informed, loc'[q].list = l, loc'[q].before.hi = g
        PROVE  Known(c, l, g)'
    <3>1. Known(c, l, g)
      <4>1. CASE q = p
        BY <4>1, <2>3 DEF KeepStep
      <4>2. CASE q # p
        BY <4>2, <2>3, <1>o, <1>t DEF Generations
      <4> QED BY <4>1, <4>2
    <3> QED BY <3>1, <1>p
  <2> QED BY <2>1, <2>2, <2>3 DEF Generations
<1>6. Tails(c)'
  <2> SUFFICES ASSUME NEW l \in Lists, tail'[l] # word'[Last(c[l])] PROVE Lags(c, l)'
    BY DEF Tails
  <2>1. Lags(c, l)
    BY <1>e, <1>h, <1>t DEF Tails
  <2>2. PICK q \in Procs : pc[q] = "endSwing" /\ loc[q].list = l /\ loc[q].before = tail[l]
    BY <2>1 DEF Lags
  <2>3. q # p
    BY <2>2 DEF KeepStep
  <2>4. pc'[q] = "endSwing" /\ loc'[q].list = l /\ loc'[q].before = tail'[l]
    BY <2>2, <2>3, <1>o, <1>h
  <2>5. word'[tail'[l].lo] = word'[Last(c[l])]
    BY <2>1, <1>e, <1>h DEF Lags
  <2> QED BY <2>1, <2>4, <2>5, <1>h DEF Lags
<1>7. \A q \in Procs : Swings(q)'
  <2> SUFFICES ASSUME NEW q \in Procs, q # p PROVE Swings(q)'
    BY DEF KeepStep
  <2>1. pc'[q] = pc[q] /\ loc'[q] = loc[q] /\ Linked(q)' = Linked(q)
    BY <1>o DEF Linked
  <2>2. loc[q].list \in Lists
    BY DEF ListInv, TypeOK, Locals
  <2>3. tail[loc[q].list] = loc[q].before => word'[loc[q].before.lo] = word[loc[q].before.lo]
    BY <2>2, <1>e
  <2> QED BY <2>1, <2>3, <1>h, <1>t DEF Swings
<1>8. \A q \in Procs : Fronts(q)'
  <2> SUFFICES ASSUME NEW q \in Procs, q # p PROVE Fronts(q)'
    BY DEF KeepStep
  <2>1. pc'[q] = pc[q] /\ loc'[q] = loc[q]
    BY <1>o
  <2>2. loc[q].list \in Lists
    BY DEF ListInv, TypeOK, Locals
  <2>3. ASSUME head[loc[q].list] = W(loc[q].ref, loc[q].refGen)
        PROVE  /\ word'[loc[q].ref] = word[loc[q].ref]
               /\ val'[word[loc[q].ref].lo] = val[word[loc[q].ref].lo]
    <3> DEFINE l == loc[q].list
               r == loc[q].ref
    <3>1. r = head[l].lo /\ r = c[l][1]
      BY <2>2, <2>3, <1>k DEF W
    <3>2. word'[r] = word[r]
      BY <3>1, <2>2, <1>k, <1>c
    <3>3. word[r].lo \in Nodes /\ OnChain(c[l], word[r].lo)
      BY <3>1, <2>2, <1>t, HeadNext
    <3> QED BY <3>2, <3>3, <2>2, <1>c
  <2> QED BY <2>1, <2>3, <1>h, <1>t DEF Fronts
<1> QED BY <1>t, <1>1, <1>3, <1>4, <1>5, <1>6, <1>7, <1>8 DEF ChainInv

\* Such a step changes no chain.
LEMMA OwnStepInv ==
  ASSUME ListInv, ListInv', NEW c, ChainInv(c), NEW p \in Procs, OwnStep(c, p)
  PROVE  ChainInv(c)'
<1>t. Separate(c) /\ KeepStep(c, p)
  BY DEF ChainInv, OwnStep
<1>h. dataAlloc' = dataAlloc
  BY DEF OwnStep
<1>o. \A q \in Procs : q # p => pc'[q] = pc[q] /\ loc'[q] = loc[q]
  BY <1>t DEF KeepStep
<1>w. \A n \in Nodes : (HoldsNode(p) /\ n = loc[p].slot) \/ (word'[n] = word[n] /\ val'[n] = val[n])
  BY <1>t DEF KeepStep
<1>q. /\ \A q \in Procs : /\ HoldsNode(q)' <=> HoldsNode(q)
                          /\ HoldsNode(q) => loc'[q].slot = loc[q].slot
  BY <1>o DEF OwnStep, HoldsNode
<1>2. Separate(c)'
  <2>1. \A n \in Nodes : n >= dataAlloc => word'[n] = Zero
    <3>1. dataAlloc \in Int /\ \A n \in Nodes : n \in Int
      BY SizesAssumption DEF ListInv, TypeOK, Nodes
    <3>2. HoldsNode(p) => loc[p].slot < dataAlloc
      BY <1>t DEF Separate
    <3>3. \A n \in Nodes : n >= dataAlloc => word[n] = Zero
      BY <1>t DEF Separate
    <3> QED BY <3>1, <3>2, <3>3, <1>w
  <2>2. \A a, b \in Procs : HoldsNode(a)' /\ HoldsNode(b)' /\ loc'[a].slot = loc'[b].slot => a = b
    BY <1>q, <1>t DEF Separate
  <2>3. \A a \in Procs : HoldsNode(a)' =>
           loc'[a].slot < dataAlloc /\ \A l \in Lists : ~OnChain(c[l], loc'[a].slot)
    BY <1>q, <1>t DEF Separate
  <2>4. \A n \in Nodes : n < dataAlloc =>
          \/ \E l \in Lists : OnChain(c[l], n)
          \/ \E a \in Procs : HoldsNode(a)' /\ loc'[a].slot = n
    BY <1>q, <1>t DEF Separate
  <2>5. /\ \A n \in Nodes : ~OnChain(c["queue"], n) \/ ~OnChain(c["free"], n)
        /\ \A l \in Lists, n \in Nodes : OnChain(c[l], n) => n < dataAlloc
    BY <1>t DEF Separate
  <2> QED BY <2>1, <2>2, <2>3, <2>4, <2>5, <1>h DEF Separate, OnChain
<1> QED BY <1>t, <1>2, KeepStepInv

\* The other processes stay where they are.
OthersStay(p) == \A q \in Procs : q # p => pc'[q] = pc[q] /\ loc'[q] = loc[q]

\* A step of p that changes no memory, with what p knows where it arrives.
QuietStep(c, p) ==
  /\ UNCHANGED memVars
  /\ OthersStay(p)
  /\ HoldsNode(p)' <=> HoldsNode(p)
  /\ HoldsNode(p) => loc'[p].slot = loc[p].slot
  /\ pc'[p] \in Numbered => pc[p] \in Numbered /\ loc'[p].gen = loc[p].gen
  /\ \A l \in Lists, g \in Nat :
        pc'[p] \in Informed /\ loc'[p].list = l /\ loc'[p].before.hi = g => Known(c, l, g)
  /\ pc[p] = "endSwing" => tail[loc[p].list] # loc[p].before
  /\ Filled(p)' /\ Swings(p)' /\ Fronts(p)'

\* It is a step that writes no node but its own.
LEMMA QuietStepOwn ==
  ASSUME ListInv, NEW c, ChainInv(c), NEW p \in Procs, QuietStep(c, p)
  PROVE  OwnStep(c, p)
<1>1. UNCHANGED <<word, val, head, tail, dataAlloc, idCntr>> /\ idCntr \in Nat
  BY DEF QuietStep, memVars, ListInv, TypeOK
<1>2. ASSUME HoldsNode(p), NEW g \in Nat, g > 0, word[loc[p].slot] = W(loc[p].slot, g)
      PROVE  pc[p] \in Numbered /\ loc[p].gen = g
  <2>1. Filled(p) /\ loc[p].slot # Null
    BY <1>2, SizesAssumption
       DEF ChainInv, ListInv, LocalsOK, RefersToNodes, UsesSlot, HoldsNode, Nodes, Null
  <2> QED BY <1>2, <2>1 DEF Filled, HoldsNode, HoldLabels, W, Zero, Numbered
<1> QED BY <1>1, <1>2 DEF QuietStep, OwnStep, KeepStep, OthersStay

\* A step that reads: what p knows is as true as before.
LEMMA QuietStepInv ==
  ASSUME ListInv, ListInv', NEW c, ChainInv(c), NEW p \in Procs, QuietStep(c, p)
  PROVE  ChainInv(c)'
BY QuietStepOwn, OwnStepInv

\* Where a process holds no node and knows nothing of the lists.
Away == {"idle", "poolGen", "bump", "deqHead", "incCount", "decCount", "postDeq", "postEnq"}

\* A step after which p has nothing to do with the lists.
LEMMA AwayStep ==
  ASSUME ListInv, ListInv', NEW c, ChainInv(c), NEW p \in Procs,
         UNCHANGED memVars, OthersStay(p), pc'[p] \in Away, ~HoldsNode(p),
         pc[p] = "endSwing" => tail[loc[p].list] # loc[p].before
  PROVE  ChainInv(c)'
<1>1. Filled(p)' /\ Swings(p)' /\ Fronts(p)'
  BY DEF Filled, Swings, Fronts, Away, Numbered, Informed, Heading, Helping, FifoLabels, FrontLabels
<1>2. QuietStep(c, p)
  BY <1>1 DEF QuietStep, Away, HoldsNode, HoldLabels, Numbered, Informed
<1> QED BY <1>2, QuietStepInv

\* Where Goto and Set take a process.
LEMMA Moved ==
  ASSUME TypeOK, NEW p \in Procs, NEW label, Goto(p, label)
  PROVE  /\ pc'[p] = label
         /\ UNCHANGED loc => OthersStay(p) /\ loc'[p] = loc[p]
         /\ \A l : Set(p, l) => OthersStay(p) /\ loc'[p] = l
BY DEF TypeOK, Goto, Set, OthersStay

\* The gates and the counter.
LEMMA GatesChains ==
  ASSUME ListInv, ListInv', NEW c, ChainInv(c), NEW p \in Procs, Gates(p)
  PROVE  ChainInv(c)'
<1>1. TypeOK
  BY DEF ListInv
<1>2. ASSUME NEW label, Goto(p, label), UNCHANGED loc \/ Set(p, NoLocals)
      PROVE  OthersStay(p) /\ pc'[p] = label
  BY <1>1, <1>2, Moved
<1>3. /\ OthersStay(p)
      /\ pc'[p] \in {"idle", "poolGen", "deqHead", "postDeq", "postEnq"}
  <2>1. ASSUME Finish(p) PROVE OthersStay(p) /\ pc'[p] = "idle"
    BY <1>2, <2>1 DEF Finish
  <2> QED
    BY <1>2, <2>1 DEF Gates, EnqGateTry, DeqGateTry, PostDeq, PostEnq, IncCount, DecCount
<1>4. UNCHANGED memVars
  BY DEF Gates, EnqGateTry, DeqGateTry, PostDeq, PostEnq, IncCount, DecCount
<1>5. pc[p] \in {"idle", "postDeq", "postEnq", "incCount", "decCount"}
  BY DEF Gates, EnqGateTry, DeqGateTry, PostDeq, PostEnq, IncCount, DecCount, At
<1> QED BY <1>3, <1>4, <1>5, AwayStep DEF Away, HoldsNode, HoldLabels

\* What a process knows before its step.
LEMMA Knows ==
  ASSUME ListInv, NEW c, ChainInv(c), NEW p \in Procs
  PROVE  /\ TypeOK /\ loc[p] \in Locals /\ loc[p].list \in Lists /\ loc'[p].list = loc'[p].list
         /\ Filled(p) /\ Swings(p) /\ Fronts(p)
         /\ HoldsNode(p) => loc[p].slot \in Nodes /\ loc[p].slot # Null
BY SizesAssumption, SMTT(30) DEF ListInv, ChainInv, TypeOK, Locals, LocalsOK, RefersToNodes, UsesSlot,
   HoldsNode, Nodes, Null

\* alloc_idx_slots up to the test of the pool: only the pool's front is looked at.
LEMMA PoolLook ==
  ASSUME ListInv, ListInv', NEW c, ChainInv(c), NEW p \in Procs,
         PoolGen(p) \/ PoolHead(p) \/ PoolTest(p)
  PROVE  ChainInv(c)'
<1>1. TypeOK /\ loc[p] \in Locals /\ Fronts(p)
  BY Knows
<1>2. head \in [Lists -> Word] /\ "free" \in Lists
  BY <1>1 DEF TypeOK, Lists
<1> USE DEF HoldsNode, HoldLabels, Numbered, Informed, Helping
<1>3. CASE PoolGen(p)
  <2>1. /\ pc[p] = "poolGen" /\ pc'[p] = "poolHead" /\ OthersStay(p) /\ UNCHANGED memVars
        /\ loc'[p] = [loc[p] EXCEPT !.list = "free", !.refGen = head["free"].hi]
    BY <1>1, <1>3, Moved DEF PoolGen, At
  <2>2. loc'[p].list = "free" /\ loc'[p].refGen = head["free"].hi /\ head["free"].hi \in Nat
    BY <1>1, <1>2, <2>1 DEF Locals, Word
  <2>3. Filled(p)' /\ Swings(p)'
    BY <2>1 DEF Filled, Swings
  <2>4. Fronts(p)'
    BY <2>1, <2>2 DEF Fronts, memVars, FifoLabels, FrontLabels, Heading
  <2> QED BY <2>1, <2>3, <2>4, QuietStepInv DEF QuietStep
<1>4. CASE PoolHead(p)
  <2>1. /\ pc[p] = "poolHead" /\ pc'[p] = "poolTest" /\ OthersStay(p) /\ UNCHANGED memVars
        /\ loc'[p] = [loc[p] EXCEPT !.ref = head["free"].lo]
    BY <1>1, <1>4, Moved DEF PoolHead, At
  <2>2. loc'[p].list = loc[p].list /\ loc'[p].refGen = loc[p].refGen
    BY <1>1, <2>1 DEF Locals
  <2>3. Filled(p)' /\ Swings(p)'
    BY <2>1 DEF Filled, Swings
  <2>4. Fronts(p)'
    BY <1>1, <2>1, <2>2 DEF Fronts, memVars, FifoLabels, FrontLabels, Heading
  <2> QED BY <2>1, <2>3, <2>4, QuietStepInv DEF QuietStep
<1>5. CASE PoolTest(p)
  <2>1. /\ pc[p] = "poolTest" /\ pc'[p] \in {"frontTest", "bump"} /\ OthersStay(p)
        /\ UNCHANGED memVars /\ loc'[p] = loc[p]
    BY <1>1, <1>5, Moved DEF PoolTest, At
  <2>3. Filled(p)' /\ Swings(p)'
    BY <2>1 DEF Filled, Swings
  <2>4. Fronts(p)'
    BY <1>1, <2>1 DEF Fronts, memVars, FifoLabels, FrontLabels, Heading
  <2> QED BY <2>1, <2>3, <2>4, QuietStepInv DEF QuietStep
<1> QED BY <1>3, <1>4, <1>5

\* A step that writes the node p holds and no number.
LEMMA WriteStep ==
  ASSUME ListInv, ListInv', NEW c, ChainInv(c), NEW p \in Procs,
         UNCHANGED <<head, tail, dataAlloc, idCntr>>, OthersStay(p),
         HoldsNode(p), HoldsNode(p)', loc'[p].slot = loc[p].slot,
         \A n \in Nodes : n # loc[p].slot => word'[n] = word[n] /\ val'[n] = val[n],
         word'[loc[p].slot] = Zero, pc'[p] \in {"poolClear", "store", "endGen"}
  PROVE  ChainInv(c)'
<1>1. Filled(p)' /\ Swings(p)' /\ Fronts(p)'
  BY DEF Filled, Swings, Fronts, Numbered, Informed, Heading, Helping, FifoLabels, FrontLabels
<1>2. idCntr \in Nat /\ loc[p].slot # Null
  BY Knows DEF ListInv, TypeOK
<1>3. \A g \in Nat : word'[loc[p].slot] # W(loc[p].slot, g)
  BY <1>2 DEF W, Zero
<1>4. OwnStep(c, p)
  BY <1>1, <1>2, <1>3 DEF OwnStep, KeepStep, OthersStay, HoldsNode, HoldLabels, Numbered, Informed
<1> QED BY <1>4, OwnStepInv

\* The node that was taken off a list is cleared, and the item is stored in it.
LEMMA ClearChains ==
  ASSUME ListInv, ListInv', NEW c, ChainInv(c), NEW p \in Procs,
         FrontZero(p) \/ PoolClear(p) \/ Store(p)
  PROVE  ChainInv(c)'
<1>1. TypeOK /\ loc[p] \in Locals /\ Filled(p)
  BY Knows
<1> USE DEF HoldsNode, HoldLabels
<1>2. HoldsNode(p) /\ loc[p].slot \in Nodes
  <2>1. HoldsNode(p)
    BY DEF FrontZero, PoolClear, Store, At
  <2> QED BY <2>1, Knows
<1>3. /\ word \in [Nodes -> Word] /\ val \in [Nodes -> Items \cup {NoItem}]
      /\ UNCHANGED <<head, tail, dataAlloc, idCntr>>
  BY <1>1 DEF TypeOK, FrontZero, PoolClear, Store
<1>4. CASE FrontZero(p)
  <2>1. /\ pc'[p] \in {"poolClear", "endGen"} /\ OthersStay(p)
        /\ loc'[p] = loc[p] \/ loc'[p] = [loc[p] EXCEPT !.list = "free"]
    BY <1>1, <1>4, Moved DEF FrontZero
  <2>2. loc'[p].slot = loc[p].slot
    BY <1>1, <2>1 DEF Locals
  <2>3. val' = val /\ word' = [word EXCEPT ![loc[p].slot] = Zero]
    BY <1>4 DEF FrontZero
  <2> QED BY <1>2, <1>3, <2>1, <2>2, <2>3, WriteStep
<1>5. CASE PoolClear(p)
  <2>1. pc'[p] = "store" /\ OthersStay(p) /\ loc'[p] = loc[p]
    BY <1>1, <1>5, Moved DEF PoolClear
  <2>2. /\ val' = [val EXCEPT ![loc[p].slot] = NoItem]
        /\ word' = [word EXCEPT ![loc[p].slot] = Zero]
    BY <1>5 DEF PoolClear
  <2> QED BY <1>2, <1>3, <2>1, <2>2, WriteStep
<1>6. CASE Store(p)
  <2>1. /\ pc[p] = "store" /\ pc'[p] = "endGen" /\ OthersStay(p)
        /\ loc'[p] = [loc[p] EXCEPT !.list = "queue"]
    BY <1>1, <1>6, Moved DEF Store, At
  <2>2. loc'[p].slot = loc[p].slot
    BY <1>1, <2>1 DEF Locals
  <2>3. word' = word /\ val' = [val EXCEPT ![loc[p].slot] = NewItem(p)]
    BY <1>6 DEF Store
  <2>4. word[loc[p].slot] = Zero
    BY <1>1, <2>1 DEF Filled
  <2> QED BY <1>2, <1>3, <2>1, <2>2, <2>3, <2>4, WriteStep
<1> QED BY <1>4, <1>5, <1>6

\* alloc_new_data: the next node never used belongs to the process, and to no list.
LEMMA BumpChains ==
  ASSUME ListInv, ListInv', NEW c, ChainInv(c), NEW p \in Procs, Bump(p)
  PROVE  ChainInv(c)'
<1>1. TypeOK /\ loc[p] \in Locals /\ pc[p] = "bump" /\ ~HoldsNode(p)
  BY Knows DEF Bump, At, HoldsNode, HoldLabels
<1>2. CASE ~(dataAlloc <= MaxNodes)
  <2>1. pc'[p] = "postEnq" /\ OthersStay(p) /\ UNCHANGED memVars
    BY <1>1, <1>2, Moved DEF Bump, memVars
  <2> QED BY <1>1, <2>1, AwayStep DEF Away
<1>3. CASE dataAlloc <= MaxNodes
  <2>1. /\ pc'[p] = "store" /\ OthersStay(p)
        /\ loc'[p] = [loc[p] EXCEPT !.slot = dataAlloc]
        /\ dataAlloc' = dataAlloc + 1 /\ UNCHANGED <<word, val, head, tail, idCntr>>
    BY <1>1, <1>3, Moved DEF Bump
  <2>2. loc'[p].slot = dataAlloc /\ dataAlloc \in Nodes /\ dataAlloc \in Nat
    BY <1>1, <1>3, <2>1, SizesAssumption DEF Locals, TypeOK, Nodes
  <2>3. Separate(c) /\ c \in [Lists -> Seq(Nodes)] /\ idCntr \in Nat
    BY <1>1 DEF ChainInv, TypeOK
  <2>4. word[dataAlloc] = Zero
    BY <2>2, <2>3 DEF Separate
  <2>5. Filled(p)' /\ Swings(p)' /\ Fronts(p)'
    BY <2>1, <2>2, <2>4
       DEF Filled, Swings, Fronts, Numbered, Informed, Heading, Helping, FifoLabels, FrontLabels
  <2>6. KeepStep(c, p)
    BY <1>1, <2>1, <2>3, <2>5 DEF KeepStep, OthersStay, Numbered, Informed
  <2>7. /\ HoldsNode(p)'
        /\ \A q \in Procs : q # p => (HoldsNode(q)' <=> HoldsNode(q)) /\ loc'[q] = loc[q]
    BY <2>1 DEF OthersStay, HoldsNode, HoldLabels
  <2>8. \A q \in Procs : HoldsNode(q) => loc[q].slot \in Nodes /\ loc[q].slot < dataAlloc
    BY <2>3 DEF Separate, ListInv, LocalsOK, RefersToNodes, UsesSlot, HoldsNode
  <2>9. \A n \in Nodes : n \in Int
    BY SizesAssumption DEF Nodes
  <2>10. Separate(c)'
    <3>1. \A n \in Nodes : ~OnChain(c["queue"], n) \/ ~OnChain(c["free"], n)
      BY <2>3 DEF Separate
    <3>2. \A l \in Lists, n \in Nodes : OnChain(c[l], n) => n < dataAlloc'
      BY <2>1, <2>2, <2>3, <2>9 DEF Separate
    <3>3. ASSUME NEW q \in Procs, HoldsNode(q)' PROVE loc'[q].slot < dataAlloc'
      <4>1. CASE q = p
        BY <4>1, <2>1, <2>2
      <4>2. CASE q # p
        <5>1. loc[q].slot \in Nat /\ loc[q].slot < dataAlloc /\ loc'[q] = loc[q]
          BY <3>3, <4>2, <2>7, <2>8, <2>9, SizesAssumption DEF Nodes
        <5> QED BY <5>1, <2>1, <2>2
      <4> QED BY <4>1, <4>2
    <3>4. \A q \in Procs, l \in Lists : HoldsNode(q)' => ~OnChain(c[l], loc'[q].slot)
      BY <2>2, <2>3, <2>7 DEF Separate
    <3>5. \A a, b \in Procs : HoldsNode(a)' /\ HoldsNode(b)' /\ loc'[a].slot = loc'[b].slot => a = b
      BY <2>2, <2>3, <2>7, <2>8 DEF Separate
    <3>6. ASSUME NEW n \in Nodes, n < dataAlloc'
          PROVE  \/ \E l \in Lists : OnChain(c[l], n)
                 \/ \E q \in Procs : HoldsNode(q)' /\ loc'[q].slot = n
      <4>1. CASE n = dataAlloc
        BY <4>1, <2>2, <2>7
      <4>2. CASE n # dataAlloc
        <5>1. n < dataAlloc
          BY <4>2, <3>6, <2>1, <2>2, <2>9
        <5> QED BY <5>1, <1>1, <2>3, <2>7 DEF Separate
      <4> QED BY <4>1, <4>2
    <3>7. \A n \in Nodes : n >= dataAlloc' => word'[n] = Zero
      BY <2>1, <2>2, <2>3, <2>9 DEF Separate
    <3> QED BY <3>1, <3>2, <3>3, <3>4, <3>5, <3>6, <3>7 DEF Separate, OnChain
  <2> QED BY <2>6, <2>10, KeepStepInv
<1> QED BY <1>2, <1>3

\* remove_front up to the CAS: the test of the tail and the read of the successor.
LEMMA FrontLook ==
  ASSUME ListInv, ListInv', NEW c, ChainInv(c), NEW p \in Procs,
         FrontTest(p) \/ FrontNext(p) \/ (FrontCas(p) /\ ~HeadUnchanged(p))
  PROVE  ChainInv(c)'
<1>1. TypeOK /\ loc[p] \in Locals /\ Fronts(p)
  BY Knows
<1>2. loc[p].list \in Lists
  BY Knows
<1> USE DEF HoldsNode, HoldLabels, Numbered, Informed, Helping
<1>3. CASE FrontTest(p) /\ pc'[p] = "frontNext"
  <2>1. /\ pc[p] = "frontTest" /\ OthersStay(p) /\ UNCHANGED memVars
        /\ loc'[p] = loc[p] /\ loc[p].ref # tail[loc[p].list].lo
    <3>1. pc[p] = "frontTest" /\ OthersStay(p) /\ UNCHANGED memVars /\ loc'[p] = loc[p]
      BY <1>1, <1>3, Moved DEF FrontTest, At
    <3>2. pc'[p] = IF loc[p].ref # Null /\ loc[p].ref # tail[loc[p].list].lo
                     THEN "frontNext" ELSE FrontRetry(p)
      BY <1>1, <1>3, Moved DEF FrontTest
    <3> QED BY <3>1, <3>2, <1>3 DEF FrontRetry
  <2>3. Filled(p)' /\ Swings(p)'
    BY <2>1, <1>3 DEF Filled, Swings
  <2>4. Fronts(p)'
    BY <1>1, <1>3, <2>1 DEF Fronts, memVars, FifoLabels, FrontLabels, Heading
  <2> QED BY <1>3, <2>1, <2>3, <2>4, QuietStepInv DEF QuietStep
<1>4. CASE FrontTest(p) /\ pc'[p] # "frontNext"
  <2>1. /\ pc[p] = "frontTest" /\ OthersStay(p) /\ UNCHANGED memVars
        /\ pc'[p] \in {"poolGen", "deqHead"}
    BY <1>1, <1>4, Moved DEF FrontTest, At, FrontRetry
  <2> QED BY <2>1, AwayStep DEF Away
<1>5. CASE FrontNext(p)
  <2>1. /\ pc[p] = "frontNext" /\ pc'[p] = "frontCas" /\ OthersStay(p) /\ UNCHANGED memVars
        /\ loc'[p] = [loc[p] EXCEPT !.next = word[loc[p].ref].lo]
    BY <1>1, <1>5, Moved DEF FrontNext, At
  <2>2. /\ loc'[p].list = loc[p].list /\ loc'[p].refGen = loc[p].refGen /\ loc'[p].ref = loc[p].ref
        /\ loc'[p].data = loc[p].data /\ loc'[p].next = word[loc[p].ref].lo
    BY <1>1, <2>1 DEF Locals
  <2>3. Filled(p)' /\ Swings(p)'
    BY <2>1 DEF Filled, Swings
  <2>4. Fronts(p)'
    BY <1>1, <2>1, <2>2 DEF Fronts, memVars, FifoLabels, FrontLabels, Heading
  <2> QED BY <2>1, <2>3, <2>4, QuietStepInv DEF QuietStep
<1>6. CASE FrontCas(p) /\ ~HeadUnchanged(p)
  <2>1. /\ pc[p] = "frontCas" /\ OthersStay(p) /\ UNCHANGED memVars
        /\ pc'[p] \in {"poolGen", "deqHead"}
    BY <1>1, <1>6, Moved DEF FrontCas, At, FrontRetry, memVars
  <2> QED BY <2>1, AwayStep DEF Away
<1> QED BY <1>3, <1>4, <1>5, <1>6

\* deq and fifo_remove: reads and tests only.
LEMMA FifoLook ==
  ASSUME ListInv, ListInv', NEW c, ChainInv(c), NEW p \in Procs, FifoRemove(p)
  PROVE  ChainInv(c)'
<1>1. TypeOK /\ loc[p] \in Locals /\ Fronts(p)
  BY Knows
<1>2. /\ head \in [Lists -> Word] /\ "queue" \in Lists /\ head["queue"].lo \in Nodes
      /\ head["queue"].hi \in Nat
  <2>1. head["queue"].lo \in Nodes
    BY ChainNodes DEF ChainInv, Lists
  <2> QED BY <1>1, <2>1 DEF TypeOK, Lists, Word
<1> USE DEF HoldsNode, HoldLabels, Numbered, Informed, Helping
<1>3. pc[p] \in FifoLabels
  BY DEF FifoRemove, DeqHead, DeqTest, FifoGen, FifoHead, FifoTest, FifoNext, FifoData, At,
         FifoLabels
<1>4. UNCHANGED memVars
  BY DEF FifoRemove, DeqHead, DeqTest, FifoGen, FifoHead, FifoTest, FifoNext, FifoData
<1>5. ASSUME OthersStay(p), pc'[p] \in Away PROVE ChainInv(c)'
  BY <1>3, <1>4, <1>5, AwayStep DEF FifoLabels
<1>6. ASSUME OthersStay(p), pc'[p] \in (FifoLabels \ {"deqHead"}) \cup {"frontTest"}, Fronts(p)'
      PROVE  ChainInv(c)'
  <2>1. Filled(p)' /\ Swings(p)'
    BY <1>6 DEF Filled, Swings, FifoLabels
  <2> QED BY <1>3, <1>4, <1>6, <2>1, QuietStepInv DEF QuietStep, FifoLabels
<1>7. CASE DeqHead(p)
  <2>1. /\ pc'[p] = "deqTest" /\ OthersStay(p)
        /\ loc'[p] = [loc[p] EXCEPT !.list = "queue", !.ref = head["queue"].lo]
    BY <1>1, <1>7, Moved DEF DeqHead
  <2>2. loc'[p].list = "queue" /\ loc'[p].ref = head["queue"].lo
    BY <1>1, <2>1 DEF Locals
  <2>3. Fronts(p)'
    BY <1>2, <2>1, <2>2 DEF Fronts, FifoLabels, FrontLabels, Heading
  <2> QED BY <1>6, <2>1, <2>3 DEF FifoLabels
<1>8. CASE DeqTest(p)
  <2>1. pc[p] = "deqTest" /\ pc'[p] \in {"postDeq", "fifoGen"} /\ OthersStay(p) /\ loc'[p] = loc[p]
    BY <1>1, <1>8, Moved DEF DeqTest, At
  <2>2. pc'[p] = "fifoGen" => Fronts(p)'
    BY <1>1, <2>1 DEF Fronts, FifoLabels, FrontLabels, Heading
  <2> QED BY <1>5, <1>6, <2>1, <2>2 DEF FifoLabels, Away
<1>9. CASE FifoGen(p)
  <2>1. /\ pc[p] = "fifoGen" /\ pc'[p] = "fifoHead" /\ OthersStay(p)
        /\ loc'[p] = [loc[p] EXCEPT !.refGen = head["queue"].hi]
    BY <1>1, <1>9, Moved DEF FifoGen, At
  <2>2. loc'[p].list = loc[p].list /\ loc'[p].ref = loc[p].ref /\ loc'[p].refGen = head["queue"].hi
    BY <1>1, <2>1 DEF Locals
  <2>3. Fronts(p)'
    BY <1>1, <1>2, <1>4, <2>1, <2>2 DEF Fronts, FifoLabels, FrontLabels, Heading, memVars
  <2> QED BY <1>6, <2>1, <2>3 DEF FifoLabels
<1>10. CASE FifoHead(p)
  <2>1. /\ pc[p] = "fifoHead" /\ pc'[p] = "fifoTest" /\ OthersStay(p)
        /\ loc'[p] = [loc[p] EXCEPT !.ref = head["queue"].lo]
    BY <1>1, <1>10, Moved DEF FifoHead, At
  <2>2. /\ loc'[p].list = loc[p].list /\ loc'[p].ref = head["queue"].lo
        /\ loc'[p].refGen = loc[p].refGen
    BY <1>1, <2>1 DEF Locals
  <2>3. Fronts(p)'
    BY <1>1, <1>2, <1>4, <2>1, <2>2 DEF Fronts, FifoLabels, FrontLabels, Heading, memVars
  <2> QED BY <1>6, <2>1, <2>3 DEF FifoLabels
<1>11. CASE FifoTest(p)
  <2>1. /\ pc[p] = "fifoTest" /\ OthersStay(p) /\ loc'[p] = loc[p]
        /\ pc'[p] = IF loc[p].ref = tail["queue"].lo THEN "deqHead" ELSE "fifoNext"
    BY <1>1, <1>11, Moved DEF FifoTest, At
  <2>2. pc'[p] = "fifoNext" => Fronts(p)'
    BY <1>1, <1>4, <2>1 DEF Fronts, FifoLabels, FrontLabels, Heading, memVars
  <2> QED BY <1>5, <1>6, <2>1, <2>2 DEF FifoLabels, Away
<1>12. CASE FifoNext(p)
  <2>1. pc[p] = "fifoNext" /\ loc[p].ref # Null
    BY <1>1, <1>12, SizesAssumption DEF FifoNext, At, Fronts, FifoLabels, Nodes, Null
  <2>2. /\ OthersStay(p) /\ loc'[p] = [loc[p] EXCEPT !.next = word[loc[p].ref].lo]
        /\ pc'[p] \in {"deqHead", "fifoData"}
    <3> DEFINE label == IF word[loc[p].ref].lo = Null THEN "deqHead" ELSE "fifoData"
    <3>1. Goto(p, label) /\ Set(p, [loc[p] EXCEPT !.next = word[loc[p].ref].lo])
      BY <1>12, <2>1 DEF FifoNext
    <3>2. label \in {"deqHead", "fifoData"}
      OBVIOUS
    <3> HIDE DEF label
    <3> QED BY <1>1, <3>1, <3>2, Moved
  <2>3. /\ loc'[p].list = loc[p].list /\ loc'[p].refGen = loc[p].refGen /\ loc'[p].ref = loc[p].ref
        /\ loc'[p].next = word[loc[p].ref].lo
    BY <1>1, <2>2 DEF Locals
  <2>4. pc'[p] = "fifoData" => Fronts(p)'
    BY <1>1, <1>4, <2>1, <2>3 DEF Fronts, FifoLabels, FrontLabels, Heading, memVars
  <2> QED BY <1>5, <1>6, <2>2, <2>4 DEF FifoLabels, Away
<1>13. CASE FifoData(p)
  <2>1. /\ OthersStay(p) /\ loc'[p] = [loc[p] EXCEPT !.data = val[loc[p].next]]
        /\ pc'[p] \in {"deqHead", "frontTest"} /\ pc[p] = "fifoData"
    <3> DEFINE label == IF val[loc[p].next] = NoItem THEN "deqHead" ELSE "frontTest"
    <3>1. Goto(p, label) /\ Set(p, [loc[p] EXCEPT !.data = val[loc[p].next]])
      BY <1>13 DEF FifoData
    <3>2. label \in {"deqHead", "frontTest"}
      OBVIOUS
    <3>3. pc[p] = "fifoData"
      BY <1>13 DEF FifoData, At
    <3> HIDE DEF label
    <3> QED BY <1>1, <3>1, <3>2, <3>3, Moved
  <2>3. /\ loc'[p].list = loc[p].list /\ loc'[p].refGen = loc[p].refGen /\ loc'[p].ref = loc[p].ref
        /\ loc'[p].data = val[loc[p].next]
    BY <1>1, <2>1 DEF Locals
  <2>4. pc'[p] = "frontTest" => Fronts(p)'
    BY <1>1, <1>4, <2>1, <2>3 DEF Fronts, FifoLabels, FrontLabels, Heading, memVars
  <2> QED BY <1>5, <1>6, <2>1, <2>4 DEF FifoLabels, Away
<1> QED BY <1>7, <1>8, <1>9, <1>10, <1>11, <1>12, <1>13 DEF FifoRemove

\* add_end, the node's own words: its reference and its number.
LEMMA EndStores ==
  ASSUME ListInv, ListInv', NEW c, ChainInv(c), NEW p \in Procs, EndGen(p) \/ EndStore(p)
  PROVE  ChainInv(c)'
<1>1. TypeOK /\ loc[p] \in Locals /\ Filled(p)
  BY Knows
<1> USE DEF HoldsNode, HoldLabels, Informed
<1>2. HoldsNode(p) /\ loc[p].slot \in Nodes /\ loc[p].slot # Null
  <2>1. HoldsNode(p)
    BY DEF EndGen, EndStore, At
  <2> QED BY <2>1, Knows
<1>3. /\ word \in [Nodes -> Word] /\ idCntr \in Nat
      /\ UNCHANGED <<val, head, tail, dataAlloc>>
  BY <1>1 DEF TypeOK, EndGen, EndStore
<1>4. CASE EndGen(p)
  <2>1. /\ pc[p] = "endGen" /\ pc'[p] = "endStore" /\ OthersStay(p)
        /\ loc'[p] = [loc[p] EXCEPT !.gen = idCntr]
        /\ idCntr' = idCntr + 1 /\ word' = [word EXCEPT ![loc[p].slot].lo = loc[p].slot]
    BY <1>1, <1>4, Moved DEF EndGen, At
  <2>2. loc'[p].slot = loc[p].slot /\ loc'[p].gen = idCntr
    BY <1>1, <2>1 DEF Locals
  <2>3. word[loc[p].slot] = Zero
    BY <1>1, <2>1 DEF Filled
  <2>4. word'[loc[p].slot] = W(loc[p].slot, 0)
    BY <1>2, <1>3, <2>1, <2>3 DEF W, Zero
  <2>5. Filled(p)' /\ Swings(p)' /\ Fronts(p)'
    BY <2>1, <2>2, <2>4
       DEF Filled, Swings, Fronts, Numbered, Informed, Heading, Helping, FifoLabels, FrontLabels
  <2>6. \A g \in Nat : g > 0 => word'[loc[p].slot] # W(loc[p].slot, g)
    BY <2>4 DEF W
  <2>7. \A n \in Nodes : n # loc[p].slot => word'[n] = word[n] /\ val'[n] = val[n]
    BY <1>3, <2>1
  <2>8. KeepStep(c, p)
    BY <1>2, <1>3, <2>1, <2>2, <2>5, <2>6, <2>7 DEF KeepStep, OthersStay, Numbered
  <2> QED BY <1>2, <1>3, <2>1, <2>2, <2>8, OwnStepInv DEF OwnStep
<1>5. CASE EndStore(p)
  <2>1. /\ pc[p] = "endStore" /\ pc'[p] = "endLo" /\ OthersStay(p) /\ loc'[p] = loc[p]
        /\ idCntr' = idCntr /\ word' = [word EXCEPT ![loc[p].slot].hi = loc[p].gen]
    BY <1>1, <1>5, Moved DEF EndStore, At
  <2>3. word[loc[p].slot] = W(loc[p].slot, 0)
    BY <1>1, <2>1 DEF Filled
  <2>4. word'[loc[p].slot] = W(loc[p].slot, loc[p].gen)
    BY <1>2, <1>3, <2>1, <2>3 DEF W
  <2>5. Filled(p)' /\ Swings(p)' /\ Fronts(p)'
    BY <2>1, <2>4
       DEF Filled, Swings, Fronts, Numbered, Informed, Heading, Helping, FifoLabels, FrontLabels
  <2>6. \A g \in Nat : word'[loc[p].slot] = W(loc[p].slot, g) => loc[p].gen = g
    BY <2>4 DEF W
  <2>7. \A n \in Nodes : n # loc[p].slot => word'[n] = word[n] /\ val'[n] = val[n]
    BY <1>3, <2>1
  <2>8. KeepStep(c, p)
    BY <1>2, <1>3, <2>1, <2>5, <2>6, <2>7 DEF KeepStep, OthersStay, Numbered
  <2> QED BY <1>2, <1>3, <2>1, <2>8, OwnStepInv DEF OwnStep
<1> QED BY <1>4, <1>5

\* add_end, what it reads: the two halves of the tail, and the node there.
LEMMA EndLook ==
  ASSUME ListInv, ListInv', NEW c, ChainInv(c), NEW p \in Procs,
         EndLo(p) \/ EndHi(p) \/ EndTest(p) \/ HelpLo(p) \/ HelpHi(p)
  PROVE  ChainInv(c)'
<1>1. TypeOK /\ loc[p] \in Locals /\ Filled(p) /\ Swings(p) /\ loc[p].list \in Lists
  BY Knows
<1> USE DEF HoldsNode, HoldLabels, Informed, Helping
<1>2. tail[loc[p].list].lo \in Nodes /\ tail[loc[p].list] \in Word
  BY <1>1, TailPlace DEF ChainInv
<1>3. UNCHANGED memVars /\ UNCHANGED <<word, val, head, tail, idCntr, dataAlloc>>
  BY DEF EndLo, EndHi, EndTest, HelpLo, HelpHi, memVars
<1>g. Generations(c)
  BY DEF ChainInv
<1>4. ASSUME OthersStay(p), pc[p] \in Numbered \ {"endStore"}, pc'[p] \in Numbered \ {"endStore"},
             loc'[p].slot = loc[p].slot, loc'[p].gen = loc[p].gen, Swings(p)',
             loc'[p].list = loc[p].list,
             \A g \in Nat : pc'[p] \in Informed /\ loc'[p].before.hi = g => Known(c, loc[p].list, g)
      PROVE  ChainInv(c)'
  <2>1. Filled(p)'
    BY <1>1, <1>3, <1>4 DEF Filled, Numbered
  <2>2. Fronts(p)'
    BY <1>4 DEF Fronts, Numbered, Heading, FifoLabels, FrontLabels
  <2> QED BY <1>3, <1>4, <2>1, <2>2, QuietStepInv DEF QuietStep, Numbered
<1>5. CASE EndLo(p)
  <2>1. /\ pc[p] = "endLo" /\ pc'[p] = "endHi" /\ OthersStay(p)
        /\ loc'[p] = [loc[p] EXCEPT !.before.lo = tail[loc[p].list].lo]
    BY <1>1, <1>5, Moved DEF EndLo, At
  <2>2. /\ loc'[p].slot = loc[p].slot /\ loc'[p].gen = loc[p].gen /\ loc'[p].list = loc[p].list
        /\ loc'[p].before.lo = tail[loc[p].list].lo
    BY <1>1, <2>1 DEF Locals, Word
  <2>3. Swings(p)'
    BY <1>2, <2>1, <2>2 DEF Swings
  <2> QED BY <1>4, <2>1, <2>2, <2>3 DEF Numbered
<1>6. CASE EndHi(p)
  <2>1. /\ pc[p] = "endHi" /\ pc'[p] = "endTest" /\ OthersStay(p)
        /\ loc'[p] = [loc[p] EXCEPT !.before.hi = tail[loc[p].list].hi]
    BY <1>1, <1>6, Moved DEF EndHi, At
  <2>2. /\ loc'[p].slot = loc[p].slot /\ loc'[p].gen = loc[p].gen /\ loc'[p].list = loc[p].list
        /\ loc'[p].before.lo = loc[p].before.lo /\ loc'[p].before.hi = tail[loc[p].list].hi
    BY <1>1, <2>1 DEF Locals, Word
  <2>3. Swings(p)'
    BY <1>1, <2>1, <2>2 DEF Swings
  <2>4. \A g \in Nat : loc'[p].before.hi = g => Known(c, loc[p].list, g)
    BY <1>g, <1>1, <2>2 DEF Generations
  <2> QED BY <1>4, <2>1, <2>2, <2>3, <2>4 DEF Numbered
<1>7. ASSUME pc[p] \in Informed
      PROVE  \A g \in Nat : loc[p].before.hi = g => Known(c, loc[p].list, g)
  BY <1>7, <1>g, <1>1 DEF Generations
<1>8. CASE EndTest(p)
  <2>1. pc[p] = "endTest" /\ loc[p].before.lo \in Nodes /\ loc[p].before.lo # Null
    BY <1>1, <1>8, SizesAssumption DEF EndTest, At, Swings, Nodes, Null
  <2>2. /\ pc'[p] = IF word[loc[p].before.lo].lo = loc[p].before.lo THEN "endLink" ELSE "helpLo"
        /\ OthersStay(p) /\ loc'[p] = loc[p]
    <3> DEFINE label == IF word[loc[p].before.lo].lo = loc[p].before.lo THEN "endLink" ELSE "helpLo"
    <3>1. Goto(p, label) /\ UNCHANGED loc
      BY <1>8, <2>1 DEF EndTest
    <3> HIDE DEF label
    <3>2. pc'[p] = label /\ OthersStay(p) /\ loc'[p] = loc[p]
      BY <1>1, <3>1, Moved
    <3> QED BY <3>2 DEF label
  <2>3. Swings(p)'
    BY <1>3, <2>1, <2>2 DEF Swings, Linked
  <2> QED BY <1>4, <1>7, <2>1, <2>2, <2>3 DEF Numbered
<1>9. CASE HelpLo(p)
  <2>1. /\ pc[p] = "helpLo" /\ pc'[p] = "helpHi" /\ OthersStay(p)
        /\ loc'[p] = [loc[p] EXCEPT !.after.lo = word[loc[p].before.lo].lo]
    BY <1>1, <1>9, Moved DEF HelpLo, At
  <2>2. /\ loc'[p].slot = loc[p].slot /\ loc'[p].gen = loc[p].gen /\ loc'[p].list = loc[p].list
        /\ loc'[p].before = loc[p].before /\ loc'[p].after.lo = word[loc[p].before.lo].lo
    BY <1>1, <2>1 DEF Locals, Word
  <2>3. Swings(p)'
    BY <1>1, <1>3, <2>1, <2>2 DEF Swings
  <2> QED BY <1>4, <1>7, <2>1, <2>2, <2>3 DEF Numbered
<1>10. CASE HelpHi(p)
  <2>1. /\ pc[p] = "helpHi" /\ pc'[p] = "helpSwing" /\ OthersStay(p)
        /\ loc'[p] = [loc[p] EXCEPT !.after.hi = word[loc[p].before.lo].hi]
    BY <1>1, <1>10, Moved DEF HelpHi, At
  <2>2. /\ loc'[p].slot = loc[p].slot /\ loc'[p].gen = loc[p].gen /\ loc'[p].list = loc[p].list
        /\ loc'[p].before = loc[p].before
        /\ loc'[p].after = [lo |-> loc[p].after.lo, hi |-> word[loc[p].before.lo].hi]
    BY <1>1, <2>1 DEF Locals, Word
  <2>3. loc[p].before.lo \in Nodes /\ word[loc[p].before.lo] \in Word
    BY <1>1, <2>1 DEF Swings, TypeOK
  <2>4. Swings(p)'
    BY <1>1, <1>3, <2>1, <2>2, <2>3 DEF Swings, Word
  <2> QED BY <1>4, <1>7, <2>1, <2>2, <2>4 DEF Numbered
<1> QED BY <1>5, <1>6, <1>8, <1>9, <1>10

-----------------------------------------------------------------------------
(* Moving the tail on.                                                     *)

\* The tail behind: what it is swung to is the last node with its generation.
LEMMA SwingTarget ==
  ASSUME ListInv, NEW c, ChainInv(c), NEW p \in Procs, NEW l \in Lists, l = loc[p].list,
         pc[p] \in {"endSwing", "helpSwing"}, tail[l] = loc[p].before
  PROVE  /\ Lags(c, l) /\ tail[l].lo # Last(c[l])
         /\ word[loc[p].before.lo] = word[Last(c[l])]
         /\ word[Last(c[l])].lo = Last(c[l])
         /\ pc[p] = "endSwing" => Linked(p) = word[Last(c[l])]
         /\ pc[p] = "helpSwing" => loc[p].after = word[Last(c[l])]
<1>1. Swings(p) /\ c \in [Lists -> Seq(Nodes)] /\ (\A k \in Lists : Linking(c[k], k)) /\ Tails(c)
  BY DEF ChainInv
<1>2. word[loc[p].before.lo].lo # loc[p].before.lo
  BY <1>1 DEF Swings, Helping
<1>3. word[Last(c[l])].lo = Last(c[l])
  BY <1>1 DEF Linking
<1>4. tail[l].lo # Last(c[l])
  BY <1>2, <1>3
<1>5. Lags(c, l)
  BY <1>1, <1>4, TailPlace
<1>6. word[loc[p].before.lo] = word[Last(c[l])]
  BY <1>5 DEF Lags
<1> QED BY <1>1, <1>3, <1>4, <1>5, <1>6 DEF Swings

\* The CAS on the tail succeeds: the tail is the last node again.
LEMMA SwingStep ==
  ASSUME ListInv, ListInv', NEW c, ChainInv(c), NEW p \in Procs, NEW l \in Lists, l = loc[p].list,
         tail[l] = loc[p].before,
         tail' = [tail EXCEPT ![l] = word[Last(c[l])]],
         UNCHANGED <<word, val, head, idCntr, dataAlloc>>, OthersStay(p), loc'[p] = loc[p],
         \/ pc[p] = "endSwing" /\ pc'[p] \in {"incCount", "decCount"}
         \/ pc[p] = "helpSwing" /\ pc'[p] = "endLo"
  PROVE  ChainInv(c)'
<1>t. /\ c \in [Lists -> Seq(Nodes)]
      /\ \A k \in Lists : Linking(c[k], k)
      /\ Separate(c) /\ Numbers /\ Generations(c) /\ Tails(c)
      /\ \A q \in Procs : Filled(q) /\ Swings(q) /\ Fronts(q)
  BY DEF ChainInv
<1>s. /\ Lags(c, l) /\ tail[l].lo # Last(c[l])
      /\ word[Last(c[l])].lo = Last(c[l])
  BY SwingTarget
<1>k. \A k \in Lists :
           /\ Len(c[k]) \in Nat /\ Len(c[k]) >= 1
           /\ \A i \in 1..Len(c[k]) : c[k][i] \in Nodes /\ OnChain(c[k], c[k][i])
           /\ Last(c[k]) = c[k][Len(c[k])] /\ Last(c[k]) \in Nodes /\ OnChain(c[k], Last(c[k]))
           /\ c[k][1] = head[k].lo /\ head[k].lo \in Nodes /\ OnChain(c[k], head[k].lo)
  BY <1>t, ChainNodes
<1>w. /\ tail \in [Lists -> Word] /\ tail'[l] = word[Last(c[l])]
      /\ \A k \in Lists : k # l => tail'[k] = tail[k]
      /\ word' = word /\ val' = val /\ head' = head /\ idCntr' = idCntr /\ dataAlloc' = dataAlloc
  BY DEF ListInv, TypeOK
<1>o. \A q \in Procs : loc'[q] = loc[q] /\ (q # p => pc'[q] = pc[q])
  BY DEF OthersStay
<1>q. \A q \in Procs : HoldsNode(q)' <=> HoldsNode(q)
  BY <1>o DEF HoldsNode, HoldLabels
<1>1. \A k \in Lists : Linking(c[k], k)'
  BY <1>t, <1>w DEF Linking
<1>2. Separate(c)'
  <2>1. \A n \in Nodes : n >= dataAlloc => word'[n] = Zero
    BY <1>t, <1>w DEF Separate
  <2>2. \A a, b \in Procs : HoldsNode(a)' /\ HoldsNode(b)' /\ loc'[a].slot = loc'[b].slot => a = b
    BY <1>q, <1>o, <1>t DEF Separate
  <2>3. \A a \in Procs : HoldsNode(a)' =>
           loc'[a].slot < dataAlloc /\ \A k \in Lists : ~OnChain(c[k], loc'[a].slot)
    BY <1>q, <1>o, <1>t DEF Separate
  <2>4. \A n \in Nodes : n < dataAlloc =>
          \/ \E k \in Lists : OnChain(c[k], n)
          \/ \E a \in Procs : HoldsNode(a)' /\ loc'[a].slot = n
    BY <1>q, <1>o, <1>t, SMTT(30) DEF Separate
  <2>5. /\ \A n \in Nodes : ~OnChain(c["queue"], n) \/ ~OnChain(c["free"], n)
        /\ \A k \in Lists, n \in Nodes : OnChain(c[k], n) => n < dataAlloc
    BY <1>t DEF Separate
  <2> QED BY <2>1, <2>2, <2>3, <2>4, <2>5, <1>w DEF Separate, OnChain
<1>3. \A q \in Procs : Filled(q)'
  BY <1>t, <1>w, <1>o DEF Filled, Numbered
<1>n. \A q \in Procs : pc'[q] \in Numbered => pc[q] \in Numbered
  BY <1>o DEF Numbered
<1>4. Numbers'
  BY <1>t, <1>w, <1>o, <1>n DEF Numbers
<1>i. ASSUME NEW k \in Lists, NEW g \in Nat, Issued(c, k, g) PROVE Issued(c, k, g)'
  BY <1>i, <1>w, <1>o, <1>n DEF Issued
<1>p. ASSUME NEW k \in Lists, NEW g \in Nat, Known(c, k, g) PROVE Known(c, k, g)'
  <2>1. Issued(c, k, g)'
    BY <1>p, <1>i DEF Known
  <2>2. Passed(c, k, g)'
    BY <1>p, <1>w, <1>s DEF Known, Passed
  <2> QED BY <2>1, <2>2 DEF Known
<1>5. Generations(c)'
  <2>1. ASSUME NEW k \in Lists, NEW g \in Nat, word'[Last(c[k])].hi = g PROVE Issued(c, k, g)'
    BY <2>1, <1>w, <1>t, <1>i DEF Generations
  <2>2. ASSUME NEW k \in Lists, NEW g \in Nat, tail'[k].hi = g PROVE Known(c, k, g)'
    <3>1. CASE k # l
      BY <3>1, <2>2, <1>w, <1>t, <1>p DEF Generations
    <3>2. CASE k = l
      <4>1. Issued(c, k, g)'
        BY <3>2, <2>1, <2>2, <1>w
      <4>2. Passed(c, k, g)'
        BY <3>2, <1>s, <1>w DEF Passed
      <4> QED BY <4>1, <4>2 DEF Known
    <3> QED BY <3>1, <3>2
  <2>3. ASSUME NEW q \in Procs, NEW k \in Lists, NEW g \in Nat,
               pc'[q] \in Informed, loc'[q].list = k, loc'[q].before.hi = g
        PROVE  Known(c, k, g)'
    <3>1. pc[q] \in Informed /\ loc[q].list = k /\ loc[q].before.hi = g
      BY <2>3, <1>o DEF Informed
    <3> QED BY <3>1, <1>t, <1>p DEF Generations
  <2> QED BY <2>1, <2>2, <2>3 DEF Generations
<1>6. Tails(c)'
  <2> SUFFICES ASSUME NEW k \in Lists, tail'[k] # word'[Last(c[k])] PROVE Lags(c, k)'
    BY DEF Tails
  <2>1. k # l /\ Lags(c, k)
    BY <1>w, <1>t DEF Tails
  <2>2. PICK q \in Procs : pc[q] = "endSwing" /\ loc[q].list = k /\ loc[q].before = tail[k]
    BY <2>1 DEF Lags
  <2>3. pc'[q] = "endSwing" /\ loc'[q].list = k /\ loc'[q].before = tail'[k]
    BY <2>1, <2>2, <1>o, <1>w
  <2> QED BY <2>1, <2>3, <1>w DEF Lags
<1>7. \A q \in Procs : Swings(q)'
  <2> SUFFICES ASSUME NEW q \in Procs PROVE Swings(q)'
    OBVIOUS
  <2>1. loc'[q] = loc[q] /\ Linked(q)' = Linked(q) /\ loc[q].list \in Lists /\ loc[q] \in Locals
    BY <1>o DEF Linked, ListInv, TypeOK, Locals
  <2>2. CASE loc[q].list # l
    <3>1. q # p /\ pc'[q] = pc[q] /\ tail'[loc[q].list] = tail[loc[q].list]
      BY <2>1, <2>2, <1>o, <1>w
    <3>2. /\ tail'[loc'[q].list] = tail[loc[q].list]
          /\ word'[loc'[q].before.lo] = word[loc[q].before.lo]
      BY <3>1, <2>1, <1>w
    <3>3. Swings(q)
      BY <1>t
    <3> QED BY <3>1, <3>2, <3>3, <2>1 DEF Swings
  <2>3. CASE loc[q].list = l
    <3>1. pc'[q] \in Informed \cup {"endHi"} => pc[q] = pc'[q]
      BY <1>o DEF Informed
    <3>2. pc'[q] \in Informed \cup {"endHi"} => loc'[q].before.lo \in Nodes
      BY <3>1, <2>1, <1>t DEF Swings
    <3>3. ASSUME pc'[q] \in Helping \cup {"endSwing"} PROVE tail'[l] # loc[q].before
      <4>1. pc[q] \in Informed
        BY <3>1, <3>3 DEF Helping, Informed
      <4>2. loc[q].before.hi \in Nat
        BY <2>1 DEF Locals, Word
      <4>3. Passed(c, l, loc[q].before.hi)
        BY <4>1, <4>2, <2>3, <1>t DEF Generations, Known
      <4>4. word[Last(c[l])].hi # loc[q].before.hi
        BY <4>3, <1>s DEF Passed
      <4> QED BY <4>4, <1>w
    <3> QED BY <3>2, <3>3, <2>1, <2>3 DEF Swings, Helping
  <2> QED BY <2>2, <2>3
<1>8. \A q \in Procs : Fronts(q)'
  <2> SUFFICES ASSUME NEW q \in Procs PROVE Fronts(q)'
    OBVIOUS
  <2>1. CASE q = p
    BY <2>1 DEF Fronts, Heading, FifoLabels, FrontLabels
  <2>2. CASE q # p
    <3>1. pc'[q] = pc[q] /\ loc'[q] = loc[q] /\ loc[q].list \in Lists
      BY <2>2, <1>o DEF ListInv, TypeOK, Locals
    <3>2. head[loc[q].list] = W(loc[q].ref, loc[q].refGen) =>
            tail'[loc[q].list].lo # loc[q].ref \/ tail'[loc[q].list] = tail[loc[q].list]
      <4> SUFFICES ASSUME loc[q].list = l, head[l].lo = loc[q].ref PROVE tail'[l].lo # loc[q].ref
        BY <1>w, <3>1 DEF W
      <4>1. Len(c[l]) >= 2 /\ Len(c[l]) \in Nat
        BY <1>s, <1>k DEF Lags
      <4>2. 1 \in 1..Len(c[l]) /\ Len(c[l]) \in 1..Len(c[l])
        BY <4>1
      <4>3. c[l][1] # c[l][Len(c[l])]
        <5>1. \A n \in Nat : n >= 2 => n # 1
          OBVIOUS
        <5>2. Len(c[l]) # 1
          BY <4>1, <5>1
        <5>3. \A i, j \in 1..Len(c[l]) : c[l][i] = c[l][j] => i = j
          BY <1>t DEF Linking
        <5> QED BY <4>2, <5>2, <5>3
      <4> QED BY <4>3, <1>k, <1>w, <1>s
    <3> QED BY <3>1, <3>2, <1>w, <1>t DEF Fronts
  <2> QED BY <2>1, <2>2
<1> QED BY <1>t, <1>1, <1>2, <1>3, <1>4, <1>5, <1>6, <1>7, <1>8 DEF ChainInv

\* add_end swings the tail, its own or another's, or finds that it has moved.
LEMMA SwingChains ==
  ASSUME ListInv, ListInv', NEW c, ChainInv(c), NEW p \in Procs, EndSwing(p) \/ HelpSwing(p)
  PROVE  ChainInv(c)'
<1>1. TypeOK /\ loc[p] \in Locals /\ loc[p].list \in Lists /\ Filled(p)
  BY Knows
<1>2. /\ UNCHANGED <<word, val, head, idCntr, dataAlloc>> /\ OthersStay(p) /\ loc'[p] = loc[p]
      /\ \/ pc[p] = "endSwing" /\ pc'[p] \in {"incCount", "decCount"}
         \/ pc[p] = "helpSwing" /\ pc'[p] = "endLo"
  <2>1. CASE EndSwing(p)
    BY <1>1, <2>1, Moved DEF EndSwing, At
  <2>2. CASE HelpSwing(p)
    BY <1>1, <2>2, Moved DEF HelpSwing, At
  <2> QED BY <2>1, <2>2
<1>3. CASE tail[loc[p].list] = loc[p].before
  <2>1. tail' = [tail EXCEPT ![loc[p].list] = word[Last(c[loc[p].list])]]
    <3>1. CASE pc[p] = "endSwing"
      <4>1. EndSwing(p)
        BY <3>1 DEF HelpSwing, At
      <4> QED BY <1>1, <1>3, <3>1, <4>1, SwingTarget DEF EndSwing, SwingTail
    <3>2. CASE pc[p] = "helpSwing"
      <4>1. HelpSwing(p)
        BY <3>2 DEF EndSwing, At
      <4> QED BY <1>1, <1>3, <3>2, <4>1, SwingTarget DEF HelpSwing, SwingTail
    <3> QED BY <1>2, <3>1, <3>2
  <2> QED BY <1>1, <1>2, <1>3, <2>1, SwingStep
<1>4. CASE tail[loc[p].list] # loc[p].before
  <2>1. UNCHANGED memVars
    BY <1>2, <1>4 DEF EndSwing, HelpSwing, SwingTail, memVars
  <2>2. CASE pc[p] = "endSwing"
    BY <1>2, <1>4, <2>1, <2>2, AwayStep DEF Away, HoldsNode, HoldLabels
  <2>3. CASE pc[p] = "helpSwing"
    <3>1. pc'[p] = "endLo"
      BY <1>2, <2>3
    <3>2. Filled(p)' /\ Swings(p)' /\ Fronts(p)'
      BY <1>1, <1>2, <2>1, <2>3, <3>1 DEF memVars,
         Filled, Swings, Fronts, Numbered, Informed, Heading, Helping, FifoLabels, FrontLabels
    <3> QED BY <1>2, <2>1, <2>3, <3>1, <3>2, QuietStepInv
            DEF QuietStep, HoldsNode, HoldLabels, Numbered, Informed
  <2> QED BY <1>2, <2>2, <2>3
<1> QED BY <1>3, <1>4

-----------------------------------------------------------------------------
(* Taking the first node.                                                  *)

\* A chain without its first node.
LEMMA Shorter ==
  ASSUME NEW s \in Seq(Nodes), Len(s) >= 2, \A i, j \in 1..Len(s) : s[i] = s[j] => i = j
  PROVE  /\ Tail(s) \in Seq(Nodes) /\ Len(Tail(s)) = Len(s) - 1 /\ Len(Tail(s)) >= 1
         /\ \A i \in 1..Len(Tail(s)) : Tail(s)[i] = s[i + 1] /\ i + 1 \in 1..Len(s)
         /\ Last(Tail(s)) = Last(s)
         /\ \A n \in Nodes : OnChain(Tail(s), n) <=> OnChain(s, n) /\ n # s[1]
         /\ \A i, j \in 1..Len(Tail(s)) : Tail(s)[i] = Tail(s)[j] => i = j
<1> DEFINE t == Tail(s)
<1>0. Len(s) \in Nat /\ s # <<>>
  OBVIOUS
<1>1. t \in Seq(Nodes) /\ Len(t) = Len(s) - 1 /\ Len(t) \in Nat /\ Len(t) >= 1
  <2>1. Tail(s) \in Seq(Nodes) /\ Len(Tail(s)) = Len(s) - 1
    BY <1>0, HeadTailProperties
  <2> QED BY <2>1, <1>0
<1>2. \A i \in 1..Len(t) : t[i] = s[i + 1] /\ i + 1 \in 1..Len(s)
  BY <1>0, <1>1, HeadTailProperties
<1>3. t[Len(t)] = s[Len(s)]
  <2>1. Len(t) \in 1..Len(t) /\ Len(t) + 1 = Len(s)
    BY <1>0, <1>1
  <2> QED BY <1>2, <2>1
<1> HIDE DEF t
<1>4. ASSUME NEW i \in 1..Len(t), NEW j \in 1..Len(t), t[i] = t[j] PROVE i = j
  <2>1. i + 1 = j + 1
    BY <1>2, <1>4
  <2> QED BY <2>1, <1>1
<1>5. ASSUME NEW n \in Nodes, OnChain(t, n) PROVE OnChain(s, n) /\ n # s[1]
  <2>1. PICK i \in 1..Len(t) : t[i] = n
    BY <1>5 DEF OnChain
  <2>2. i + 1 \in 1..Len(s) /\ s[i + 1] = n /\ 1 \in 1..Len(s) /\ i + 1 # 1
    BY <2>1, <1>0, <1>1, <1>2
  <2> QED BY <2>2 DEF OnChain
<1>6. ASSUME NEW n \in Nodes, OnChain(s, n), n # s[1] PROVE OnChain(t, n)
  <2>1. PICK i \in 1..Len(s) : s[i] = n
    BY <1>6 DEF OnChain
  <2>2. i - 1 \in 1..Len(t) /\ (i - 1) + 1 = i
    BY <2>1, <1>0, <1>1, <1>6
  <2>3. t[i - 1] = n
    BY <2>1, <2>2, <1>2
  <2> QED BY <2>2, <2>3 DEF OnChain
<1> QED BY <1>1, <1>2, <1>3, <1>4, <1>5, <1>6 DEF Last, t

\* The head that remove_front expects is the first of at least two nodes, the tail behind it.
LEMMA FrontTaken ==
  ASSUME ListInv, NEW c, ChainInv(c), NEW p \in Procs, NEW l \in Lists, l = loc[p].list,
         pc[p] = "frontCas", HeadUnchanged(p)
  PROVE  /\ Len(c[l]) >= 2 /\ tail[l].lo # c[l][1]
         /\ loc[p].ref = c[l][1] /\ loc[p].next = c[l][2]
         /\ Tail(c[l]) \in Seq(Nodes)
<1>1. /\ Fronts(p) /\ c \in [Lists -> Seq(Nodes)] /\ \A k \in Lists : Linking(c[k], k)
      /\ Tails(c)
  BY DEF ChainInv
<1>2. loc[p].ref = c[l][1] /\ head[l] = W(loc[p].ref, loc[p].refGen)
  BY <1>1 DEF HeadUnchanged, W, Linking
<1>3. tail[l].lo # loc[p].ref /\ loc[p].next = word[loc[p].ref].lo
  BY <1>1, <1>2 DEF Fronts
<1>4. Len(c[l]) >= 2
  <2>1. Len(c[l]) \in Nat /\ Len(c[l]) >= 1 /\ Last(c[l]) = c[l][Len(c[l])]
    BY <1>1, ChainNodes
  <2>2. SUFFICES ASSUME Len(c[l]) <= 1 PROVE FALSE
    BY <2>1
  <2>3. \A n \in Nat : n >= 1 /\ n <= 1 => n = 1
    OBVIOUS
  <2>4. Len(c[l]) = 1
    BY <2>1, <2>2, <2>3, Zenon
  <2>5. Last(c[l]) = c[l][1]
    BY <2>1, <2>4, Zenon
  <2>6. ~Lags(c, l)
    BY <2>1, <2>2 DEF Lags
  <2> QED BY <2>5, <2>6, <1>1, <1>2, <1>3, TailPlace
<1>5. loc[p].next = c[l][2]
  <2>1. word[head[l].lo].lo = c[l][2]
    BY <1>1, <1>4, HeadNext
  <2> QED BY <2>1, <1>2, <1>3 DEF W
<1>6. Tail(c[l]) \in Seq(Nodes)
  BY <1>1, <1>4, Shorter DEF Linking
<1> QED BY <1>2, <1>3, <1>4, <1>5, <1>6

\* The CAS on the head succeeds: the first node is the process's.
LEMMA FrontCasChains ==
  ASSUME ListInv, ListInv', NEW c, ChainInv(c), NEW p \in Procs, FrontCas(p), HeadUnchanged(p),
         NEW d, d = [c EXCEPT ![loc[p].list] = Tail(c[loc[p].list])]
  PROVE  ChainInv(d)'
<1> DEFINE l == loc[p].list
           s == c[l]
<1>t. /\ c \in [Lists -> Seq(Nodes)]
      /\ \A k \in Lists : Linking(c[k], k)
      /\ Separate(c) /\ Numbers /\ Generations(c) /\ Tails(c)
      /\ \A q \in Procs : Filled(q) /\ Swings(q) /\ Fronts(q)
  BY DEF ChainInv
<1>1. TypeOK /\ loc[p] \in Locals /\ l \in Lists /\ loc[p].refGen \in Nat
  BY Knows DEF Locals
<1>2. pc[p] = "frontCas" /\ ~HoldsNode(p)
  BY DEF FrontCas, At, HoldsNode, HoldLabels
<1>3. /\ Len(s) >= 2 /\ tail[l].lo # s[1] /\ loc[p].ref = s[1] /\ loc[p].next = s[2]
  BY <1>1, <1>2, FrontTaken
<1>4. /\ pc'[p] = "frontZero" /\ OthersStay(p) /\ loc'[p] = [loc[p] EXCEPT !.slot = loc[p].ref]
      /\ head' = [head EXCEPT ![l] = W(loc[p].next, loc[p].refGen + 1)]
      /\ word' = word /\ val' = val /\ tail' = tail /\ idCntr' = idCntr /\ dataAlloc' = dataAlloc
  BY <1>1, Moved DEF FrontCas
<1>5. loc'[p].slot = s[1] /\ loc'[p].list = l
  BY <1>1, <1>3, <1>4 DEF Locals
<1>k. \A k \in Lists :
           /\ Len(c[k]) \in Nat /\ Len(c[k]) >= 1
           /\ \A i \in 1..Len(c[k]) : c[k][i] \in Nodes /\ OnChain(c[k], c[k][i])
           /\ Last(c[k]) = c[k][Len(c[k])] /\ Last(c[k]) \in Nodes /\ OnChain(c[k], Last(c[k]))
           /\ c[k][1] = head[k].lo /\ head[k].lo \in Nodes /\ OnChain(c[k], head[k].lo)
  BY <1>t, ChainNodes
<1>6. /\ s \in Seq(Nodes) /\ (\A i, j \in 1..Len(s) : s[i] = s[j] => i = j)
      /\ s[1] \in Nodes /\ OnChain(s, s[1])
      /\ \A i \in 1..(Len(s) - 1) : word[s[i]].lo = s[i + 1]
      /\ word[Last(s)].lo = Last(s) /\ Len(s) \in Nat
  BY <1>t, <1>1, <1>k DEF Linking
<1>7. /\ Tail(s) \in Seq(Nodes) /\ Len(Tail(s)) = Len(s) - 1 /\ Len(Tail(s)) >= 1
      /\ \A i \in 1..Len(Tail(s)) : Tail(s)[i] = s[i + 1] /\ i + 1 \in 1..Len(s)
      /\ Last(Tail(s)) = Last(s)
      /\ \A n \in Nodes : OnChain(Tail(s), n) <=> OnChain(s, n) /\ n # s[1]
      /\ \A i, j \in 1..Len(Tail(s)) : Tail(s)[i] = Tail(s)[j] => i = j
  <2> HIDE DEF s
  <2> QED BY <1>3, <1>6, Shorter
<1>d. /\ d \in [Lists -> Seq(Nodes)] /\ d[l] = Tail(s)
      /\ \A k \in Lists : k # l => d[k] = c[k]
      /\ \A k \in Lists : Last(d[k]) = Last(c[k])
      /\ \A k \in Lists, n \in Nodes : OnChain(d[k], n) <=> OnChain(c[k], n) /\ (k = l => n # s[1])
  <2>1. /\ d \in [Lists -> Seq(Nodes)] /\ d[l] = Tail(s)
        /\ \A k \in Lists : k # l => d[k] = c[k]
    BY <1>t, <1>1, <1>7
  <2> QED BY <2>1, <1>7
<1> HIDE DEF s
<1>8. \A k \in Lists : Linking(d[k], k)'
  <2> SUFFICES ASSUME NEW k \in Lists PROVE Linking(d[k], k)'
    OBVIOUS
  <2>1. CASE k # l
    <3>1. head'[k] = head[k] /\ d[k] = c[k]
      BY <2>1, <1>1, <1>4, <1>d, SMTT(30) DEF TypeOK
    <3> QED BY <3>1, <1>4, <1>t DEF Linking
  <2>2. CASE k = l
    <3>1. head'[l].lo = Tail(s)[1]
      <4>1. 1 \in 1..Len(Tail(s)) /\ 1 + 1 = 2
        BY <1>6, <1>7
      <4>2. Tail(s)[1] = s[2]
        BY <4>1, <1>7
      <4> QED BY <4>2, <1>1, <1>3, <1>4 DEF TypeOK, W
    <3>2. ASSUME NEW i \in 1..(Len(Tail(s)) - 1) PROVE word'[Tail(s)[i]].lo = Tail(s)[i + 1]
      <4>1. i \in 1..Len(Tail(s)) /\ i + 1 \in 1..Len(Tail(s)) /\ i + 1 \in 1..(Len(s) - 1)
        BY <1>6, <1>7
      <4>2. Tail(s)[i] = s[i + 1] /\ Tail(s)[i + 1] = s[i + 1 + 1]
        BY <4>1, <1>7
      <4> QED BY <4>1, <4>2, <1>6, <1>4
    <3>3. d[k] = Tail(s) /\ Last(d[k]) = Last(s)
      BY <2>2, <1>d, <1>7
    <3>4. d[k] \in Seq(Nodes) /\ Len(d[k]) >= 1 /\ d[k][1] = head'[k].lo
      BY <3>1, <3>3, <2>2, <1>7
    <3>5. ASSUME NEW i \in 1..Len(d[k]), NEW j \in 1..Len(d[k]), d[k][i] = d[k][j] PROVE i = j
      <4>1. i \in 1..Len(Tail(s)) /\ j \in 1..Len(Tail(s)) /\ Tail(s)[i] = Tail(s)[j]
        BY <3>3, <3>5
      <4> QED BY <4>1, <1>7
    <3>6. \A i \in 1..(Len(d[k]) - 1) : word'[d[k][i]].lo = d[k][i + 1]
      BY <3>2, <3>3, Zenon
    <3>7. word'[Last(d[k])].lo = Last(d[k])
      BY <3>3, <1>6, <1>4, Zenon
    <3> QED BY <3>4, <3>5, <3>6, <3>7 DEF Linking
  <2> QED BY <2>1, <2>2
<1>o. \A q \in Procs : q # p => pc'[q] = pc[q] /\ loc'[q] = loc[q]
  BY <1>4 DEF OthersStay
<1>q. HoldsNode(p)' /\ \A q \in Procs : q # p => (HoldsNode(q)' <=> HoldsNode(q))
  BY <1>4, <1>o DEF HoldsNode, HoldLabels
<1>r. \A q \in Procs : HoldsNode(q) => loc[q].slot \in Nodes /\ loc[q].slot # s[1]
  <2>1. \A q \in Procs : HoldsNode(q) => loc[q].slot \in Nodes
    BY DEF ListInv, LocalsOK, RefersToNodes, UsesSlot, HoldsNode
  <2> QED BY <2>1, <1>6, <1>t, <1>1 DEF Separate, s
<1>9. Separate(d)'
  <2>1. \A n \in Nodes : n >= dataAlloc => word'[n] = Zero
    BY <1>t, <1>4 DEF Separate
  <2>2. \A a, b \in Procs : HoldsNode(a)' /\ HoldsNode(b)' /\ loc'[a].slot = loc'[b].slot => a = b
    BY <1>q, <1>o, <1>r, <1>5, <1>t DEF Separate
  <2>3. ASSUME NEW q \in Procs, HoldsNode(q)'
        PROVE  loc'[q].slot < dataAlloc /\ \A k \in Lists : ~OnChain(d[k], loc'[q].slot)
    <3>1. CASE q = p
      <4>1. s[1] < dataAlloc
        BY <1>6, <1>t, <1>1 DEF Separate, s
      <4>2. \A k \in Lists : ~OnChain(d[k], s[1])
        <5>1. \A k \in Lists : k # l => ~OnChain(c[k], s[1])
          BY <1>6, <1>t, <1>1 DEF Separate, s, Lists
        <5> QED BY <5>1, <1>d, <1>6
      <4> QED BY <4>1, <4>2, <3>1, <1>5
    <3>2. CASE q # p
      BY <2>3, <3>2, <1>q, <1>o, <1>r, <1>d, <1>t DEF Separate
    <3> QED BY <3>1, <3>2
  <2>4. ASSUME NEW n \in Nodes, n < dataAlloc
        PROVE  \/ \E k \in Lists : OnChain(d[k], n)
               \/ \E q \in Procs : HoldsNode(q)' /\ loc'[q].slot = n
    <3>1. CASE n = s[1]
      BY <3>1, <1>5, <1>q
    <3>2. CASE n # s[1]
      <4>1. CASE \E k \in Lists : OnChain(c[k], n)
        BY <3>2, <4>1, <1>d
      <4>2. CASE \E q \in Procs : HoldsNode(q) /\ loc[q].slot = n
        BY <4>2, <1>2, <1>q, <1>o
      <4> QED BY <4>1, <4>2, <2>4, <1>t DEF Separate
    <3> QED BY <3>1, <3>2
  <2>5. /\ \A n \in Nodes : ~OnChain(d["queue"], n) \/ ~OnChain(d["free"], n)
        /\ \A k \in Lists, n \in Nodes : OnChain(d[k], n) => n < dataAlloc
    BY <1>t, <1>d DEF Separate, Lists
  <2> QED BY <2>1, <2>2, <2>3, <2>4, <2>5, <1>4 DEF Separate, OnChain
<1>10. \A q \in Procs : Filled(q)'
  <2>1. Filled(p)'
    <3>1. word[s[1]].lo # s[1]
      <4>1. 1 \in 1..(Len(s) - 1) /\ 2 \in 1..Len(s) /\ 1 \in 1..Len(s) /\ 1 + 1 = 2 /\ 1 # 2
        BY <1>3, <1>6
      <4>2. word[s[1]].lo = s[2] /\ s[1] # s[2]
        BY <4>1, <1>6
      <4> QED BY <4>2
    <3> QED BY <3>1, <1>4, <1>5 DEF Filled, Numbered
  <2>2. ASSUME NEW q \in Procs, q # p PROVE Filled(q)'
    BY <2>2, <1>o, <1>4, <1>t DEF Filled
  <2> QED BY <2>1, <2>2
<1>n. \A q \in Procs : pc'[q] \in Numbered => pc[q] \in Numbered /\ loc'[q].gen = loc[q].gen
  BY <1>o, <1>4 DEF Numbered
<1>11. Numbers'
  BY <1>t, <1>4, <1>n DEF Numbers
<1>i. ASSUME NEW k \in Lists, NEW g \in Nat, Issued(c, k, g) PROVE Issued(d, k, g)'
  BY <1>i, <1>4, <1>n, <1>d DEF Issued
<1>p. ASSUME NEW k \in Lists, NEW g \in Nat, Known(c, k, g) PROVE Known(d, k, g)'
  <2>1. Issued(d, k, g)'
    BY <1>p, <1>i DEF Known
  <2>2. Passed(d, k, g)'
    BY <1>p, <1>4, <1>d DEF Known, Passed
  <2> QED BY <2>1, <2>2 DEF Known
<1>12. Generations(d)'
  <2>1. ASSUME NEW k \in Lists, NEW g \in Nat, word'[Last(d[k])].hi = g PROVE Issued(d, k, g)'
    BY <2>1, <1>4, <1>d, <1>t, <1>i DEF Generations
  <2>2. ASSUME NEW k \in Lists, NEW g \in Nat, tail'[k].hi = g PROVE Known(d, k, g)'
    BY <2>2, <1>4, <1>t, <1>p DEF Generations
  <2>3. ASSUME NEW q \in Procs, NEW k \in Lists, NEW g \in Nat,
               pc'[q] \in Informed, loc'[q].list = k, loc'[q].before.hi = g
        PROVE  Known(d, k, g)'
    <3>1. pc[q] \in Informed /\ loc[q].list = k /\ loc[q].before.hi = g
      BY <2>3, <1>4, <1>o DEF Informed
    <3> QED BY <3>1, <1>t, <1>p DEF Generations
  <2> QED BY <2>1, <2>2, <2>3 DEF Generations
<1>13. Tails(d)'
  <2> SUFFICES ASSUME NEW k \in Lists, tail'[k] # word'[Last(d[k])] PROVE Lags(d, k)'
    BY DEF Tails
  <2>1. Lags(c, k)
    BY <1>4, <1>d, <1>t DEF Tails
  <2>2. PICK q \in Procs : pc[q] = "endSwing" /\ loc[q].list = k /\ loc[q].before = tail[k]
    BY <2>1 DEF Lags
  <2>3. pc'[q] = "endSwing" /\ loc'[q].list = k /\ loc'[q].before = tail'[k]
    BY <2>2, <1>2, <1>o, <1>4
  <2>4. word'[tail'[k].lo] = word'[Last(d[k])]
    BY <2>1, <1>4, <1>d DEF Lags
  <2>5. Len(d[k]) >= 2 /\ tail'[k].lo = d[k][Len(d[k]) - 1]
    <3>1. CASE k # l
      BY <3>1, <2>1, <1>4, <1>d DEF Lags
    <3>2. CASE k = l
      <4>1. tail[l].lo = s[Len(s) - 1]
        BY <2>1, <3>2 DEF Lags, s
      <4>2. Len(s) >= 3
        <5>1. SUFFICES ASSUME Len(s) <= 2 PROVE FALSE
          BY <1>6
        <5>2. \A n \in Nat : n >= 2 /\ n <= 2 => n - 1 = 1
          OBVIOUS
        <5>3. Len(s) - 1 = 1
          BY <5>1, <5>2, <1>3, <1>6, Zenon
        <5>4. tail[l].lo = s[1]
          BY <4>1, <5>3, Zenon
        <5> QED BY <5>4, <1>3
      <4>3. /\ Len(Tail(s)) >= 2 /\ Len(Tail(s)) - 1 \in 1..Len(Tail(s))
            /\ (Len(Tail(s)) - 1) + 1 = Len(s) - 1
        BY <4>2, <1>6, <1>7
      <4>4. Tail(s)[Len(Tail(s)) - 1] = s[Len(s) - 1]
        BY <4>3, <1>7
      <4> QED BY <4>1, <4>3, <4>4, <3>2, <1>4, <1>d
    <3> QED BY <3>1, <3>2
  <2> QED BY <2>3, <2>4, <2>5 DEF Lags
<1>14. \A q \in Procs : Swings(q)'
  <2>1. Swings(p)'
    BY <1>4 DEF Swings, Informed, Helping
  <2>2. ASSUME NEW q \in Procs, q # p PROVE Swings(q)'
    <3>1. Linked(q)' = Linked(q)
      BY <2>2, <1>o DEF Linked
    <3> QED BY <2>2, <3>1, <1>o, <1>4, <1>t DEF Swings
  <2> QED BY <2>1, <2>2
<1>15. \A q \in Procs : Fronts(q)'
  <2>1. Fronts(p)'
    BY <1>4 DEF Fronts, Heading, FifoLabels, FrontLabels
  <2>2. ASSUME NEW q \in Procs, q # p PROVE Fronts(q)'
    <3>1. pc'[q] = pc[q] /\ loc'[q] = loc[q] /\ loc[q].list \in Lists /\ loc[q].refGen \in Nat
      BY <2>2, <1>o DEF ListInv, TypeOK, Locals
    <3>2. CASE loc[q].list # l
      <4>1. head'[loc[q].list] = head[loc[q].list]
        BY <3>1, <3>2, <1>1, <1>4 DEF TypeOK
      <4> QED BY <3>1, <4>1, <1>4, <1>t DEF Fronts
    <3>3. CASE loc[q].list = l
      <4>1. head[l].hi = loc[p].refGen /\ head'[l].hi = loc[p].refGen + 1
        BY <1>1, <1>4 DEF TypeOK, HeadUnchanged, W
      <4>2. pc[q] \in Heading => loc[q].refGen <= loc[p].refGen
        BY <4>1, <3>3, <1>t DEF Fronts
      <4>3. pc[q] \in Heading => loc[q].refGen <= head'[l].hi /\ head'[l].hi # loc[q].refGen
        BY <4>1, <4>2, <3>1, <1>1
      <4>4. pc[q] \in Heading => head'[l] # W(loc[q].ref, loc[q].refGen)
        BY <4>3 DEF W
      <4> QED BY <3>1, <3>3, <4>3, <4>4, <1>t DEF Fronts, Heading, FrontLabels
    <3> QED BY <3>2, <3>3
  <2> QED BY <2>1, <2>2
<1> QED BY <1>d, <1>8, <1>9, <1>10, <1>11, <1>12, <1>13, <1>14, <1>15 DEF ChainInv

-----------------------------------------------------------------------------
(* Linking a node at the end.                                              *)

(***************************************************************************)
(* A process is about to link behind the very node, still in generation 0, *)
(* that another has taken out of the pool meanwhile and is appending       *)
(* again.  Only the node that primes the pool is ever in generation 0.     *)
(***************************************************************************)
FreshAgain ==
    \E p, q \in Procs :
        /\ pc[p] = "endLink" /\ pc[q] = "endStore"
        /\ loc[p].before = W(loc[q].slot, 0)

\* A chain with one more node.
LEMMA Longer ==
  ASSUME NEW s \in Seq(Nodes), Len(s) >= 1, NEW n \in Nodes, ~OnChain(s, n),
         \A i, j \in 1..Len(s) : s[i] = s[j] => i = j
  PROVE  /\ Append(s, n) \in Seq(Nodes) /\ Len(Append(s, n)) = Len(s) + 1
         /\ \A i \in 1..Len(s) : Append(s, n)[i] = s[i] /\ i \in 1..Len(Append(s, n))
         /\ Append(s, n)[Len(s) + 1] = n /\ Last(Append(s, n)) = n
         /\ \A m \in Nodes : OnChain(Append(s, n), m) <=> OnChain(s, m) \/ m = n
         /\ \A i, j \in 1..Len(Append(s, n)) : Append(s, n)[i] = Append(s, n)[j] => i = j
<1> DEFINE t == Append(s, n)
<1>1. Len(s) \in Nat /\ t \in Seq(Nodes) /\ Len(t) = Len(s) + 1
  BY AppendProperties
<1>2. (\A i \in 1..Len(s) : t[i] = s[i]) /\ t[Len(s) + 1] = n
  BY AppendProperties
<1> HIDE DEF t
<1>3. \A i \in 1..Len(t) : i \in 1..Len(s) \/ i = Len(s) + 1
  BY <1>1
<1>4. \A i \in 1..Len(s) : i \in 1..Len(t) /\ s[i] # n
  BY <1>1 DEF OnChain
<1>5. Last(t) = n
  BY <1>1, <1>2 DEF Last
<1>6. \A m \in Nodes : OnChain(t, m) <=> OnChain(s, m) \/ m = n
  <2>1. Len(s) + 1 \in 1..Len(t)
    BY <1>1
  <2> QED BY <1>2, <1>3, <1>4, <2>1 DEF OnChain
<1>7. ASSUME NEW i \in 1..Len(t), NEW j \in 1..Len(t), t[i] = t[j] PROVE i = j
  BY <1>2, <1>3, <1>4, <1>7
<1> QED BY <1>1, <1>2, <1>4, <1>5, <1>6, <1>7 DEF t

(***************************************************************************)
(* A node that still is as add_end read the tail is the last of the list,  *)
(* and the tail has not moved on: this is what the generations are for.    *)
(***************************************************************************)
LEMMA LinkTarget ==
  ASSUME ListInv, NEW c, ChainInv(c), NEW p \in Procs, NEW l \in Lists, l = loc[p].list,
         pc[p] = "endLink", word[loc[p].before.lo] = loc[p].before, ~FreshAgain
  PROVE  /\ loc[p].before.lo = Last(c[l])
         /\ word[Last(c[l])] = loc[p].before /\ tail[l] = loc[p].before
         /\ Known(c, l, loc[p].before.hi) /\ loc[p].before.hi \in Nat
<1> DEFINE b == loc[p].before
           e == b.lo
<1>t. /\ c \in [Lists -> Seq(Nodes)]
      /\ \A k \in Lists : Linking(c[k], k)
      /\ Separate(c) /\ Numbers /\ Generations(c) /\ Tails(c)
      /\ \A q \in Procs : Filled(q) /\ Swings(q) /\ Fronts(q)
  BY DEF ChainInv
<1>1. b \in Word /\ e \in Nodes /\ b.hi \in Nat
  BY <1>t DEF ListInv, TypeOK, Locals, Swings, Informed, Word
<1>2. Known(c, l, b.hi)
  BY <1>1, <1>t DEF Generations, Informed
<1>3. word[e] = W(e, b.hi)
  BY <1>1 DEF Word, W
<1>4. e = Last(c[l])
  <2>1. CASE b.hi > 0
    BY <1>1, <1>2, <1>3, <2>1 DEF Known, Issued
  <2>2. CASE b.hi = 0
    <3>1. word[e] = W(e, 0) /\ b = W(e, 0)
      BY <1>3, <2>2
    <3>2. l = "free"
      BY <1>2, <2>2 DEF Known, Issued
    <3>3. e < dataAlloc
      <4>1. e \in Int /\ dataAlloc \in Int /\ e # Null
        BY <1>1, SizesAssumption DEF ListInv, TypeOK, Nodes, Null
      <4>2. word[e] # Zero
        BY <3>1, <4>1 DEF W, Zero
      <4> QED BY <4>1, <4>2, <1>1, <1>t DEF Separate
    <3>4. CASE \E q \in Procs : HoldsNode(q) /\ loc[q].slot = e
      <4>1. PICK q \in Procs : HoldsNode(q) /\ loc[q].slot = e
        BY <3>4
      <4>2. e # Null
        BY <1>1, SizesAssumption DEF Nodes, Null
      <4>3. pc[q] # "endStore"
        BY <3>1, <4>1 DEF FreshAgain
      <4>4. pc[q] \notin {"frontZero", "poolClear", "store", "endGen"}
        <5>1. word[e].lo = e /\ word[e] # Zero
          BY <3>1, <4>2 DEF W, Zero
        <5>2. Filled(q)
          BY <1>t
        <5> QED BY <4>1, <5>1, <5>2 DEF Filled
      <4>5. pc[q] \in Numbered \ {"endStore"}
        BY <4>1, <4>3, <4>4 DEF HoldsNode, HoldLabels, Numbered
      <4>6. word[e] = W(e, loc[q].gen) /\ loc[q].gen >= 1
        BY <4>1, <4>5, <1>t DEF Filled, Numbers
      <4> QED BY <3>1, <4>6 DEF W
    <3>5. CASE \E k \in Lists : OnChain(c[k], e)
      <4>a. PICK k \in Lists : OnChain(c[k], e)
        BY <3>5
      <4>1. PICK i \in 1..Len(c[k]) : c[k][i] = e
        BY <4>a DEF OnChain
      <4>2. /\ Len(c[k]) \in Nat /\ Len(c[k]) >= 1 /\ Last(c[k]) = c[k][Len(c[k])]
        BY <1>t, ChainNodes
      <4>3. i \notin 1..(Len(c[k]) - 1)
        <5> SUFFICES ASSUME i \in 1..(Len(c[k]) - 1) PROVE FALSE
          OBVIOUS
        <5>1. word[e].lo = c[k][i + 1]
          BY <4>1, <1>t DEF Linking
        <5>2. i + 1 \in 1..Len(c[k]) /\ i # i + 1
          BY <4>2
        <5>3. c[k][i + 1] # c[k][i]
          BY <5>2, <1>t DEF Linking
        <5> QED BY <5>1, <5>3, <4>1, <1>3 DEF W
      <4>4. i = Len(c[k])
        BY <4>2, <4>3
      <4>5. e = Last(c[k])
        BY <4>1, <4>2, <4>4
      <4>6. Issued(c, k, 0)
        <5>1. word[Last(c[k])].hi = 0
          BY <4>5, <3>1 DEF W
        <5> QED BY <5>1, <1>t DEF Generations
      <4>7. k = "free"
        BY <4>6 DEF Issued
      <4> QED BY <4>5, <4>7, <3>2
    <3> QED BY <3>3, <3>4, <3>5, <1>1, <1>t DEF Separate
  <2> QED BY <1>1, <2>1, <2>2
<1>5. tail[l].lo = Last(c[l])
  BY <1>2, <1>3, <1>4 DEF Known, Passed, W
<1>6. tail[l] = word[Last(c[l])]
  BY <1>5, <1>t, TailPlace
<1> QED BY <1>1, <1>2, <1>4, <1>6

\* The CAS at the end succeeds: the node is the last one, and the tail one behind.
LEMMA EndLinkChains ==
  ASSUME ListInv, ListInv', NEW c, ChainInv(c), NEW p \in Procs, EndLink(p), ~FreshAgain,
         word[loc[p].before.lo] = loc[p].before,
         NEW d, d = [c EXCEPT ![loc[p].list] = Append(c[loc[p].list], loc[p].slot)]
  PROVE  ChainInv(d)'
<1> DEFINE l == loc[p].list
           s == c[l]
           n == loc[p].slot
           e == loc[p].before.lo
           t == Append(s, n)
<1>t. /\ c \in [Lists -> Seq(Nodes)]
      /\ \A k \in Lists : Linking(c[k], k)
      /\ Separate(c) /\ Numbers /\ Generations(c) /\ Tails(c)
      /\ \A q \in Procs : Filled(q) /\ Swings(q) /\ Fronts(q)
  BY DEF ChainInv
<1>1. TypeOK /\ loc[p] \in Locals /\ l \in Lists
  BY Knows
<1>2. pc[p] = "endLink" /\ HoldsNode(p)
  BY DEF EndLink, At, HoldsNode, HoldLabels
<1>3. n \in Nodes /\ n # Null /\ word[n] = Linked(p) /\ Linked(p) = W(n, loc[p].gen)
  BY <1>2, <1>t, Knows DEF Filled, Numbered, Linked
<1>4. /\ pc'[p] = "endSwing" /\ OthersStay(p) /\ loc'[p] = loc[p]
      /\ word' = [word EXCEPT ![e] = Linked(p)]
      /\ head' = head /\ val' = val /\ tail' = tail /\ idCntr' = idCntr /\ dataAlloc' = dataAlloc
  BY <1>1, Moved DEF EndLink
<1>5. /\ e = Last(s) /\ word[Last(s)] = loc[p].before /\ tail[l] = loc[p].before
      /\ Known(c, l, loc[p].before.hi) /\ loc[p].before.hi \in Nat
  BY <1>1, <1>2, LinkTarget
<1>k. \A k \in Lists :
           /\ Len(c[k]) \in Nat /\ Len(c[k]) >= 1
           /\ \A i \in 1..Len(c[k]) : c[k][i] \in Nodes /\ OnChain(c[k], c[k][i])
           /\ Last(c[k]) = c[k][Len(c[k])] /\ Last(c[k]) \in Nodes /\ OnChain(c[k], Last(c[k]))
           /\ c[k][1] = head[k].lo /\ head[k].lo \in Nodes /\ OnChain(c[k], head[k].lo)
  BY <1>t, ChainNodes
<1>6. /\ s \in Seq(Nodes) /\ (\A i, j \in 1..Len(s) : s[i] = s[j] => i = j)
      /\ \A i \in 1..(Len(s) - 1) : word[s[i]].lo = s[i + 1]
      /\ word[Last(s)].lo = Last(s) /\ Len(s) \in Nat /\ Len(s) >= 1 /\ s[1] = head[l].lo
      /\ e \in Nodes /\ OnChain(s, e) /\ e = s[Len(s)]
      /\ ~OnChain(s, n)
  <2>1. Linking(s, l)
    BY <1>t, <1>1
  <2>2. /\ s \in Seq(Nodes) /\ (\A i, j \in 1..Len(s) : s[i] = s[j] => i = j)
        /\ \A i \in 1..(Len(s) - 1) : word[s[i]].lo = s[i + 1]
        /\ word[Last(s)].lo = Last(s)
    <3> HIDE DEF s
    <3> QED BY <2>1 DEF Linking
  <2>3. /\ Len(s) \in Nat /\ Len(s) >= 1 /\ s[1] = head[l].lo
        /\ Last(s) = s[Len(s)] /\ Last(s) \in Nodes /\ OnChain(s, Last(s))
    BY <1>1, <1>k
  <2>4. ~OnChain(s, n)
    BY <1>1, <1>2, <1>t, SMTT(30) DEF Separate
  <2> HIDE DEF s, e, n
  <2> QED BY <2>2, <2>3, <2>4, <1>5
<1>w. /\ word'[e] = W(n, loc[p].gen) /\ n # e
      /\ \A m \in Nodes : m # e => word'[m] = word[m]
      /\ word'[n] = W(n, loc[p].gen)
  BY <1>1, <1>3, <1>4, <1>6 DEF TypeOK
<1>7. /\ t \in Seq(Nodes) /\ Len(t) = Len(s) + 1
      /\ \A i \in 1..Len(s) : t[i] = s[i] /\ i \in 1..Len(t)
      /\ t[Len(s) + 1] = n /\ Last(t) = n
      /\ \A m \in Nodes : OnChain(t, m) <=> OnChain(s, m) \/ m = n
      /\ \A i, j \in 1..Len(t) : t[i] = t[j] => i = j
  <2> HIDE DEF s, n
  <2> QED BY <1>3, <1>6, Longer
<1>d. /\ d \in [Lists -> Seq(Nodes)] /\ d[l] = t
      /\ \A k \in Lists : k # l => d[k] = c[k] /\ Last(d[k]) = Last(c[k]) /\ Last(c[k]) # e
      /\ \A k \in Lists, m \in Nodes : OnChain(d[k], m) <=> OnChain(c[k], m) \/ (k = l /\ m = n)
  <2>1. /\ d \in [Lists -> Seq(Nodes)] /\ d[l] = t
        /\ \A k \in Lists : k # l => d[k] = c[k]
    BY <1>t, <1>1, <1>7, SMTT(30)
  <2>2. \A k \in Lists : k # l => ~OnChain(c[k], e)
    BY <1>t, <1>1, <1>6 DEF Separate, Lists
  <2> QED BY <2>1, <2>2, <1>7, <1>k
<1>o. \A q \in Procs : loc'[q] = loc[q] /\ (q # p => pc'[q] = pc[q])
  BY <1>4 DEF OthersStay
<1>q. ~HoldsNode(p)' /\ \A q \in Procs : q # p => (HoldsNode(q)' <=> HoldsNode(q))
  BY <1>4, <1>o, SMTT(30) DEF HoldsNode, HoldLabels
<1>r. \A q \in Procs : HoldsNode(q) =>
         loc[q].slot \in Nodes /\ loc[q].slot # e /\ (q # p => loc[q].slot # n)
  <2>1. \A q \in Procs : HoldsNode(q) => loc[q].slot \in Nodes
    BY DEF ListInv, LocalsOK, RefersToNodes, UsesSlot, HoldsNode
  <2> QED BY <2>1, <1>2, <1>6, <1>t, <1>1 DEF Separate
<1> HIDE DEF s, t, n, e
<1>8. \A k \in Lists : Linking(d[k], k)'
  <2> SUFFICES ASSUME NEW k \in Lists PROVE Linking(d[k], k)'
    BY SMTT(30)
  <2>1. CASE k # l
    <3>1. d[k] = c[k] /\ \A i \in 1..Len(c[k]) : word'[c[k][i]] = word[c[k][i]]
      <4>1. ~OnChain(c[k], e)
        BY <2>1, <1>t, <1>1, <1>6 DEF Separate, Lists, s
      <4> QED BY <4>1, <2>1, <1>d, <1>k, <1>w, SMTT(30)
    <3>2. word'[Last(c[k])] = word[Last(c[k])]
      BY <2>1, <1>d, <1>k, <1>w
    <3>3. \A i \in 1..(Len(c[k]) - 1) : word'[c[k][i]].lo = c[k][i + 1]
      <4>1. \A i \in 1..(Len(c[k]) - 1) : i \in 1..Len(c[k])
        BY <1>k
      <4> QED BY <3>1, <4>1, <1>t, ZenonT(40) DEF Linking
    <3> QED BY <3>1, <3>2, <3>3, <1>4, <1>t DEF Linking
  <2>2. CASE k = l
    <3>1. \A i \in 1..(Len(t) - 1) : i \in 1..Len(s)
      BY <1>6, <1>7
    <3>2. ASSUME NEW i \in 1..Len(s) PROVE word'[t[i]].lo = t[i + 1]
      <4>1. CASE i < Len(s)
        <5>1. i \in 1..(Len(s) - 1) /\ i + 1 \in 1..Len(s) /\ Len(s) \in 1..Len(s) /\ i # Len(s)
          BY <4>1, <1>6
        <5>2. s[i] # e /\ s[i] \in Nodes
          BY <5>1, <1>6
        <5> QED BY <5>1, <5>2, <1>6, <1>7, <1>w
      <4>2. CASE i >= Len(s)
        <5>1. i = Len(s)
          BY <4>2, <1>6
        <5>2. t[i] = e /\ t[i + 1] = n
          BY <5>1, <1>6, <1>7
        <5> QED BY <5>2, <1>w DEF W
      <4> QED BY <4>1, <4>2, <1>6
    <3>3. word'[Last(t)].lo = Last(t)
      BY <1>7, <1>w DEF W
    <3>4. t[1] = head'[l].lo /\ Len(t) >= 1
      <4>1. 1 \in 1..Len(s)
        BY <1>6
      <4> QED BY <4>1, <1>4, <1>6, <1>7
    <3>5. \A i \in 1..(Len(t) - 1) : word'[t[i]].lo = t[i + 1]
      BY <3>1, <3>2
    <3> DEFINE x == d[k]
    <3>6. x = t
      BY <2>2, <1>d
    <3> HIDE DEF x
    <3>7. /\ x \in Seq(Nodes) /\ Len(x) >= 1
          /\ \A i, j \in 1..Len(x) : x[i] = x[j] => i = j
      BY <3>6, <3>4, <1>7, Zenon
    <3>8. x[1] = head'[k].lo
      BY <3>6, <3>4, <2>2, Zenon
    <3>9. \A i \in 1..(Len(x) - 1) : word'[x[i]].lo = x[i + 1]
      BY <3>6, <3>5, Zenon
    <3>10. word'[Last(x)].lo = Last(x)
      BY <3>6, <3>3, Zenon
    <3>11. Linking(x, k)'
      BY <3>7, <3>8, <3>9, <3>10 DEF Linking
    <3> QED BY <3>11 DEF x
  <2> QED BY <2>1, <2>2
<1>9. Separate(d)'
  <2>1. ASSUME NEW m \in Nodes, m >= dataAlloc PROVE word'[m] = Zero
    <3>1. e < dataAlloc /\ e \in Int /\ m \in Int /\ dataAlloc \in Int
      BY <1>6, <1>t, <1>1, SizesAssumption DEF Separate, TypeOK, Nodes, s
    <3> QED BY <3>1, <2>1, <1>t, <1>w DEF Separate
  <2>2. \A a, b \in Procs : HoldsNode(a)' /\ HoldsNode(b)' /\ loc'[a].slot = loc'[b].slot => a = b
    BY <1>q, <1>o, <1>t DEF Separate
  <2>3. ASSUME NEW q \in Procs, HoldsNode(q)'
        PROVE  loc'[q].slot < dataAlloc /\ \A k \in Lists : ~OnChain(d[k], loc'[q].slot)
    <3>1. q # p /\ HoldsNode(q) /\ loc'[q] = loc[q]
      BY <2>3, <1>q, <1>o
    <3> QED BY <3>1, <1>r, <1>d, <1>t DEF Separate
  <2>4. ASSUME NEW m \in Nodes, m < dataAlloc
        PROVE  \/ \E k \in Lists : OnChain(d[k], m)
               \/ \E q \in Procs : HoldsNode(q)' /\ loc'[q].slot = m
    <3>1. CASE m = n
      BY <3>1, <1>1, <1>d
    <3>2. CASE m # n
      <4>1. CASE \E k \in Lists : OnChain(c[k], m)
        BY <4>1, <1>d
      <4>2. CASE \E q \in Procs : HoldsNode(q) /\ loc[q].slot = m
        BY <3>2, <4>2, <1>q, <1>o DEF n
      <4> QED BY <4>1, <4>2, <2>4, <1>t DEF Separate
    <3> QED BY <3>1, <3>2
  <2>5. /\ \A m \in Nodes : ~OnChain(d["queue"], m) \/ ~OnChain(d["free"], m)
        /\ \A k \in Lists, m \in Nodes : OnChain(d[k], m) => m < dataAlloc
    <3>1. n < dataAlloc /\ \A k \in Lists : ~OnChain(c[k], n)
      BY <1>2, <1>t DEF Separate, n
    <3> QED BY <3>1, <1>t, <1>d DEF Separate, Lists
  <2> QED BY <2>1, <2>2, <2>3, <2>4, <2>5, <1>4 DEF Separate, OnChain
<1>10. \A q \in Procs : Filled(q)'
  <2>1. Filled(p)'
    BY <1>4 DEF Filled, Numbered
  <2>2. ASSUME NEW q \in Procs, q # p, HoldsNode(q) PROVE Filled(q)'
    <3>1. word'[loc[q].slot] = word[loc[q].slot]
      BY <2>2, <1>r, <1>w
    <3> QED BY <2>2, <3>1, <1>o, <1>t DEF Filled
  <2>3. ASSUME NEW q \in Procs, q # p, ~HoldsNode(q) PROVE Filled(q)'
    BY <2>3, <1>o DEF Filled, HoldsNode, HoldLabels, Numbered
  <2> QED BY <2>1, <2>2, <2>3
<1>n. \A q \in Procs : pc'[q] \in Numbered => pc[q] \in Numbered /\ loc'[q].gen = loc[q].gen
  BY <1>o, <1>4 DEF Numbered
<1>11. Numbers'
  BY <1>t, <1>4, <1>n DEF Numbers
<1>g. /\ loc[p].gen \in Nat /\ loc[p].gen >= 1 /\ loc[p].gen < idCntr
      /\ \A k \in Lists, g \in Nat : Issued(c, k, g) => loc[p].gen # g
      /\ \A q \in Procs : pc'[q] \in Numbered => loc'[q].gen # loc[p].gen
  <2>1. pc[p] \in Numbered /\ pc'[p] \notin Numbered
    BY <1>2, <1>4 DEF Numbered
  <2>2. loc[p].gen \in Nat
    BY <1>1 DEF Locals
  <2> QED BY <2>1, <2>2, <1>t, <1>n DEF Numbers, Issued
<1>i. ASSUME NEW k \in Lists, NEW g \in Nat, Issued(c, k, g) PROVE Issued(d, k, g)'
  <2>1. ASSUME NEW m \in Nodes, g > 0, word'[m] = W(m, g) PROVE m = Last(d[k])
    <3>1. m # e
      BY <2>1, <1>w DEF W
    <3>2. m = Last(c[k])
      BY <3>1, <2>1, <1>i, <1>w DEF Issued
    <3>3. k # l
      BY <3>1, <3>2, <1>5 DEF s
    <3> QED BY <3>2, <3>3, <1>d
  <2>2. g < idCntr' /\ (g = 0 => k = "free")
    BY <1>i, <1>4 DEF Issued
  <2>3. \A q \in Procs : pc'[q] \in Numbered => loc'[q].gen # g
    BY <1>i, <1>n DEF Issued
  <2> QED BY <2>1, <2>2, <2>3 DEF Issued
<1>p. ASSUME NEW k \in Lists, NEW g \in Nat, Known(c, k, g) PROVE Known(d, k, g)'
  <2>1. Issued(d, k, g)' /\ Issued(c, k, g)
    BY <1>p, <1>i DEF Known
  <2>2. Passed(d, k, g)'
    <3>1. CASE k = l
      <4>0. Last(d[k]) = n
        BY <3>1, <1>d, <1>7
      <4>1. word'[Last(d[k])].hi = loc[p].gen
        BY <4>0, <1>w DEF W
      <4> QED BY <4>1, <2>1, <1>g DEF Passed
    <3>2. CASE k # l
      BY <3>2, <1>p, <1>4, <1>d, <1>w, <1>k DEF Known, Passed
    <3> QED BY <3>1, <3>2
  <2> QED BY <2>1, <2>2 DEF Known
<1>12. Generations(d)'
  <2>1. ASSUME NEW k \in Lists, NEW g \in Nat, word'[Last(d[k])].hi = g PROVE Issued(d, k, g)'
    <3>1. CASE k # l
      <4>1. Last(d[k]) = Last(c[k]) /\ Last(c[k]) # e /\ Last(c[k]) \in Nodes
        BY <3>1, <1>d, <1>k
      <4>2. word[Last(c[k])].hi = g
        BY <4>1, <2>1, <1>w
      <4>3. Issued(c, k, g)
        BY <4>2, <1>t DEF Generations
      <4> QED BY <4>3, <1>i
    <3>2. CASE k = l
      <4>0. Last(d[k]) = n
        BY <3>2, <1>d, <1>7
      <4>1. g = loc[p].gen
        BY <4>0, <2>1, <1>w DEF W
      <4>2. ASSUME NEW m \in Nodes, word'[m] = W(m, g) PROVE m = n
        <5> SUFFICES ASSUME m # n PROVE FALSE
          OBVIOUS
        <5>1. m # e /\ word[m] = W(m, g)
          BY <4>2, <1>w DEF W
        <5>2. m # Null
          BY SizesAssumption DEF Nodes, Null
        <5>3. word[m] # Zero /\ word[m].lo = m /\ word[m].hi = g
          BY <5>1, <5>2 DEF W, Zero
        <5>4. CASE \E q \in Procs : HoldsNode(q) /\ loc[q].slot = m
          <6>1. PICK q \in Procs : HoldsNode(q) /\ loc[q].slot = m
            BY <5>4
          <6>2. Filled(q) /\ q # p
            BY <6>1, <1>t DEF n
          <6>3. pc[q] \notin {"frontZero", "poolClear", "store", "endGen"}
            BY <6>1, <6>2, <5>3 DEF Filled
          <6>4. pc[q] # "endStore"
            BY <6>1, <6>2, <5>3, <4>1, <1>g DEF Filled, W
          <6>5. pc[q] \in Numbered \ {"endStore"}
            BY <6>1, <6>3, <6>4 DEF HoldsNode, HoldLabels, Numbered
          <6>6. loc[q].gen = g
            BY <6>1, <6>2, <6>5, <5>3 DEF Filled, W
          <6> QED BY <6>2, <6>5, <6>6, <4>1, <1>g, <1>o
        <5>5. CASE \E j \in Lists : OnChain(c[j], m)
          <6>1. PICK j \in Lists : OnChain(c[j], m)
            BY <5>5
          <6>2. PICK i \in 1..Len(c[j]) : c[j][i] = m
            BY <6>1 DEF OnChain
          <6>3. /\ Len(c[j]) \in Nat /\ Len(c[j]) >= 1 /\ Last(c[j]) = c[j][Len(c[j])]
            BY <1>k
          <6>4. i \notin 1..(Len(c[j]) - 1)
            <7> SUFFICES ASSUME i \in 1..(Len(c[j]) - 1) PROVE FALSE
              OBVIOUS
            <7>1. word[m].lo = c[j][i + 1]
              BY <6>2, <1>t DEF Linking
            <7>2. i + 1 \in 1..Len(c[j]) /\ i # i + 1
              BY <6>3
            <7>3. c[j][i + 1] # c[j][i]
              BY <7>2, <1>t DEF Linking
            <7> QED BY <7>1, <7>3, <6>2, <5>3
          <6>5. i = Len(c[j])
            BY <6>3, <6>4
          <6>6. word[Last(c[j])].hi = g
            BY <6>2, <6>3, <6>5, <5>3
          <6>7. Issued(c, j, g)
            BY <6>6, <1>t DEF Generations
          <6> QED BY <6>7, <4>1, <1>g
        <5>6. m < dataAlloc
          <6>1. m \in Int /\ dataAlloc \in Int
            BY <1>1, SizesAssumption DEF TypeOK, Nodes
          <6> QED BY <6>1, <5>3, <1>t DEF Separate
        <5> QED BY <5>4, <5>5, <5>6, <1>t DEF Separate
      <4>3. Last(d[k]) = n
        BY <3>2, <1>d, <1>7
      <4> QED BY <4>1, <4>2, <4>3, <1>g, <1>4 DEF Issued
    <3> QED BY <3>1, <3>2
  <2>2. ASSUME NEW k \in Lists, NEW g \in Nat, tail'[k].hi = g PROVE Known(d, k, g)'
    BY <2>2, <1>4, <1>t, <1>p DEF Generations
  <2>3. ASSUME NEW q \in Procs, NEW k \in Lists, NEW g \in Nat,
               pc'[q] \in Informed, loc'[q].list = k, loc'[q].before.hi = g
        PROVE  Known(d, k, g)'
    <3>1. pc[q] \in Informed /\ loc[q].list = k /\ loc[q].before.hi = g
      BY <2>3, <1>2, <1>o DEF Informed
    <3> QED BY <3>1, <1>t, <1>p DEF Generations
  <2> QED BY <2>1, <2>2, <2>3 DEF Generations
<1>13. Tails(d)'
  <2> SUFFICES ASSUME NEW k \in Lists, tail'[k] # word'[Last(d[k])] PROVE Lags(d, k)'
    BY DEF Tails
  <2>1. CASE k # l
    <3>1. word'[Last(d[k])] = word[Last(c[k])] /\ d[k] = c[k]
      BY <2>1, <1>d, <1>w, <1>k
    <3>2. Lags(c, k)
      BY <3>1, <1>4, <1>t DEF Tails
    <3>3. PICK q \in Procs : pc[q] = "endSwing" /\ loc[q].list = k /\ loc[q].before = tail[k]
      BY <3>2 DEF Lags
    <3>4. pc'[q] = "endSwing" /\ loc'[q].list = k /\ loc'[q].before = tail'[k]
      BY <3>3, <1>2, <1>o, <1>4
    <3>5. word'[tail'[k].lo] = word[tail[k].lo]
      <4>1. tail[k].lo \in Nodes /\ OnChain(c[k], tail[k].lo)
        BY <1>t, TailPlace, SMTT(30)
      <4>2. ~OnChain(c[k], e)
        BY <2>1, <1>t, <1>1, <1>6 DEF Separate, Lists, s
      <4> QED BY <4>1, <4>2, <1>4, <1>w
    <3> QED BY <3>1, <3>2, <3>4, <3>5, <1>4 DEF Lags
  <2>2. CASE k = l
    <3>1. d[k] = t /\ Last(d[k]) = n /\ tail'[k] = loc[p].before /\ tail'[k].lo = e
      BY <2>2, <1>d, <1>7, <1>4, <1>5 DEF e
    <3>2. Len(t) >= 2 /\ Len(t) - 1 = Len(s) /\ Len(s) \in 1..Len(s)
      BY <1>6, <1>7
    <3>3. t[Len(t) - 1] = e
      BY <3>2, <1>6, <1>7
    <3>4. word'[tail'[k].lo] = word'[Last(d[k])]
      BY <3>1, <1>w
    <3>5. pc'[p] = "endSwing" /\ loc'[p].list = k /\ loc'[p].before = tail'[k]
      BY <3>1, <2>2, <1>4
    <3> QED BY <3>1, <3>2, <3>3, <3>4, <3>5 DEF Lags
  <2> QED BY <2>1, <2>2
<1>14. \A q \in Procs : Swings(q)'
  <2>1. Swings(p)'
    <3>1. /\ loc[p].before.lo \in Nodes
          /\ word'[loc[p].before.lo] = Linked(p) /\ Linked(p)' = Linked(p)
      BY <1>2, <1>3, <1>4, <1>w, <1>t DEF Swings, Informed, Linked, e
    <3>2. Linked(p).lo # loc[p].before.lo
      BY <1>3, <1>w DEF W, e
    <3> QED BY <3>1, <3>2, <1>4 DEF Swings, Helping
  <2>2. ASSUME NEW q \in Procs, q # p PROVE Swings(q)'
    <3>1. /\ Linked(q)' = Linked(q) /\ pc'[q] = pc[q] /\ loc'[q] = loc[q] /\ tail' = tail
          /\ loc[q].list \in Lists /\ Swings(q)
      BY <2>2, <1>o, <1>4, <1>t DEF Linked, ListInv, TypeOK, Locals
    <3>2. CASE tail[loc[q].list] # loc[q].before
      BY <3>1, <3>2 DEF Swings
    <3>3. CASE tail[loc[q].list] = loc[q].before /\ loc[q].before.lo # e
      <4>1. loc[q].before.lo \in Nodes
        BY <3>1, <3>3, <1>t, TailPlace
      <4>2. word'[loc[q].before.lo] = word[loc[q].before.lo]
        BY <4>1, <3>3, <1>w
      <4> QED BY <3>1, <4>2 DEF Swings
    <3>4. CASE tail[loc[q].list] = loc[q].before /\ loc[q].before.lo = e
      <4>1. word[e].lo = e
        BY <1>5, <1>6
      <4>2. pc[q] \notin Helping \cup {"endSwing"}
        BY <3>1, <3>4, <4>1 DEF Swings
      <4> QED BY <3>1, <3>4, <4>2, <1>6 DEF Swings, Helping
    <3> QED BY <3>2, <3>3, <3>4
  <2> QED BY <2>1, <2>2
<1>15. \A q \in Procs : Fronts(q)'
  <2>1. Fronts(p)'
    BY <1>4 DEF Fronts, Heading, FifoLabels, FrontLabels
  <2>2. ASSUME NEW q \in Procs, q # p PROVE Fronts(q)'
    <3> DEFINE r == loc[q].ref
               k == loc[q].list
    <3>1. /\ pc'[q] = pc[q] /\ loc'[q] = loc[q] /\ head' = head /\ tail' = tail /\ val' = val
          /\ k \in Lists /\ Fronts(q)
      BY <2>2, <1>o, <1>4, <1>t DEF ListInv, TypeOK, Locals
    <3>2. CASE head[k] = W(r, loc[q].refGen) /\ word'[r] # word[r]
      <4>1. r = head[k].lo /\ r \in Nodes /\ OnChain(c[k], r)
        BY <3>1, <3>2, <1>k DEF W
      <4>2. r = e
        BY <3>2, <4>1, <1>w, SMTT(30)
      <4>3. k = l
        BY <3>1, <4>1, <4>2, <1>1, <1>6, <1>t DEF Separate, Lists, s
      <4>4. tail[k].lo = r
        BY <4>2, <4>3, <1>5 DEF e
      <4>5. pc[q] \notin {"fifoNext", "fifoData", "frontNext", "frontCas"}
        BY <3>1, <3>2, <4>4 DEF Fronts
      <4>6. ~(pc[q] \in FrontLabels /\ k = "queue")
        BY <3>1, <3>2, <4>4 DEF Fronts
      <4> QED BY <3>1, <4>5, <4>6 DEF Fronts
    <3>3. CASE ~(head[k] = W(r, loc[q].refGen)) \/ word'[r] = word[r]
      BY <3>1, <3>3 DEF Fronts
    <3> QED BY <3>2, <3>3
  <2> QED BY <2>1, <2>2
<1> QED BY <1>d, <1>8, <1>9, <1>10, <1>11, <1>12, <1>13, <1>14, <1>15 DEF ChainInv

\* The CAS at the end fails: the tail is read again.
LEMMA EndLinkFails ==
  ASSUME ListInv, ListInv', NEW c, ChainInv(c), NEW p \in Procs, EndLink(p),
         word[loc[p].before.lo] # loc[p].before
  PROVE  ChainInv(c)'
<1>1. TypeOK /\ Filled(p)
  BY Knows
<1>2. /\ pc[p] = "endLink" /\ pc'[p] = "endLo" /\ OthersStay(p) /\ loc'[p] = loc[p]
      /\ UNCHANGED memVars
  BY <1>1, Moved DEF EndLink, At, memVars
<1>3. Filled(p)'
  BY <1>1, <1>2 DEF Filled, Numbered, memVars
<1>4. Swings(p)' /\ Fronts(p)'
  BY <1>2 DEF Swings, Fronts, Informed, Helping, Heading, FifoLabels, FrontLabels
<1>5. QuietStep(c, p)
  BY <1>2, <1>3, <1>4 DEF QuietStep, HoldsNode, HoldLabels, Numbered, Informed
<1> QED BY <1>5, QuietStepInv

\* A process that is killed, and a step of somebody else.
LEMMA StillChains ==
  ASSUME NEW c, ChainInv(c), UNCHANGED <<memVars, pc, loc>>
  PROVE  ChainInv(c)'
<1>1. UNCHANGED <<word, val, head, tail, idCntr, dataAlloc, pc, loc>>
  BY DEF memVars
<1>2. /\ c \in [Lists -> Seq(Nodes)]
      /\ \A l \in Lists : Linking(c[l], l)
      /\ Separate(c) /\ Numbers /\ Generations(c) /\ Tails(c)
      /\ \A q \in Procs : Filled(q) /\ Swings(q) /\ Fronts(q)
  BY DEF ChainInv
<1>3. \A l \in Lists : Linking(c[l], l)'
  BY <1>1, <1>2 DEF Linking
<1>4. Separate(c)'
  BY <1>1, <1>2 DEF Separate, HoldsNode
<1>5. \A q \in Procs : Filled(q)' /\ Swings(q)' /\ Fronts(q)'
  BY <1>1, <1>2 DEF Filled, Swings, Fronts, Linked
<1>6. Numbers'
  BY <1>1, <1>2 DEF Numbers
<1>7. Generations(c)'
  BY <1>1, <1>2 DEF Generations, Known, Issued, Passed
<1>8. Tails(c)'
  BY <1>1, <1>2 DEF Tails, Lags
<1> QED BY <1>2, <1>3, <1>4, <1>5, <1>6, <1>7, <1>8 DEF ChainInv

-----------------------------------------------------------------------------
(* Every step.                                                             *)

(***************************************************************************)
(* What a step does to the chains: nothing, unless a node is linked or the *)
(* head moved.                                                             *)
(***************************************************************************)
Links(p)  == EndLink(p) /\ word[loc[p].before.lo] = loc[p].before
Unlinks(p) == FrontCas(p) /\ HeadUnchanged(p)

Grown(c, p) == [c EXCEPT ![loc[p].list] = Append(c[loc[p].list], loc[p].slot)]
Shrunk(c, p) == [c EXCEPT ![loc[p].list] = Tail(c[loc[p].list])]

\* The step of a process keeps the invariant, of these chains: the central fact about
\* add_end and remove_front.
LEMMA ProcessChains ==
  ASSUME ListInv, ListInv', NEW c, ChainInv(c), NEW p \in Procs, ~FreshAgain, Step(p)
  PROVE  \E d : /\ ChainInv(d)'
               /\ \/ Links(p) /\ d = Grown(c, p)
                  \/ Unlinks(p) /\ d = Shrunk(c, p)
                  \/ ~Links(p) /\ ~Unlinks(p) /\ d = c
<1>1. CASE Links(p)
  <2>1. \A d : d = Grown(c, p) => ChainInv(d)'
    BY <1>1, EndLinkChains DEF Links, Grown
  <2> QED BY <1>1, <2>1
<1>2. CASE Unlinks(p)
  <2>1. \A d : d = Shrunk(c, p) => ChainInv(d)'
    BY <1>2, FrontCasChains DEF Unlinks, Shrunk
  <2> QED BY <1>2, <2>1
<1>3. CASE ~Links(p) /\ ~Unlinks(p)
  <2>1. CASE Gates(p)
    BY <1>3, <2>1, GatesChains
  <2>2. CASE Alloc(p)
    BY <1>3, <2>2, PoolLook, ClearChains, BumpChains DEF Alloc
  <2>3. CASE RemoveFront(p)
    BY <1>3, <2>3, FrontLook, ClearChains DEF RemoveFront, Unlinks
  <2>4. CASE AddEnd(p)
    BY <1>3, <2>4, EndStores, EndLook, EndLinkFails, SwingChains DEF AddEnd, Links
  <2>5. CASE FifoRemove(p)
    BY <1>3, <2>5, FifoLook
  <2> QED BY <1>3, <2>1, <2>2, <2>3, <2>4, <2>5 DEF Step
<1> QED BY <1>1, <1>2, <1>3

\* The types and the references, after any step.
LEMMA ListStep ==
  ASSUME ListInv, [Next]_vars
  PROVE  ListInv'
<1>1. CASE UNCHANGED vars
  BY <1>1, StutterInv
<1>2. ASSUME NEW p \in Procs, Step(p) PROVE ListInv'
  BY <1>2, GatesInv, AllocInv, RemoveFrontInv, AddEndInv, FifoRemoveInv DEF Step
<1>3. ASSUME NEW p \in Procs, Crash(p) PROVE ListInv'
  BY <1>3, CrashInv
<1> QED BY <1>1, <1>2, <1>3 DEF Next, Done

\* Each list starts with one node, its dummy.
LEMMA FirstChains ==
  ASSUME Init
  PROVE  ChainInv([l \in Lists |-> IF l = "free" THEN <<1>> ELSE <<2>>])
<1> DEFINE c == [l \in Lists |-> IF l = "free" THEN <<1>> ELSE <<2>>]
           d(l) == IF l = "free" THEN 1 ELSE 2
<1>0. 1 \in Nodes /\ 2 \in Nodes /\ \A n \in Nodes : n \in Nat /\ n >= 1
  BY SizesAssumption DEF Nodes
<1>1. c \in [Lists -> Seq(Nodes)] /\ c["queue"] = <<2>> /\ c["free"] = <<1>>
  BY <1>0 DEF Lists
<1>2. \A l \in Lists : /\ c[l] = <<d(l)>> /\ d(l) \in Nodes /\ Last(c[l]) = d(l)
                       /\ word[d(l)] = head[l] /\ tail[l] = head[l] /\ word[d(l)].lo = d(l)
                       /\ head[l].lo = d(l)
                       /\ word[d(l)].hi = (IF l = "free" THEN 0 ELSE 2)
  BY <1>0 DEF Init, W, Last
<1>i. /\ \A p \in Procs : pc[p] = "idle"
      /\ dataAlloc = 3 /\ idCntr = 3
      /\ \A n \in Nodes : word[n] = IF n = 1 THEN W(1, 0) ELSE IF n = 2 THEN W(2, 2) ELSE Zero
  BY DEF Init
<1>c. \A l \in Lists, n \in Nodes : OnChain(c[l], n) <=> n = d(l)
  <2> HIDE DEF d
  <2>1. \A x : Len(<<x>>) = 1 /\ <<x>>[1] = x
    OBVIOUS
  <2>2. ASSUME NEW x, NEW n PROVE OnChain(<<x>>, n) <=> n = x
    BY DEF OnChain
  <2> HIDE DEF c
  <2>3. ASSUME NEW l \in Lists, NEW n \in Nodes PROVE OnChain(c[l], n) <=> n = d(l)
    <3> DEFINE x == d(l)
    <3>1. c[l] = <<x>>
      BY <1>2
    <3> HIDE DEF x
    <3>2. OnChain(<<x>>, n) <=> n = x
      BY <2>2
    <3>3. OnChain(c[l], n) <=> n = x
      BY <3>1, <3>2, Zenon
    <3> QED BY <3>3 DEF x
  <2> QED BY <2>3
<1> HIDE DEF c
<1>3. \A l \in Lists : Linking(c[l], l)
  <2> SUFFICES ASSUME NEW l \in Lists PROVE Linking(c[l], l)
    OBVIOUS
  <2> DEFINE x == d(l)
  <2>1. c[l] = <<x>> /\ x \in Nodes /\ x = head[l].lo /\ word[x].lo = x
    BY <1>2
  <2> HIDE DEF x
  <2>2. Linking(<<x>>, l)
    BY <2>1 DEF Linking, Last
  <2> QED BY <2>1, <2>2
<1>4. Separate(c)
  <2>1. \A n \in Nodes : ~OnChain(c["queue"], n) \/ ~OnChain(c["free"], n)
    BY <1>c DEF Lists
  <2>2. \A l \in Lists, n \in Nodes : OnChain(c[l], n) => n < dataAlloc
    BY <1>c, <1>i
  <2>3. \A p \in Procs : ~HoldsNode(p)
    BY <1>i DEF HoldsNode, HoldLabels
  <2>4. \A n \in Nodes : n < dataAlloc => \E l \in Lists : OnChain(c[l], n)
    <3>1. \A n \in Nodes : n < 3 => n = 1 \/ n = 2
      BY <1>0
    <3> QED BY <3>1, <1>c, <1>i DEF Lists
  <2>5. \A n \in Nodes : n >= dataAlloc => word[n] = Zero
    BY <1>0, <1>i
  <2> QED BY <2>1, <2>2, <2>3, <2>4, <2>5 DEF Separate
<1>5. \A p \in Procs : Filled(p) /\ Swings(p) /\ Fronts(p)
  BY <1>i DEF Filled, Swings, Fronts, Numbered, Informed, Helping, Heading, FifoLabels, FrontLabels
<1>6. Numbers
  BY <1>i DEF Numbers, Numbered
<1>7. Generations(c)
  <2>1. ASSUME NEW l \in Lists, NEW g \in Nat, g = (IF l = "free" THEN 0 ELSE 2)
        PROVE  Known(c, l, g)
    <3>1. g < idCntr /\ (g = 0 => l = "free")
      BY <2>1, <1>i
    <3>2. \A q \in Procs : pc[q] \notin Numbered
      BY <1>i DEF Numbered
    <3>3. ASSUME NEW m \in Nodes, g > 0, word[m] = W(m, g) PROVE m = Last(c[l])
      <4>1. l # "free" /\ g = 2
        BY <2>1, <3>3
      <4>2. m = 2
        BY <4>1, <3>3, <1>i DEF W, Zero
      <4> QED BY <4>1, <4>2, <1>2
    <3>4. Issued(c, l, g)
      BY <3>1, <3>2, <3>3 DEF Issued
    <3>5. Passed(c, l, g)
      BY <1>2 DEF Passed
    <3> QED BY <3>4, <3>5 DEF Known
  <2>2. \A l \in Lists : word[Last(c[l])].hi = (IF l = "free" THEN 0 ELSE 2)
                         /\ tail[l].hi = (IF l = "free" THEN 0 ELSE 2)
    BY <1>2
  <2>3. \A p \in Procs : pc[p] \notin Informed
    BY <1>i DEF Informed
  <2> QED BY <2>1, <2>2, <2>3 DEF Generations, Known
<1>8. Tails(c)
  BY <1>2 DEF Tails
<1> QED BY <1>1, <1>3, <1>4, <1>5, <1>6, <1>7, <1>8 DEF ChainInv, c

-----------------------------------------------------------------------------
(* What the chains say of the lists.                                       *)

\* What the chains say of the lists.
LEMMA ChainsConserve ==
  ASSUME ListInv, NEW c, ChainInv(c)
  PROVE  NodesConserved
<1>1. TypeOK /\ Separate(c) /\ c \in [Lists -> Seq(Nodes)] /\ \A l \in Lists : Linking(c[l], l)
  BY DEF ListInv, ChainInv
<1> DEFINE q == c["queue"]
           f == c["free"]
<1>2. Chain("queue") = q /\ Chain("free") = f /\ "queue" \in Lists /\ "free" \in Lists
  BY <1>1, ChainIs DEF Lists
<1>3. ASSUME NEW l \in Lists
      PROVE  /\ Follow[Last(c[l])] = Last(c[l]) /\ Last(c[l]) # Null
             /\ \A n : n \in Range(c[l]) <=> n \in Nodes /\ OnChain(c[l], n)
  <2>1. Last(c[l]) \in Nodes /\ word[Last(c[l])].lo = Last(c[l]) /\ c[l] \in Seq(Nodes)
    BY <1>1, ChainNodes DEF Linking
  <2>2. Follow[Last(c[l])] = word[Last(c[l])].lo /\ Last(c[l]) # Null
    BY <2>1, SizesAssumption DEF Follow, Nodes, Null
  <2> DEFINE s == c[l]
  <2>3. s \in Seq(Nodes)
    BY <2>1
  <2> HIDE DEF s
  <2>4. DOMAIN s = 1..Len(s) /\ \A i \in 1..Len(s) : s[i] \in Nodes
    BY <2>3
  <2>5. \A n : n \in Range(s) <=> n \in Nodes /\ OnChain(s, n)
    BY <2>4 DEF Range, OnChain
  <2> QED BY <2>1, <2>2, <2>5 DEF s
<1>4. Held = {loc[p].slot : p \in {r \in Procs : HoldsNode(r)}}
  BY DEF Held
<1>5. \A p \in Procs : HoldsNode(p) => loc[p].slot \in Nodes
  BY DEF ListInv, LocalsOK, RefersToNodes, UsesSlot, HoldsNode
<1> DEFINE Q == Range(q)
           F == Range(f)
<1>6. \A n : n \in Q <=> n \in Nodes /\ OnChain(q, n)
  BY <1>2, <1>3
<1>7. \A n : n \in F <=> n \in Nodes /\ OnChain(f, n)
  BY <1>2, <1>3
<1>8. \A n : n \in Held <=> n \in Nodes /\ \E p \in Procs : HoldsNode(p) /\ loc[p].slot = n
  BY <1>4, <1>5
<1>a. \A n : n \in Nodes /\ n < dataAlloc <=> n \in 1..(dataAlloc - 1)
  BY <1>1, SizesAssumption DEF TypeOK, Nodes
<1>s. /\ \A n \in Nodes : ~OnChain(q, n) \/ ~OnChain(f, n)
      /\ \A n \in Nodes : OnChain(q, n) \/ OnChain(f, n) => n < dataAlloc
      /\ \A p \in Procs : HoldsNode(p) => /\ loc[p].slot < dataAlloc
                                          /\ ~OnChain(q, loc[p].slot) /\ ~OnChain(f, loc[p].slot)
      /\ \A n \in Nodes : n < dataAlloc => \/ OnChain(q, n) \/ OnChain(f, n)
                                           \/ \E p \in Procs : HoldsNode(p) /\ loc[p].slot = n
  BY <1>1 DEF Separate, Lists
<1>9. Q \cap F = {}
  BY <1>6, <1>7, <1>s
<1>10. (Q \cup F) \cap Held = {}
  BY <1>6, <1>7, <1>8, <1>s
<1>11. \A p, r \in Procs : (p # r /\ HoldsNode(p) /\ HoldsNode(r)) => loc[p].slot # loc[r].slot
  BY <1>1 DEF Separate
<1>12. Q \cup F \cup Held = 1..(dataAlloc - 1)
  <2>1. ASSUME NEW n \in Q \cup F \cup Held PROVE n \in Nodes /\ n < dataAlloc
    BY <1>6, <1>7, <1>8, <1>s
  <2>2. ASSUME NEW n \in Nodes, n < dataAlloc PROVE n \in Q \cup F \cup Held
    BY <2>2, <1>6, <1>7, <1>8, <1>s
  <2> QED BY <2>1, <2>2, <1>a
<1>13. /\ Follow[Last(q)] = Last(q) /\ Last(q) # Null
       /\ Follow[Last(f)] = Last(f) /\ Last(f) # Null
  BY <1>2, <1>3
<1> HIDE DEF q, f, Q, F
<1>14. \A chain \in {q, f} : Follow[Last(chain)] = Last(chain) /\ Last(chain) # Null
  BY <1>13
<1> QED BY <1>2, <1>9, <1>10, <1>11, <1>12, <1>14, Zenon DEF NodesConserved, Q, F

\* What they say of the tails.
LEMMA ChainsTail ==
  ASSUME ListInv, NEW c, ChainInv(c)
  PROVE  TailNearEnd
<1> SUFFICES ASSUME NEW l \in Lists
    PROVE  /\ \E i \in {Len(Chain(l)) - 1, Len(Chain(l))} \cap DOMAIN Chain(l) :
                 tail[l].lo = Chain(l)[i]
           /\ tail[l].lo = Chain(l)[Len(Chain(l))] => tail[l] = word[Chain(l)[Len(Chain(l))]]
  BY DEF TailNearEnd
<1>1. TypeOK /\ c \in [Lists -> Seq(Nodes)] /\ (\A k \in Lists : Linking(c[k], k)) /\ Tails(c)
  BY DEF ListInv, ChainInv
<1>2. Chain(l) = c[l]
  BY <1>1, ChainIs
<1>3. /\ Len(c[l]) \in Nat /\ Len(c[l]) >= 1 /\ Last(c[l]) = c[l][Len(c[l])]
      /\ DOMAIN c[l] = 1..Len(c[l])
  BY <1>1, ChainNodes
<1>4. \/ tail[l].lo = Last(c[l]) /\ tail[l] = word[Last(c[l])]
      \/ tail[l].lo # Last(c[l]) /\ Len(c[l]) >= 2 /\ tail[l].lo = c[l][Len(c[l]) - 1]
  BY <1>1, TailPlace
<1>5. Len(c[l]) \in DOMAIN c[l] /\ (Len(c[l]) >= 2 => Len(c[l]) - 1 \in DOMAIN c[l])
  BY <1>3
<1>6. \E i \in {Len(c[l]) - 1, Len(c[l])} \cap DOMAIN c[l] : tail[l].lo = c[l][i]
  BY <1>3, <1>4, <1>5
<1>7. tail[l].lo = c[l][Len(c[l])] => tail[l] = word[c[l][Len(c[l])]]
  BY <1>3, <1>4
<1> QED BY <1>2, <1>6, <1>7
=============================================================================
