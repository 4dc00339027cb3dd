-------------------------- MODULE ShrMemoryProofs --------------------------
(***************************************************************************)
(* Proofs about ShrMemory, for any threads, processes, programs, page size *)
(* and limit of the file: its four invariants, and that insure_fit expands *)
(* the file for new slots only.                                            *)
(*                                                                         *)
(* The inductive invariant Inv adds to them where a thread is (Calling,    *)
(* Places), what it knows of the sizes it has read (SizesAgree), who may   *)
(* unmap, and how old its head may be (Alone), that a bucket is the top    *)
(* of its stack and every block in it is linked to the next (Stacks), and  *)
(* what a thread in the middle of an allocation or a free knows of its     *)
(* block (Held): what lookup_freed_data reads between the bucket and its   *)
(* CAS may be stale, and is right if the tag has not moved.                *)
(*                                                                         *)
(* Steps come in three groups: XMoves says what action X does to its own   *)
(* thread, XMine and XKept what it does to a part of the invariant for     *)
(* that thread, XRest what it leaves to the others.                        *)
(***************************************************************************)
EXTENDS ShrMemory, TLAPS, FiniteSetTheorems

(***************************************************************************)
(* Facts about the operators.                                              *)
(***************************************************************************)

\* The size of a class, and the class of a size.
LEMMA ClassSizes ==
    /\ Classes = 1..4 /\ Sizes = {4, 8, 16, 32}
    /\ \A c \in Classes : SizeOf[c] \in Sizes
    /\ \A c, d \in Classes : SizeOf[c] = SizeOf[d] => c = d
    /\ \A c \in Classes : c + 1 \in Classes => SizeOf[c] <= SizeOf[c + 1]
    /\ \A n \in Sizes : ClassOf(n) \in Classes /\ SizeOf[ClassOf(n)] = n
<1>1. Classes = 1..4 /\ Sizes = {4, 8, 16, 32}
  BY DEF Classes, Sizes, SizeOf
<1>2. \A n \in Sizes : \E c \in Classes : SizeOf[c] = n
  BY DEF Sizes
<1>3. \A c \in Classes : SizeOf[c] \in Sizes
  BY DEF Sizes
<1>4. /\ \A c, d \in Classes : SizeOf[c] = SizeOf[d] => c = d
      /\ \A c \in Classes : c + 1 \in Classes => SizeOf[c] <= SizeOf[c + 1]
  <2>1. SizeOf[1] = 4 /\ SizeOf[2] = 8 /\ SizeOf[3] = 16 /\ SizeOf[4] = 32
    BY DEF SizeOf
  <2>. QED  BY <1>1, <2>1
<1>. QED
  BY <1>1, <1>2, <1>3, <1>4 DEF ClassOf

\* alloc_data_slots: what is allocated is the size of a class.
LEMMA Rounds ==
    ASSUME NEW n \in 0..32
    PROVE  RoundUp(n) \in Sizes
<1> DEFINE Fitting == {s \in Sizes : s >= n}
<1>1. Sizes = {4, 8, 16, 32}
  BY ClassSizes
<1>2. \E m \in Fitting : \A k \in Fitting : m <= k
  <2>1. CASE n <= 4
    <3>1. 4 \in Fitting /\ \A k \in Fitting : 4 <= k  BY <1>1, <2>1
    <3>. QED  BY <3>1
  <2>2. CASE n > 4 /\ n <= 8
    <3>1. 8 \in Fitting /\ \A k \in Fitting : 8 <= k  BY <1>1, <2>2
    <3>. QED  BY <3>1
  <2>3. CASE n > 8 /\ n <= 16
    <3>1. 16 \in Fitting /\ \A k \in Fitting : 16 <= k  BY <1>1, <2>3
    <3>. QED  BY <3>1
  <2>4. CASE n > 16
    <3>1. 32 \in Fitting /\ \A k \in Fitting : 32 <= k  BY <1>1, <2>4
    <3>. QED  BY <3>1
  <2>. QED  BY <2>1, <2>2, <2>3, <2>4
<1>. QED
  BY <1>2 DEF RoundUp, Min

\* calculate_realloc_size returns a number.
LEMMA ReallocType ==
    ASSUME NEW m \in Nat, NEW w \in Nat
    PROVE  (m \div PageSlots + w \div PageSlots + 1) * PageSlots \in Nat
<1>1. PageSlots \in Nat /\ PageSlots > 0
  BY MemoryAssumption
<1>2. m \div PageSlots \in Nat /\ w \div PageSlots \in Nat
  BY <1>1
<1>. QED
  BY <1>1, <1>2

(***************************************************************************)
(* The inductive invariant.                                                *)
(***************************************************************************)

Expanding == {"expPrev", "expCas", "expRead", "truncate", "sizeCas"}
Undisturbed == ~shrunk /\ ~overtaken

\* Where a subroutine returns to, and what it has found out.
PlaceOK(t) ==
    /\ loc[t].ext <= current[B(t)]
    /\ pc[t] = "range" => loc[t].then \in {"lookNext", "extentOf", "copy"}
    /\ pc[t] \in {"fit", "expand"} => loc[t].then \in {"clear", "newCas"}
    /\ pc[t] = "expand" => loc[t].slot + loc[t].want >= Mapped(t)
    /\ pc[t] \in Expanding => loc[t].then = "newCas"
    /\ pc[t] \in {"resize", "link", "advance"} => loc[t].then # "idle"
    /\ pc[t] = "link" => Mapped(t) < loc[t].new /\ loc[t].new <= size
    /\ pc[t] = "advance" => loc[t].ext < Len(extents[B(t)])

\* As long as SIZE is the one an expansion has seen, EXPAND_SIZE is what the file is given.
AgreeOK(t) ==
    /\ pc[t] \in Expanding \ {"expPrev"} => loc[t].old <= size
    /\ pc[t] = "truncate" => loc[t].new > 0
    /\ pc[t] = "sizeCas" => shrunk \/ loc[t].new <= fileSize
    /\ loc[t].old = size /\ ~overtaken =>
          /\ pc[t] \in {"expRead", "truncate", "sizeCas"} => loc[t].old < expandSize
          /\ pc[t] \in {"truncate", "sizeCas"} => loc[t].new = expandSize

Away    == {"idle", "leave", "fault"} \cup Releasing
Heading == Releasing \ {"release"}
Passed  == {"relNext", "relCas", "relFree"}

\* The head of release_prev_extents is the oldest extent, or the one before it.
HeadOK(t) ==
    /\ pc[t] \in Heading => loc[t].ext <= prev[B(t)] /\ prev[B(t)] <= loc[t].ext + 1
    /\ pc[t] \in Passed \cup {"relAcc"} => loc[t].ext < current[B(t)]
    /\ pc[t] = "relCas" /\ loc[t].ext = prev[B(t)] => loc[t].next = loc[t].ext + 1
    /\ pc[t] = "relFree" => loc[t].ext < prev[B(t)] /\ loc[t].next = loc[t].ext + 1

\* Who has found itself alone stays the only one that may unmap, and who enters later neither
\* works in the head of that thread nor has an older one.
AloneOK(t) ==
    pc[t] \in Passed =>
        \A u \in Threads : u # t /\ B(u) = B(t) =>
            /\ pc[u] \notin Passed
            /\ pc[u] \notin Away => loc[u].ext > loc[t].ext
            /\ pc[u] \in Heading => loc[u].ext >= loc[t].ext

Places     == \A t \in Threads : PlaceOK(t)
SizesAgree == \A t \in Threads : AgreeOK(t)
Alone      == \A t \in Threads : HeadOK(t) /\ AloneOK(t)

In(t, labels) == pc[t] \in labels \/ (pc[t] \in Subroutines /\ loc[t].then \in labels)

Below(c, i) == IF i < Len(free[c]) THEN free[c][i + 1] ELSE 0

Stacks ==
    /\ BASE <= dataAlloc /\ (dataAlloc - BASE) % 4 = 0
    /\ \A s \in Slots : blocks[s] # 0 => s + blocks[s] <= dataAlloc
    /\ \A c \in Classes :
          /\ bucket[c].lo # 0 => free[c] # <<>> /\ bucket[c].lo = free[c][1]
          /\ \A i \in DOMAIN free[c] : word[free[c][i]].lo \in {0, Below(c, i)}

Sized(s) ==
    /\ blocks[s] # 0 /\ word[s].lo \in {0, blocks[s]}
    /\ Undisturbed => word[s].lo = blocks[s]

\* A thread looks for a block of a class that is large enough ...
LooksOK(t) ==
    /\ In(t, {"firstFit", "lookLo", "lookHi", "lookNext", "lookCas", "lookSize"}) =>
          loc[t].want \in Sizes /\ loc[t].class \in Classes /\ loc[t].want <= SizeOf[loc[t].class]
    /\ In(t, {"clear", "newRead", "newCas", "store"}) => loc[t].want \in Sizes

\* ... and if the bucket has not changed since it read it, it knows what is below the top ...
KnowsOK(t) ==
    /\ In(t, {"lookNext", "lookCas"}) =>
          /\ loc[t].before.lo \in Slots /\ loc[t].at = loc[t].before.lo
          /\ loc[t].before.hi <= bucket[loc[t].class].hi
    /\ pc[t] = "lookCas" /\ bucket[loc[t].class] = loc[t].before =>
          /\ loc[t].next \in {0, Below(loc[t].class, 1)}
          /\ Undisturbed => loc[t].next = Below(loc[t].class, 1)

\* ... then it has a block of a known size.
HasOK(t) ==
    /\ pc[t] = "store" =>
          /\ BASE <= loc[t].slot /\ (loc[t].slot - BASE) % 4 = 0
          /\ loc[t].slot + loc[t].want <= dataAlloc
          /\ loc[t].slot \in Slots => blocks[loc[t].slot] = loc[t].want
    /\ HoldsBlock(t) /\ pc[t] # "store" => loc[t].slot \in Slots /\ blocks[loc[t].slot] # 0
    /\ pc[t] \in {"lookSize", "freeHi", "freeLo", "freeCas"} =>
          loc[t].class \in Classes /\ blocks[loc[t].slot] = SizeOf[loc[t].class]
    /\ In(t, {"clear"}) => loc[t].want <= blocks[loc[t].slot]
    /\ In(t, {"clear", "extentOf", "copy", "freeSize"}) => Sized(loc[t].slot)

Held ==
    /\ \A i \in DOMAIN queued : Sized(queued[i])
    /\ \A t \in Threads : LooksOK(t) /\ KnowsOK(t) /\ HasOK(t)

\* Who is in a call has one to finish, and before the others start that is the opener.
Calling == \A t \in Threads : pc[t] # "idle" => Calls(t) # <<>> /\ (prologue # <<>> => t = Opener)

Inv ==
    /\ TypeOK /\ Calling /\ Places /\ SizesFollow /\ SizesAgree /\ NoUseAfterUnmap /\ Alone
    /\ BlocksAccounted /\ Stacks /\ Held

(***************************************************************************)
(* What a step does to its own thread, and that it leaves the others where *)
(* they are.                                                               *)
(***************************************************************************)

Rest(t) ==
    /\ pc' \in [Threads -> Labels] /\ loc' \in [Threads -> Locals]
    /\ \A u \in Threads : u # t => pc'[u] = pc[u] /\ loc'[u] = loc[u]

Steady(t) ==
    /\ loc'[t].want = loc[t].want /\ loc'[t].slot = loc[t].slot /\ loc'[t].at = loc[t].at
    /\ loc'[t].class = loc[t].class /\ loc'[t].before = loc[t].before
    /\ loc'[t].next = loc[t].next /\ loc'[t].then = loc[t].then

\* What the types say of a thread.
LEMMA Facts ==
    ASSUME Inv, NEW t \in Threads
    PROVE  /\ B(t) \in Bases /\ loc[t] \in Locals /\ pc[t] \in Labels
           /\ loc[t].ext \in 1..Len(extents[B(t)]) /\ Mapped(t) \in Nat \ {0}
           /\ current[B(t)] \in 1..Len(extents[B(t)]) /\ current[B(t)] \in Nat \ {0}
           /\ extents[B(t)][current[B(t)]] \in Nat \ {0}
           /\ prev[B(t)] \in Nat \ {0} /\ prev[B(t)] <= current[B(t)]
           /\ extents[B(t)] \in Seq(Nat \ {0}) /\ Len(extents[B(t)]) \in Nat
           /\ size \in Nat /\ expandSize \in Nat /\ fileSize \in Nat /\ dataAlloc \in Nat
           /\ loc[t].want \in Nat /\ loc[t].slot \in Nat /\ loc[t].at \in Nat
<1>1. B(t) \in Bases
  BY MemoryAssumption DEF B
<1>2. loc[t] \in Locals /\ pc[t] \in Labels
  BY DEF Inv, TypeOK
<1>3. loc[t].ext \in Nat \ {0}
  BY <1>2 DEF Locals
<1>4. loc[t].ext <= current[B(t)]
  BY DEF Inv, Places, PlaceOK
<1>5. /\ extents[B(t)] \in Seq(Nat \ {0}) /\ current[B(t)] \in 1..Len(extents[B(t)])
      /\ prev[B(t)] \in 1..current[B(t)]
  BY <1>1 DEF Inv, TypeOK
<1>6. size \in Nat /\ expandSize \in Nat /\ fileSize \in Nat /\ dataAlloc \in Nat
  BY DEF Inv, TypeOK
<1>7. Len(extents[B(t)]) \in Nat
  BY <1>5
<1>8. /\ loc[t].ext \in 1..Len(extents[B(t)]) /\ current[B(t)] \in Nat \ {0}
      /\ prev[B(t)] \in Nat \ {0} /\ prev[B(t)] <= current[B(t)]
  BY <1>3, <1>4, <1>5, <1>7
<1>9. Mapped(t) \in Nat \ {0} /\ extents[B(t)][current[B(t)]] \in Nat \ {0}
  BY <1>5, <1>8 DEF Mapped
<1>10. loc[t].want \in Nat /\ loc[t].slot \in Nat /\ loc[t].at \in Nat
  BY <1>2 DEF Locals
<1>. QED
  BY <1>1, <1>2, <1>5, <1>6, <1>7, <1>8, <1>9, <1>10

\* A block starts behind the header and within the file.
LEMMA SlotFacts ==
    /\ BASE \in Nat \ {0} /\ PageSlots \in Nat /\ MaxSlots \in Nat /\ Slots \subseteq Nat
    /\ \A s \in Slots : BASE <= s /\ s < MaxSlots
  BY MemoryAssumption DEF Slots, MaxSlots

\* A step of a thread moves it, and only it.
LEMMA Moves ==
    ASSUME Inv, NEW t \in Threads, NEW l \in Labels, NEW v \in Locals, Goto(t, l), Set(t, v)
    PROVE  Rest(t) /\ pc'[t] = l /\ loc'[t] = v
  BY DEF Inv, TypeOK, Rest, Goto, Set

\* A step that changes no local leaves the locals as they are.
LEMMA Stays ==
    ASSUME Inv, NEW t \in Threads, NEW l \in Labels, Goto(t, l), UNCHANGED loc
    PROVE  Rest(t) /\ pc'[t] = l /\ Steady(t) /\ loc'[t] = loc[t]
  BY DEF Inv, TypeOK, Rest, Steady, Goto

\* insure_in_range: back to the caller at the current extent, or on to resize_extent.
LEMMA InRangeMoves ==
    ASSUME Inv, NEW t \in Threads, InRange(t)
    PROVE  /\ Rest(t) /\ Steady(t) /\ pc[t] = "range" /\ pc'[t] \in {loc[t].then, "resize"}
           /\ loc'[t].ext = current[B(t)]
<1>1. [loc[t] EXCEPT !.ext = current[B(t)]] \in Locals
  BY Facts DEF Locals
<1>2. pc[t] = "range" /\ loc[t].then \in Labels
  BY DEF InRange, At, Inv, Places, PlaceOK, Labels, Accessing
<1>3. Rest(t) /\ loc'[t] = [loc[t] EXCEPT !.ext = current[B(t)]]
      /\ pc'[t] \in {loc[t].then, "resize"}
  BY <1>1, <1>2, Moves DEF InRange, Labels
<1>. QED
  BY <1>2, <1>3, Facts DEF Steady, Locals

\* insure_fit: back to the caller when the slots are mapped, or on to expand.
LEMMA FitMoves ==
    ASSUME Inv, NEW t \in Threads, Fit(t)
    PROVE  /\ Rest(t) /\ Steady(t) /\ pc[t] = "fit"
           /\ \/ pc'[t] = loc[t].then /\ loc'[t].ext = current[B(t)]
              \/ /\ pc'[t] = "expand" /\ loc'[t].ext = loc[t].ext
                 /\ loc[t].slot + loc[t].want >= Mapped(t)
<1> DEFINE fits == loc[t].slot + loc[t].want < Mapped(t)
           v == [loc[t] EXCEPT !.ext = IF fits THEN current[B(t)] ELSE @]
<1>1. v \in Locals
  BY Facts DEF Locals
<1>2. pc[t] = "fit" /\ loc[t].then \in Labels
  BY DEF Fit, At, Inv, Places, PlaceOK, Labels, Accessing
<1>3. Rest(t) /\ loc'[t] = v /\ pc'[t] = IF fits THEN loc[t].then ELSE "expand"
  BY <1>1, <1>2, Moves DEF Fit, Labels
<1>4. loc[t].slot \in Nat /\ loc[t].want \in Nat /\ Mapped(t) \in Nat
  BY Facts
<1>. QED
  BY SMTT(30), <1>2, <1>3, <1>4, Facts DEF Steady, Locals

\* expand: the thread goes on with the sizes it has read.
LEMMA ExpandMoves ==
    ASSUME Inv, NEW t \in Threads, Expand(t)
    PROVE  /\ Rest(t) /\ Steady(t) /\ pc[t] = "expand"
           /\ \/ pc'[t] = "fit" /\ loc'[t].ext = current[B(t)]
              \/ pc'[t] = "resize" /\ loc'[t].ext = loc[t].ext
              \/ pc'[t] = "expPrev" /\ loc'[t].ext = loc[t].ext /\ Mapped(t) = size
<1>1. pc[t] = "expand" /\ {"fit", "resize", "expPrev"} \subseteq Labels
  BY DEF Expand, At, Labels
<1>2. CASE loc[t].ext # current[B(t)]
  <2>1. [loc[t] EXCEPT !.ext = current[B(t)]] \in Locals
    BY Facts DEF Locals
  <2>2. Rest(t) /\ loc'[t] = [loc[t] EXCEPT !.ext = current[B(t)]] /\ pc'[t] = "fit"
    BY <1>1, <1>2, <2>1, Moves DEF Expand
  <2>. QED  BY <1>1, <2>2, Facts DEF Steady, Locals
<1>3. CASE ~(loc[t].ext # current[B(t)]) /\ Mapped(t) # size
  BY <1>1, <1>3, Stays DEF Expand
<1>4. CASE ~(loc[t].ext # current[B(t)]) /\ Mapped(t) = size
  BY <1>1, <1>4, Stays DEF Expand
<1>. QED  BY <1>2, <1>3, <1>4

\* expand: the SIZE that the expansion starts from is read.
LEMMA ExpPrevMoves ==
    ASSUME Inv, NEW t \in Threads, ExpPrev(t)
    PROVE  /\ Rest(t) /\ Steady(t) /\ pc[t] = "expPrev" /\ pc'[t] = "expCas"
           /\ loc'[t].ext = loc[t].ext /\ loc'[t].old = size
<1>1. [loc[t] EXCEPT !.old = size] \in Locals /\ "expCas" \in Labels
  BY Facts DEF Locals, Labels
<1>2. Rest(t) /\ loc'[t] = [loc[t] EXCEPT !.old = size] /\ pc'[t] = "expCas" /\ pc[t] = "expPrev"
  BY <1>1, Moves DEF ExpPrev, Go, At
<1>. QED
  BY <1>2, Facts DEF Steady, Locals

\* expand: the new size is EXPAND_SIZE as it is read after the CAS.
LEMMA ExpReadMoves ==
    ASSUME Inv, NEW t \in Threads, ExpRead(t)
    PROVE  /\ Rest(t) /\ Steady(t) /\ pc[t] = "expRead" /\ pc'[t] = "truncate"
           /\ loc'[t].ext = loc[t].ext /\ loc'[t].old = loc[t].old /\ loc'[t].new = expandSize
<1>1. [loc[t] EXCEPT !.new = expandSize] \in Locals /\ "truncate" \in Labels
  BY Facts DEF Locals, Labels
<1>2. /\ Rest(t) /\ loc'[t] = [loc[t] EXCEPT !.new = expandSize]
      /\ pc'[t] = "truncate" /\ pc[t] = "expRead"
  BY <1>1, Moves DEF ExpRead, Go, At
<1>. QED
  BY <1>2, Facts DEF Steady, Locals

\* The steps of the extents that leave the locals alone.
LEMMA ExpCasMoves ==
    ASSUME Inv, NEW t \in Threads, ExpCas(t)
    PROVE  /\ Rest(t) /\ Steady(t) /\ loc'[t] = loc[t]
           /\ pc[t] = "expCas" /\ pc'[t] = "expRead"
<1>1. "expRead" \in Labels
  BY DEF Labels
<1>. QED  BY <1>1, Stays DEF ExpCas, Go, At

\* expand: ftruncate is given the size that was read, or is refused.
LEMMA TruncateMoves ==
    ASSUME Inv, NEW t \in Threads, Truncate(t)
    PROVE  /\ Rest(t) /\ Steady(t) /\ loc'[t] = loc[t] /\ pc[t] = "truncate"
           /\ IF loc[t].new <= MaxSlots THEN pc'[t] = "sizeCas" ELSE pc'[t] = "leave"
<1>1. {"sizeCas", "leave"} \subseteq Labels
  BY DEF Labels
<1>2. pc[t] = "truncate" /\ loc[t].then = "newCas"
  BY DEF Truncate, At, Inv, Places, PlaceOK, Expanding
<1>3. CASE loc[t].new <= MaxSlots
  BY <1>1, <1>2, <1>3, Stays DEF Truncate
<1>4. CASE ~(loc[t].new <= MaxSlots)
  BY <1>1, <1>2, <1>4, Stays DEF Truncate
<1>. QED  BY <1>3, <1>4

\* expand: after the CAS of SIZE the extents follow.
LEMMA SizeCasMoves ==
    ASSUME Inv, NEW t \in Threads, SizeCas(t)
    PROVE  /\ Rest(t) /\ Steady(t) /\ loc'[t] = loc[t]
           /\ pc[t] = "sizeCas" /\ pc'[t] \in {"resize", "fit"}
<1>1. {"resize", "fit"} \subseteq Labels
  BY DEF Labels
<1>. QED  BY <1>1, Stays DEF SizeCas, At

\* resize_extent: the thread makes an extent, or returns.
LEMMA ResizeMoves ==
    ASSUME Inv, NEW t \in Threads, Resize(t)
    PROVE  /\ Rest(t) /\ Steady(t) /\ pc[t] = "resize"
           /\ \/ pc'[t] = Resized(t) /\ loc'[t].ext = current[B(t)]
              \/ /\ pc'[t] = "link" /\ loc'[t].ext = loc[t].ext /\ loc'[t].new = size
                 /\ Mapped(t) # size /\ loc[t].ext = current[B(t)]
<1>1. pc[t] = "resize" /\ Resized(t) \in Labels /\ "link" \in Labels
  BY Facts DEF Resize, At, Inv, Places, PlaceOK, Labels, Accessing, Resized, Locals
<1>2. CASE loc[t].ext # current[B(t)] \/ Mapped(t) = size
  <2>1. [loc[t] EXCEPT !.ext = current[B(t)]] \in Locals
    BY Facts DEF Locals
  <2>2. Rest(t) /\ loc'[t] = [loc[t] EXCEPT !.ext = current[B(t)]] /\ pc'[t] = Resized(t)
    BY <1>1, <1>2, <2>1, Moves DEF Resize
  <2>. QED  BY <1>1, <2>2, Facts DEF Steady, Locals
<1>3. CASE ~(loc[t].ext # current[B(t)] \/ Mapped(t) = size)
  <2>1. [loc[t] EXCEPT !.new = size] \in Locals
    BY Facts DEF Locals
  <2>2. Rest(t) /\ loc'[t] = [loc[t] EXCEPT !.new = size] /\ pc'[t] = "link"
    BY <1>1, <1>3, <2>1, Moves DEF Resize
  <2>. QED  BY <1>1, <1>3, <2>2, Facts DEF Steady, Locals
<1>. QED  BY <1>2, <1>3

\* resize_extent: the new extent is linked.
LEMMA LinkMoves ==
    ASSUME Inv, NEW t \in Threads, Link(t)
    PROVE  /\ Rest(t) /\ Steady(t) /\ loc'[t] = loc[t]
           /\ pc[t] = "link" /\ pc'[t] = "advance"
<1>1. "advance" \in Labels
  BY DEF Labels
<1>. QED  BY <1>1, Stays DEF Link, Go, At

\* resize_extent: the current extent moves on.
LEMMA AdvanceMoves ==
    ASSUME Inv, NEW t \in Threads, Advance(t)
    PROVE  /\ Rest(t) /\ Steady(t) /\ pc[t] = "advance" /\ pc'[t] = Resized(t)
           /\ loc'[t].ext = current'[B(t)]
           /\ current' = [current EXCEPT ![B(t)] = IF @ = loc[t].ext THEN @ + 1 ELSE @]
           /\ current'[B(t)] \in Nat \ {0}
<1>1. pc[t] = "advance" /\ Resized(t) \in Labels
  BY Facts DEF Advance, At, Inv, Places, PlaceOK, Labels, Accessing, Resized, Locals
<1>2. current'[B(t)] \in Nat \ {0}
  <2>1. current \in [Bases -> Nat] /\ current[B(t)] \in Nat \ {0} /\ B(t) \in Bases
    BY Facts DEF Inv, TypeOK
  <2>. QED  BY <2>1 DEF Advance
<1>3. [loc[t] EXCEPT !.ext = current'[B(t)]] \in Locals
  BY <1>2, Facts DEF Locals
<1>4. Rest(t) /\ loc'[t] = [loc[t] EXCEPT !.ext = current'[B(t)]] /\ pc'[t] = Resized(t)
  BY <1>1, <1>3, Moves DEF Advance
<1>. QED
  BY <1>1, <1>2, <1>4, Facts DEF Steady, Locals, Advance

\* release_prev_extents: the thread looks at its head, and may unmap it when it is alone.
LEMMA ReleaseMoves ==
    ASSUME Inv, NEW t \in Threads, Release(t)
    PROVE  /\ Rest(t) /\ pc[t] \in Releasing /\ loc'[t].ext <= current[B(t)]
           /\ pc'[t] \in Heading \cup {"leave", "fault"}
           /\ \/ pc[t] = "release" /\ pc'[t] = "relTest" /\ loc'[t].ext = prev[B(t)]
              \/ /\ pc[t] = "relTest" /\ loc'[t] = loc[t]
                 /\ pc'[t] = "leave" \/ (pc'[t] = "relAcc" /\ loc[t].ext # current[B(t)])
              \/ /\ pc[t] = "relAcc" /\ loc'[t] = loc[t]
                 /\ pc'[t] = "leave" \/ (pc'[t] = "relNext" /\ ~(accessors[B(t)] > 1))
              \/ /\ pc[t] = "relNext" /\ pc'[t] \in {"relCas", "fault"}
                 /\ loc'[t].ext = loc[t].ext
                 /\ loc'[t].next = loc[t].ext + 1 \/ loc[t].ext < prev[B(t)]
              \/ /\ pc[t] = "relCas" /\ loc'[t] = loc[t]
                 /\ pc'[t] = "leave" \/ (pc'[t] = "relFree" /\ prev[B(t)] = loc[t].ext)
              \/ pc[t] = "relFree" /\ pc'[t] = "relTest" /\ loc'[t].ext = loc[t].next
<1>0. /\ Releasing \cup {"leave", "fault"} \subseteq Labels
      /\ Heading = {"relTest", "relAcc", "relNext", "relCas", "relFree"}
  BY DEF Labels, Releasing, Heading
<1>a. /\ prev[B(t)] \in Nat \ {0} /\ prev[B(t)] <= current[B(t)] /\ current[B(t)] \in Nat
      /\ loc[t].ext \in Nat \ {0} /\ loc[t].ext <= current[B(t)]
  BY Facts DEF Locals, Inv, Places, PlaceOK
<1>1. CASE ReleaseHead(t)
  <2>1. [NoLocals EXCEPT !.ext = prev[B(t)]] \in Locals
    BY <1>a DEF Locals, NoLocals, Zero, Refs
  <2>2. /\ Rest(t) /\ loc'[t] = [NoLocals EXCEPT !.ext = prev[B(t)]]
        /\ pc[t] = "release" /\ pc'[t] = "relTest"
    BY <1>0, <1>1, <2>1, Moves DEF ReleaseHead, Go, At, Releasing
  <2>3. loc'[t].ext = prev[B(t)]
    BY <2>2 DEF NoLocals
  <2>. QED  BY <1>0, <1>a, <2>2, <2>3 DEF Releasing
<1>2. CASE ReleaseTest(t)
  <2>1. CASE loc[t].ext # current[B(t)] /\ Goto(t, "relAcc")
    <3>1. Rest(t) /\ loc'[t] = loc[t] /\ pc[t] = "relTest" /\ pc'[t] = "relAcc"
      BY <1>0, <1>2, <2>1, Stays DEF ReleaseTest, At, Releasing
    <3>. QED  BY <1>0, <1>a, <2>1, <3>1 DEF Releasing
  <2>2. CASE Goto(t, "leave")
    <3>1. Rest(t) /\ loc'[t] = loc[t] /\ pc[t] = "relTest" /\ pc'[t] = "leave"
      BY <1>0, <1>2, <2>2, Stays DEF ReleaseTest, At
    <3>. QED  BY <1>0, <1>a, <3>1 DEF Releasing
  <2>. QED  BY <1>2, <2>1, <2>2 DEF ReleaseTest
<1>3. CASE ReleaseAlone(t)
  <2>1. CASE accessors[B(t)] > 1
    <3>1. Rest(t) /\ loc'[t] = loc[t] /\ pc[t] = "relAcc" /\ pc'[t] = "leave"
      BY <1>0, <1>3, <2>1, Stays DEF ReleaseAlone, At
    <3>. QED  BY <1>0, <1>a, <3>1 DEF Releasing
  <2>2. CASE ~(accessors[B(t)] > 1)
    <3>1. Rest(t) /\ loc'[t] = loc[t] /\ pc[t] = "relAcc" /\ pc'[t] = "relNext"
      BY <1>0, <1>3, <2>2, Stays DEF ReleaseAlone, At, Releasing
    <3>. QED  BY <1>0, <1>a, <2>2, <3>1 DEF Releasing
  <2>. QED  BY <2>1, <2>2
<1>4. CASE ReleaseNext(t)
  <2>1. CASE Freed(B(t), loc[t].ext)
    <3>1. /\ Rest(t) /\ loc'[t] = loc[t] /\ pc[t] = "relNext"
          /\ pc'[t] \in {"relCas", "fault"}
      BY <1>0, <1>4, <2>1, Stays DEF ReleaseNext, At, Releasing
    <3>2. loc[t].ext < prev[B(t)]
      BY <2>1 DEF Freed
    <3>. QED  BY <1>0, <1>a, <3>1, <3>2 DEF Releasing
  <2>2. CASE ~Freed(B(t), loc[t].ext)
    <3>1. [loc[t] EXCEPT !.next = loc[t].ext + 1] \in Locals
      <4>1. loc[t] \in Locals /\ loc[t].ext + 1 \in Nat
        BY <1>a, Facts
      <4>. QED  BY <4>1 DEF Locals
    <3>2. /\ Rest(t) /\ loc'[t] = [loc[t] EXCEPT !.next = loc[t].ext + 1]
          /\ pc[t] = "relNext" /\ pc'[t] = "relCas"
      BY <1>0, <1>4, <2>2, <3>1, Moves DEF ReleaseNext, At, Releasing
    <3>3. loc'[t].ext = loc[t].ext /\ loc'[t].next = loc[t].ext + 1
      BY <3>2, Facts DEF Locals
    <3>. QED  BY <1>0, <1>a, <3>2, <3>3 DEF Releasing
  <2>. QED  BY <2>1, <2>2
<1>5. CASE ReleaseCas(t)
  <2>1. CASE prev[B(t)] = loc[t].ext
    <3>1. Rest(t) /\ loc'[t] = loc[t] /\ pc[t] = "relCas" /\ pc'[t] = "relFree"
      BY <1>0, <1>5, <2>1, Stays DEF ReleaseCas, At, Releasing
    <3>. QED  BY <1>0, <1>a, <2>1, <3>1 DEF Releasing
  <2>2. CASE prev[B(t)] # loc[t].ext
    <3>1. Rest(t) /\ loc'[t] = loc[t] /\ pc[t] = "relCas" /\ pc'[t] = "leave"
      BY <1>0, <1>5, <2>2, Stays DEF ReleaseCas, At
    <3>. QED  BY <1>0, <1>a, <3>1 DEF Releasing
  <2>. QED  BY <2>1, <2>2
<1>6. CASE ReleaseFree(t)
  <2>1. /\ pc[t] = "relFree" /\ loc[t].next = loc[t].ext + 1 /\ loc[t].ext < current[B(t)]
    BY <1>6 DEF ReleaseFree, Go, At, Inv, Alone, HeadOK, Passed
  <2>2. [NoLocals EXCEPT !.ext = loc[t].next] \in Locals
    BY <1>a, <2>1 DEF Locals, NoLocals, Zero, Refs
  <2>3. Rest(t) /\ loc'[t] = [NoLocals EXCEPT !.ext = loc[t].next] /\ pc'[t] = "relTest"
    BY <1>0, <1>6, <2>2, Moves DEF ReleaseFree, Go, At, Releasing
  <2>4. loc'[t].ext = loc[t].next
    BY <2>3 DEF NoLocals
  <2>. QED  BY <1>0, <1>a, <2>1, <2>3, <2>4 DEF Releasing
<1>. QED  BY <1>1, <1>2, <1>3, <1>4, <1>5, <1>6 DEF Release

\* What the types say of a bucket, and of the first words of a block.
LEMMA WordFacts ==
    ASSUME Inv
    PROVE  /\ \A c \in Classes : bucket[c].lo \in Refs /\ bucket[c].hi \in Nat
                                 /\ bucket[c] = D(bucket[c].lo, bucket[c].hi)
           /\ \A s \in Slots : word[s].lo \in Nat /\ word[s].hi \in Nat
           /\ \A r \in Refs : r \in Nat /\ (r # 0 => r \in Slots)
<1>1. bucket \in [Classes -> [lo : Refs, hi : Nat]] /\ word \in [Slots -> [lo : Nat, hi : Nat]]
  BY DEF Inv, TypeOK
<1>2. \A r \in Refs : r \in Nat /\ (r # 0 => r \in Slots)
  BY SlotFacts DEF Refs
<1>. QED  BY <1>1, <1>2 DEF D

\* find_first_fit: the first bucket of a large enough class that is not empty, or new slots.
LEMMA FirstFitMoves ==
    ASSUME Inv, NEW t \in Threads, FirstFit(t)
    PROVE  /\ Rest(t) /\ pc[t] = "firstFit" /\ loc'[t].want = loc[t].want
           /\ loc'[t].ext = loc[t].ext
           /\ \/ pc'[t] \in {"lookLo", "newRead"} /\ loc'[t] = loc[t]
              \/ /\ pc'[t] = "firstFit" /\ loc'[t].class = loc[t].class + 1
                 /\ loc[t].class + 1 \in Classes
<1>1. pc[t] = "firstFit" /\ {"firstFit", "lookLo", "newRead"} \subseteq Labels
  BY DEF FirstFit, At, Labels
<1>2. CASE bucket[loc[t].class].lo # 0
  BY <1>1, <1>2, Stays DEF FirstFit
<1> DEFINE c == loc[t].class
           larger == c + 1 \in Classes /\ c < ClassOf(loc[t].want) + 2
<1>3. CASE ~(bucket[c].lo # 0) /\ ~larger
  BY <1>1, <1>3, Stays DEF FirstFit
<1>4. CASE ~(bucket[c].lo # 0) /\ larger
  <2>0. c + 1 \in 0..4
    BY <1>4, ClassSizes
  <2>1. [loc[t] EXCEPT !.class = c + 1] \in Locals
    BY <2>0, Facts DEF Locals
  <2>2. Goto(t, "firstFit")
    BY <1>1, <1>4, Facts DEF FirstFit, Goto, Inv, TypeOK
  <2>3. Rest(t) /\ loc'[t] = [loc[t] EXCEPT !.class = c + 1] /\ pc'[t] = "firstFit"
    BY <1>1, <1>4, <2>1, <2>2, Moves DEF FirstFit
  <2>. QED  BY <1>1, <1>4, <2>3, Facts DEF Locals
<1>. QED  BY <1>2, <1>3, <1>4

\* lookup_freed_data: the top of the bucket is read ...
LEMMA LookLoMoves ==
    ASSUME Inv, NEW t \in Threads, LookLo(t)
    PROVE  /\ Rest(t) /\ pc[t] = "lookLo" /\ pc'[t] = "lookHi"
           /\ loc'[t].want = loc[t].want /\ loc'[t].class = loc[t].class
           /\ loc'[t].ext = loc[t].ext
<1>1. pc[t] = "lookLo" /\ "lookHi" \in Labels
  BY DEF LookLo, Go, At, Labels
<1>2. loc[t].class \in Classes
  BY <1>1 DEF Inv, Held, LooksOK, KnowsOK, HasOK, In
<1>3. [loc[t] EXCEPT !.before.lo = bucket[loc[t].class].lo] \in Locals
  <2>1. bucket[loc[t].class].lo \in Refs
    BY <1>2, WordFacts
  <2>. QED  BY <2>1, Facts DEF Locals
<1>4. /\ Rest(t) /\ pc'[t] = "lookHi"
      /\ loc'[t] = [loc[t] EXCEPT !.before.lo = bucket[loc[t].class].lo]
  BY <1>1, <1>3, Moves DEF LookLo, Go
<1>. QED
  BY <1>1, <1>4, Facts DEF Locals

\* ... then its tag ...
LEMMA LookHiMoves ==
    ASSUME Inv, NEW t \in Threads, LookHi(t)
    PROVE  /\ Rest(t) /\ pc[t] = "lookHi"
           /\ loc'[t].want = loc[t].want /\ loc'[t].class = loc[t].class
           /\ loc'[t].ext = loc[t].ext
           /\ loc'[t].before.hi = bucket[loc[t].class].hi /\ loc'[t].at = loc'[t].before.lo
           /\ loc'[t].then = "lookNext"
           /\ \/ pc'[t] = "newRead"
              \/ pc'[t] = "range" /\ loc'[t].before.lo \in Slots
<1> DEFINE v == [loc[t] EXCEPT !.before.hi = bucket[loc[t].class].hi,
                               !.at = loc[t].before.lo, !.then = "lookNext"]
<1>1. pc[t] = "lookHi" /\ {"newRead", "range"} \subseteq Labels
  BY DEF LookHi, Go, At, Labels
<1>2. loc[t].class \in Classes /\ bucket[loc[t].class].hi \in Nat
  BY <1>1, WordFacts DEF Inv, Held, LooksOK, KnowsOK, HasOK, In
<1>3. loc[t].before.lo \in Refs /\ loc[t].before.lo \in Nat
      /\ (loc[t].before.lo # 0 => loc[t].before.lo \in Slots)
  BY Facts, WordFacts DEF Locals
<1>4. v \in Locals
  BY <1>2, <1>3, Facts DEF Locals
<1>5. /\ Rest(t) /\ loc'[t] = v
      /\ pc'[t] = IF loc[t].before.lo = 0 THEN "newRead" ELSE "range"
  BY <1>1, <1>4, Moves DEF LookHi, Go
<1>6. /\ v.want = loc[t].want /\ v.class = loc[t].class /\ v.ext = loc[t].ext
      /\ v.before.hi = bucket[loc[t].class].hi /\ v.before.lo = loc[t].before.lo
      /\ v.at = loc[t].before.lo /\ v.then = "lookNext"
  BY Facts DEF Locals
<1>. QED
  BY <1>1, <1>3, <1>5, <1>6

\* ... then what the top block links to ...
LEMMA LookNextMoves ==
    ASSUME Inv, NEW t \in Threads, LookNext(t)
    PROVE  /\ Rest(t) /\ pc[t] = "lookNext" /\ pc'[t] = "lookCas"
           /\ loc'[t].want = loc[t].want /\ loc'[t].class = loc[t].class
           /\ loc'[t].before = loc[t].before /\ loc'[t].at = loc[t].at
           /\ loc'[t].ext = loc[t].ext /\ loc'[t].next = word[loc[t].before.lo].lo
<1>1. pc[t] = "lookNext" /\ "lookCas" \in Labels
  BY DEF LookNext, Access, Go, At, Labels
<1>2. word[loc[t].before.lo].lo \in Nat
  BY <1>1, WordFacts DEF Inv, Held, LooksOK, KnowsOK, HasOK, In
<1>3. [loc[t] EXCEPT !.next = word[loc[t].before.lo].lo] \in Locals
  BY <1>2, Facts DEF Locals
<1>4. /\ Rest(t) /\ pc'[t] = "lookCas"
      /\ loc'[t] = [loc[t] EXCEPT !.next = word[loc[t].before.lo].lo]
  BY <1>1, <1>3, Moves DEF LookNext, Access, Go
<1>. QED
  BY <1>1, <1>4, Facts DEF Locals

\* ... then the CAS takes the block off, or the search is repeated.
LEMMA LookCasMoves ==
    ASSUME Inv, NEW t \in Threads, LookCas(t)
    PROVE  /\ Rest(t) /\ pc[t] = "lookCas"
           /\ loc'[t].want = loc[t].want /\ loc'[t].class = loc[t].class
           /\ loc'[t].ext = loc[t].ext
           /\ IF Unchanged(t) THEN pc'[t] = "lookSize" /\ loc'[t].slot = loc[t].before.lo
                              ELSE pc'[t] = "lookLo"
<1>1. pc[t] = "lookCas" /\ {"lookSize", "lookLo"} \subseteq Labels
  BY DEF LookCas, At, Labels, Accessing
<1>2. CASE Unchanged(t)
  <2>1. loc[t].before.lo \in Nat
    BY Facts, WordFacts DEF Locals
  <2>2. [loc[t] EXCEPT !.slot = loc[t].before.lo] \in Locals
    BY <2>1, Facts DEF Locals
  <2>3. Rest(t) /\ pc'[t] = "lookSize" /\ loc'[t] = [loc[t] EXCEPT !.slot = loc[t].before.lo]
    BY <1>1, <1>2, <2>2, Moves DEF LookCas
  <2>. QED  BY <1>1, <1>2, <2>3, Facts DEF Locals
<1>3. CASE ~Unchanged(t)
  BY <1>1, <1>3, Stays DEF LookCas
<1>. QED  BY <1>2, <1>3

\* alloc_data_slots: the block gets the size of its bucket back, and insure_fit follows.
LEMMA LookSizeMoves ==
    ASSUME Inv, NEW t \in Threads, LookSize(t)
    PROVE  /\ Rest(t) /\ pc[t] = "lookSize" /\ pc'[t] = "fit"
           /\ loc'[t].want = loc[t].want /\ loc'[t].class = loc[t].class
           /\ loc'[t].slot = loc[t].slot /\ loc'[t].ext = current[B(t)]
           /\ loc'[t].then = "clear"
<1> DEFINE v == [loc[t] EXCEPT !.ext = current[B(t)], !.then = "clear"]
<1>1. pc[t] = "lookSize" /\ "fit" \in Labels /\ v \in Locals
  BY Facts DEF LookSize, Access, Go, At, Labels, Locals
<1>2. Rest(t) /\ pc'[t] = "fit" /\ loc'[t] = v
  BY <1>1, Moves DEF LookSize, Access, Go
<1>. QED
  BY <1>1, <1>2, Facts DEF Locals

\* alloc_data_slots: a block that was freed is cleared and handed out.
LEMMA ClearMoves ==
    ASSUME Inv, NEW t \in Threads, Clear(t)
    PROVE  /\ Rest(t) /\ Steady(t) /\ loc'[t] = loc[t]
           /\ pc[t] = "clear" /\ pc'[t] = "release"
<1>1. "release" \in Labels
  BY DEF Labels, Releasing
<1>. QED  BY <1>1, Stays DEF Clear, Access, Go, At

\* alloc_new_data: the end of the data slots is read ...
LEMMA NewReadMoves ==
    ASSUME Inv, NEW t \in Threads, NewRead(t)
    PROVE  /\ Rest(t) /\ pc[t] = "newRead" /\ pc'[t] = "fit"
           /\ loc'[t].want = loc[t].want /\ loc'[t].ext = current[B(t)]
           /\ loc'[t].then = "newCas"
<1> DEFINE v == [loc[t] EXCEPT !.slot = dataAlloc, !.ext = current[B(t)], !.then = "newCas"]
<1>1. pc[t] = "newRead" /\ "fit" \in Labels /\ v \in Locals
  BY Facts DEF NewRead, Go, At, Labels, Locals
<1>2. Rest(t) /\ pc'[t] = "fit" /\ loc'[t] = v
  BY <1>1, Moves DEF NewRead, Go
<1>. QED
  BY <1>1, <1>2, Facts DEF Locals

\* ... and the CAS moves it over the new slots, or fails.
LEMMA NewCasMoves ==
    ASSUME Inv, NEW t \in Threads, NewCas(t)
    PROVE  /\ Rest(t) /\ Steady(t) /\ loc'[t] = loc[t] /\ pc[t] = "newCas"
           /\ IF loc[t].slot + loc[t].want >= size THEN pc'[t] = "leave"
              ELSE IF dataAlloc = loc[t].slot THEN pc'[t] = "store" ELSE pc'[t] = "newRead"
<1>1. pc[t] = "newCas" /\ {"leave", "store", "newRead"} \subseteq Labels
  BY DEF NewCas, At, Labels, Accessing
<1>2. CASE loc[t].slot + loc[t].want >= size
  BY <1>1, <1>2, Stays DEF NewCas
<1>3. CASE ~(loc[t].slot + loc[t].want >= size) /\ dataAlloc = loc[t].slot
  BY <1>1, <1>3, Stays DEF NewCas
<1>4. CASE ~(loc[t].slot + loc[t].want >= size) /\ dataAlloc # loc[t].slot
  BY <1>1, <1>4, Stays DEF NewCas
<1>. QED  BY <1>2, <1>3, <1>4

\* alloc_new_data: the new block is given its size.
LEMMA StoreMoves ==
    ASSUME Inv, NEW t \in Threads, Store(t)
    PROVE  /\ Rest(t) /\ Steady(t) /\ loc'[t] = loc[t]
           /\ pc[t] = "store" /\ pc'[t] = "release"
<1>1. "release" \in Labels
  BY DEF Labels, Releasing
<1>. QED  BY <1>1, Stays DEF Store, Access, Go, At

\* shr_q_remove: the item taken is looked up in the extent that holds it.
LEMMA ExtentOfMoves ==
    ASSUME Inv, NEW t \in Threads, ExtentOf(t)
    PROVE  /\ Rest(t) /\ pc[t] = "extentOf" /\ pc'[t] = "range"
           /\ loc'[t].slot = loc[t].slot /\ loc'[t].ext = loc[t].ext /\ loc'[t].then = "copy"
<1> DEFINE v == [loc[t] EXCEPT !.at = loc[t].slot + word[loc[t].slot].lo - 1, !.then = "copy"]
<1>1. pc[t] = "extentOf" /\ "range" \in Labels
  BY DEF ExtentOf, Access, Go, At, Labels
<1>2. loc[t].slot \in Slots
  BY <1>1 DEF Inv, Held, HasOK, HoldsBlock, Accessing
<1>3. loc[t].slot + word[loc[t].slot].lo - 1 \in Nat
  <2>1. word[loc[t].slot].lo \in Nat
    BY <1>2, WordFacts
  <2>2. loc[t].slot \in Nat /\ BASE \in Nat \ {0} /\ BASE <= loc[t].slot
    BY <1>2, SlotFacts
  <2>. QED  BY <2>1, <2>2
<1>4. v \in Locals
  BY <1>3, Facts DEF Locals
<1>5. Rest(t) /\ pc'[t] = "range" /\ loc'[t] = v
  BY <1>1, <1>4, Moves DEF ExtentOf, Access, Go
<1>. QED
  BY <1>1, <1>5, Facts DEF Locals

\* shr_q_remove: the item is copied out.
LEMMA CopyMoves ==
    ASSUME Inv, NEW t \in Threads, Copy(t)
    PROVE  /\ Rest(t) /\ Steady(t) /\ loc'[t] = loc[t]
           /\ pc[t] = "copy" /\ pc'[t] = "freeSize"
<1>1. "freeSize" \in Labels
  BY DEF Labels, Accessing
<1>. QED  BY <1>1, Stays DEF Copy, Access, Go, At

\* free_data_slots: the class is that of the size read from the block.
LEMMA FreeSizeMoves ==
    ASSUME Inv, NEW t \in Threads, FreeSize(t)
    PROVE  /\ Rest(t) /\ pc[t] = "freeSize" /\ pc'[t] = "freeHi"
           /\ loc'[t].slot = loc[t].slot /\ loc'[t].ext = loc[t].ext
           /\ word[loc[t].slot].lo \in Sizes /\ loc'[t].class \in Classes
           /\ SizeOf[loc'[t].class] = word[loc[t].slot].lo
<1> DEFINE c == ClassOf(word[loc[t].slot].lo)
<1>1. pc[t] = "freeSize" /\ "freeHi" \in Labels /\ word[loc[t].slot].lo \in Sizes
  BY DEF FreeSize, Access, Go, At, Labels, Accessing
<1>2. c \in Classes /\ SizeOf[c] = word[loc[t].slot].lo
  BY <1>1, ClassSizes
<1>3. c \in 0..4
  BY <1>2, ClassSizes
<1>4. [loc[t] EXCEPT !.class = c] \in Locals
  BY <1>3, Facts DEF Locals
<1>5. Rest(t) /\ pc'[t] = "freeHi" /\ loc'[t] = [loc[t] EXCEPT !.class = c]
  BY <1>1, <1>4, Moves DEF FreeSize, Access, Go
<1>. QED
  BY <1>1, <1>2, <1>5, Facts DEF Locals

\* free_data_slots: the tag of the block is that of the bucket ...
LEMMA FreeHiMoves ==
    ASSUME Inv, NEW t \in Threads, FreeHi(t)
    PROVE  /\ Rest(t) /\ Steady(t) /\ loc'[t] = loc[t]
           /\ pc[t] = "freeHi" /\ pc'[t] = "freeLo"
<1>1. "freeLo" \in Labels
  BY DEF Labels, Accessing
<1>. QED  BY <1>1, Stays DEF FreeHi, Access, Go, At

\* ... as is its link ...
LEMMA FreeLoMoves ==
    ASSUME Inv, NEW t \in Threads, FreeLo(t)
    PROVE  /\ Rest(t) /\ Steady(t) /\ loc'[t] = loc[t]
           /\ pc[t] = "freeLo" /\ pc'[t] = "freeCas"
<1>1. "freeCas" \in Labels
  BY DEF Labels, Accessing
<1>. QED  BY <1>1, Stays DEF FreeLo, Access, Go, At

\* ... and the CAS pushes it, or both are read again.
LEMMA FreeCasMoves ==
    ASSUME Inv, NEW t \in Threads, FreeCas(t)
    PROVE  /\ Rest(t) /\ Steady(t) /\ loc'[t] = loc[t] /\ pc[t] = "freeCas"
           /\ IF bucket[loc[t].class] = word[loc[t].slot]
                THEN pc'[t] = "release" ELSE pc'[t] = "freeHi"
<1>1. pc[t] = "freeCas" /\ {"release", "freeHi"} \subseteq Labels
  BY DEF FreeCas, At, Labels, Accessing, Releasing
<1>2. CASE bucket[loc[t].class] = word[loc[t].slot]
  BY <1>1, <1>2, Stays DEF FreeCas
<1>3. CASE bucket[loc[t].class] # word[loc[t].slot]
  BY <1>1, <1>3, Stays DEF FreeCas
<1>. QED  BY <1>2, <1>3

\* A fault ends the thread where it is.
LEMMA FaultMoves ==
    ASSUME Inv, NEW t \in Threads, Fault(t)
    PROVE  /\ Rest(t) /\ Steady(t) /\ loc'[t] = loc[t]
           /\ pc[t] \in Accessing /\ pc'[t] = "fault"
<1>1. "fault" \in Labels
  BY DEF Labels
<1>. QED  BY <1>1, Stays DEF Fault

\* The head of a sequence is one of its members.
LEMMA HeadIn ==
    ASSUME NEW S, NEW s \in Seq(S), s # <<>>
    PROVE  Head(s) \in S
  OBVIOUS

\* A call of shr_q_add starts at the class of its item.
LEMMA CallAddMoves ==
    ASSUME Inv, NEW t \in Threads, CallAdd(t)
    PROVE  /\ Rest(t) /\ pc[t] = "idle" /\ pc'[t] = "firstFit"
           /\ loc'[t].want \in Sizes /\ loc'[t].class \in Classes
           /\ SizeOf[loc'[t].class] = loc'[t].want /\ loc'[t].ext = current[B(t)]
<1> DEFINE want == RoundUp(Head(Calls(t)))
           v == [NoLocals EXCEPT !.want = want, !.class = ClassOf(want), !.ext = current[B(t)]]
<1>1. pc[t] = "idle" /\ "firstFit" \in Labels /\ Calls(t) # <<>>
  BY DEF CallAdd, Go, At, Labels, Accessing, MayCall
<1>2. Calls(t) \in Seq(0..32)
  BY DEF Calls, Inv, TypeOK
<1>3. want \in Sizes
  <2>1. Head(Calls(t)) \in 0..32
    BY <1>1, <1>2, HeadIn
  <2>. QED  BY <2>1, Rounds
<1>4. want \in 0..32 /\ ClassOf(want) \in 0..4 /\ ClassOf(want) \in Classes
      /\ SizeOf[ClassOf(want)] = want
  BY <1>3, ClassSizes
<1> HIDE DEF want
<1>5. 0 \in Refs
  BY DEF Refs
<1>6. v \in Locals
  BY <1>4, <1>5, Facts DEF Locals, NoLocals, Zero
<1>7. Rest(t) /\ pc'[t] = "firstFit" /\ loc'[t] = v
  BY <1>1, <1>6, Moves DEF CallAdd, Go, want
<1>8. v.want = want /\ v.class = ClassOf(want) /\ v.ext = current[B(t)]
  BY DEF NoLocals
<1>. QED
  BY <1>1, <1>3, <1>4, <1>7, <1>8

\* A remove takes the first item; if there is none, the call is over.
LEMMA CallRemoveMoves ==
    ASSUME Inv, NEW t \in Threads, CallRemove(t)
    PROVE  /\ Rest(t) /\ pc[t] = "idle"
           /\ IF queued # <<>>
                THEN /\ pc'[t] = "range" /\ loc'[t].then = "extentOf"
                     /\ loc'[t].slot = Head(queued) /\ loc'[t].ext = current[B(t)]
                ELSE pc' = pc /\ loc' = loc
<1> DEFINE h == Head(queued)
           v == [NoLocals EXCEPT !.slot = h, !.at = h,
                                 !.then = "extentOf", !.ext = current[B(t)]]
<1>1. pc[t] = "idle" /\ "range" \in Labels
  BY DEF CallRemove, At, Labels
<1>2. CASE queued # <<>>
  <2>1. Head(queued) \in Slots
    BY <1>2 DEF Inv, TypeOK
  <2>2. h \in Nat /\ 0 \in Refs
    BY <2>1, SlotFacts DEF Refs
  <2> HIDE DEF h
  <2>3. v \in Locals
    <3>1. NoLocals \in Locals
      BY <2>2 DEF Locals, NoLocals, Zero
    <3>. QED  BY <2>2, <3>1, Facts DEF Locals
  <2>4. Rest(t) /\ pc'[t] = "range" /\ loc'[t] = v
    BY <1>1, <1>2, <2>3, Moves DEF CallRemove, h
  <2>5. v.then = "extentOf" /\ v.slot = h /\ v.ext = current[B(t)]
    BY DEF NoLocals
  <2>. QED  BY <1>1, <1>2, <2>4, <2>5 DEF h
<1>3. CASE queued = <<>>
  BY <1>1, <1>3 DEF CallRemove, Rest, Inv, TypeOK
<1>. QED  BY <1>2, <1>3

\* The end of a call.
LEMMA LeaveMoves ==
    ASSUME Inv, NEW t \in Threads, Leave(t)
    PROVE  Rest(t) /\ pc[t] = "leave" /\ pc'[t] = "idle" /\ loc'[t] = NoLocals
<1>1. pc[t] = "leave" /\ "idle" \in Labels /\ 0 \in Refs
  BY DEF Leave, Go, At, Labels, Refs
<1>2. NoLocals \in Locals
  BY <1>1 DEF Locals, NoLocals, Zero
<1>. QED
  BY <1>1, <1>2, Moves DEF Leave, Go

(***************************************************************************)
(* A step is one of these.                                                 *)
(***************************************************************************)

\* Whatever the step, the other threads stay where they are.
LEMMA OthersRest ==
    ASSUME Inv, NEW t \in Threads, Step(t)
    PROVE  Rest(t)
<1>1. CASE CallAdd(t) \/ CallRemove(t) \/ Leave(t) \/ Fault(t)
  BY <1>1, CallAddMoves, CallRemoveMoves, LeaveMoves, FaultMoves
<1>2. CASE Extent(t)
  BY <1>2, InRangeMoves, FitMoves, ExpandMoves, ExpPrevMoves, ExpCasMoves, ExpReadMoves,
     TruncateMoves, SizeCasMoves, ResizeMoves, LinkMoves, AdvanceMoves, ReleaseMoves
     DEF Extent
<1>3. CASE Alloc(t)
  BY <1>3, FirstFitMoves, LookLoMoves, LookHiMoves, LookNextMoves, LookCasMoves, LookSizeMoves,
     ClearMoves, NewReadMoves, NewCasMoves, StoreMoves DEF Alloc
<1>4. CASE Free(t)
  BY <1>4, ExtentOfMoves, CopyMoves, FreeSizeMoves, FreeHiMoves, FreeLoMoves, FreeCasMoves
     DEF Free
<1>. QED  BY <1>1, <1>2, <1>3, <1>4 DEF Step

\* Who writes what.
LEMMA Writers ==
    ASSUME NEW t \in Threads, Step(t)
    PROVE  /\ UNCHANGED fileVars \/ ExpCas(t) \/ Truncate(t) \/ SizeCas(t)
           /\ UNCHANGED <<extents, current, prev>> \/ Link(t) \/ Advance(t) \/ ReleaseCas(t)
           /\ UNCHANGED accessors \/ CallAdd(t) \/ CallRemove(t) \/ Leave(t)
           /\ UNCHANGED callVars \/ CallRemove(t) \/ Leave(t) \/ Clear(t) \/ Store(t)
           /\ \/ UNCHANGED blockVars \/ Truncate(t) \/ LookCas(t) \/ LookSize(t) \/ Clear(t)
              \/ NewCas(t) \/ Store(t) \/ FreeHi(t) \/ FreeLo(t) \/ FreeCas(t)
<1>1. CASE CallAdd(t) \/ CallRemove(t) \/ Leave(t) \/ Fault(t)
  BY <1>1 DEF CallAdd, CallRemove, Leave, Fault, fileVars, blockVars, extentVars, callVars
<1>2. CASE Extent(t)
  BY <1>2 DEF Extent, InRange, Fit, Expand, ExpPrev, ExpCas, ExpRead, SizeCas,
     Resize, Link, Advance, Release, ReleaseHead, ReleaseTest,
     ReleaseAlone, ReleaseNext, ReleaseCas, ReleaseFree, fileVars, blockVars,
     extentVars, callVars, Truncate
<1>3. CASE Alloc(t)
  BY <1>3 DEF Alloc, FirstFit, LookLo, LookHi, LookNext, LookCas, LookSize, Clear, NewRead,
     NewCas, Store, fileVars, blockVars, extentVars, callVars
<1>4. CASE Free(t)
  BY <1>4 DEF Free, ExtentOf, Copy, FreeSize, FreeHi, FreeLo, FreeCas, fileVars, blockVars,
     extentVars, callVars
<1>. QED  BY <1>1, <1>2, <1>3, <1>4 DEF Step

(***************************************************************************)
(* The sizes.                                                              *)
(***************************************************************************)

\* What a step does to the sizes: none shrinks, except that of the file, which is recorded.
LEMMA SizesMove ==
    ASSUME Inv, NEW t \in Threads, Step(t)
    PROVE  /\ fileSize' \in 1..MaxSlots /\ size' \in Nat /\ expandSize' \in Nat
           /\ shrunk' \in BOOLEAN /\ overtaken' \in BOOLEAN
           /\ size <= size' /\ expandSize <= expandSize' /\ size' <= expandSize'
           /\ shrunk => shrunk'
           /\ overtaken => overtaken'
           /\ shrunk' \/ fileSize <= fileSize'
<1>0. /\ fileSize \in 1..MaxSlots /\ size \in Nat /\ expandSize \in Nat
      /\ shrunk \in BOOLEAN /\ overtaken \in BOOLEAN /\ size <= expandSize /\ MaxSlots \in Nat
  BY SlotFacts DEF Inv, TypeOK, SizesFollow
<1>1. CASE UNCHANGED fileVars
  BY <1>0, <1>1 DEF fileVars
<1>2. CASE ExpCas(t)
  <2>1. ReallocSize(t) \in Nat
    BY Facts, ReallocType DEF ReallocSize
  <2>2. loc[t].old \in Nat
    BY Facts DEF Locals
  <2>3. /\ expandSize' = IF ReallocSize(t) > loc[t].old /\ expandSize = loc[t].old
                           THEN ReallocSize(t) ELSE expandSize
        /\ overtaken' = (overtaken \/ ReallocSize(t) <= loc[t].old)
        /\ UNCHANGED <<fileSize, size, shrunk>>
    BY <1>2 DEF ExpCas
  <2>. QED  BY <1>0, <2>1, <2>2, <2>3
<1>3. CASE Truncate(t)
  <2>1. loc[t].new \in Nat /\ loc[t].new > 0
    BY <1>3, TruncateMoves, Facts DEF Locals, Inv, SizesAgree, AgreeOK
  <2>2. /\ \/ loc[t].new <= MaxSlots /\ fileSize' = loc[t].new
              /\ shrunk' = (shrunk \/ loc[t].new < fileSize)
           \/ UNCHANGED <<fileSize, shrunk>>
        /\ UNCHANGED <<size, expandSize, overtaken>>
    BY <1>3 DEF Truncate
  <2>3. CASE UNCHANGED <<fileSize, shrunk>>
    BY <1>0, <2>2, <2>3
  <2>4. CASE /\ loc[t].new <= MaxSlots /\ fileSize' = loc[t].new
             /\ shrunk' = (shrunk \/ loc[t].new < fileSize)
    <3>1. shrunk' \/ fileSize <= fileSize'
      <4>1. CASE loc[t].new < fileSize  BY <2>4, <4>1
      <4>2. CASE ~(loc[t].new < fileSize)  BY <1>0, <2>1, <2>4, <4>2
      <4>. QED  BY <4>1, <4>2
    <3>2. fileSize' \in 1..MaxSlots
      BY <1>0, <2>1, <2>4
    <3>3. shrunk' \in BOOLEAN /\ (shrunk => shrunk')
      BY <2>4
    <3>. QED  BY <1>0, <2>2, <3>1, <3>2, <3>3
  <2>. QED  BY <2>2, <2>3, <2>4
<1>4. CASE SizeCas(t)
  <2>1. /\ size' = IF size = loc[t].old THEN expandSize ELSE size
        /\ UNCHANGED <<fileSize, expandSize, shrunk, overtaken>>
    BY <1>4 DEF SizeCas
  <2>. QED  BY <1>0, <2>1
<1>. QED  BY <1>1, <1>2, <1>3, <1>4, Writers

\* A growing list of extents: those that are there stay as they are.
LEMMA ExtentsMove ==
    ASSUME Inv, NEW t \in Threads, Step(t)
    PROVE  /\ extents' \in [Bases -> Seq(Nat \ {0})]
           /\ current' \in [Bases -> Nat] /\ prev' \in [Bases -> Nat]
           /\ \A b \in Bases :
                 /\ Len(extents[b]) <= Len(extents'[b])
                 /\ \A i \in 1..Len(extents[b]) : extents'[b][i] = extents[b][i]
                 /\ current[b] <= current'[b] /\ current'[b] \in 1..Len(extents'[b])
<1>0. /\ extents \in [Bases -> Seq(Nat \ {0})]
      /\ current \in [Bases -> Nat] /\ prev \in [Bases -> Nat]
      /\ \A b \in Bases : current[b] \in 1..Len(extents[b])
      /\ B(t) \in Bases /\ loc[t] \in Locals
  BY Facts DEF Inv, TypeOK
<1>1. CASE UNCHANGED <<extents, current, prev>>
  BY <1>0, <1>1
<1>2. CASE Link(t)
  <2>1. loc[t].new \in Nat \ {0}
    <3>1. Mapped(t) < loc[t].new /\ loc[t].new \in Nat
      BY <1>2, LinkMoves, Facts DEF Inv, Places, PlaceOK, Locals
    <3>. QED  BY <3>1, Facts
  <2>2. /\ extents' = IF Len(extents[B(t)]) = loc[t].ext
                        THEN [extents EXCEPT ![B(t)] = Append(@, loc[t].new)] ELSE extents
        /\ UNCHANGED <<current, prev>>
    BY <1>2 DEF Link
  <2>. QED  BY <1>0, <2>1, <2>2
<1>3. CASE Advance(t)
  <2>1. /\ current' = [current EXCEPT ![B(t)] = IF @ = loc[t].ext THEN @ + 1 ELSE @]
        /\ UNCHANGED <<extents, prev>>
    BY <1>3 DEF Advance
  <2>2. loc[t].ext < Len(extents[B(t)])
    BY <1>3, AdvanceMoves DEF Inv, Places, PlaceOK
  <2>. QED  BY <1>0, <2>1, <2>2
<1>4. CASE ReleaseCas(t)
  <2>1. prev' \in [Bases -> Nat] /\ UNCHANGED <<extents, current>>
    BY <1>0, <1>4 DEF ReleaseCas, Locals
  <2>. QED  BY <1>0, <2>1
<1>. QED  BY <1>1, <1>2, <1>3, <1>4, Writers

(***************************************************************************)
(* Places.                                                                 *)
(***************************************************************************)

\* The extent of a thread at rest is the one it was, and its process has no older current one.
LEMMA Mapping ==
    ASSUME Inv, NEW t \in Threads, Step(t), NEW u \in Threads
    PROVE  /\ loc[u].ext <= current[B(u)] /\ loc[u].ext \in Nat \ {0} /\ B(u) \in Bases
           /\ current[B(u)] \in Nat /\ current'[B(u)] \in Nat
           /\ current[B(u)] <= current'[B(u)]
           /\ current'[B(u)] <= Len(extents'[B(u)])
           /\ Len(extents[B(u)]) <= Len(extents'[B(u)])
           /\ Len(extents[B(u)]) \in Nat /\ Len(extents'[B(u)]) \in Nat
           /\ loc'[u].ext = loc[u].ext => Mapped(u)' = Mapped(u)
<1>1. /\ B(u) \in Bases /\ loc[u].ext \in 1..Len(extents[B(u)]) /\ loc[u].ext <= current[B(u)]
      /\ extents[B(u)] \in Seq(Nat \ {0}) /\ current[B(u)] \in Nat
  BY Facts DEF Inv, Places, PlaceOK, TypeOK
<1>2. /\ Len(extents[B(u)]) <= Len(extents'[B(u)]) /\ extents'[B(u)] \in Seq(Nat \ {0})
      /\ \A i \in 1..Len(extents[B(u)]) : extents'[B(u)][i] = extents[B(u)][i]
      /\ current[B(u)] <= current'[B(u)] /\ current'[B(u)] \in 1..Len(extents'[B(u)])
  BY <1>1, ExtentsMove
<1>3. loc[u].ext \in Nat \ {0} /\ current'[B(u)] \in Nat
      /\ Len(extents[B(u)]) \in Nat /\ Len(extents'[B(u)]) \in Nat
  <2>1. Len(extents[B(u)]) \in Nat
    BY <1>1
  <2>2. Len(extents'[B(u)]) \in Nat
    BY <1>2
  <2>. QED  BY <1>1, <1>2, <2>1, <2>2
<1>4. extents'[B(u)][loc[u].ext] = extents[B(u)][loc[u].ext]
  BY <1>1, <1>2
<1>5. loc'[u].ext = loc[u].ext => Mapped(u)' = Mapped(u)
  BY <1>4 DEF Mapped, B
<1>. QED
  BY <1>1, <1>2, <1>3, <1>5

\* The places of the threads that rest.
LEMMA PlacesRest ==
    ASSUME Inv, NEW t \in Threads, Step(t), NEW u \in Threads, u # t
    PROVE  PlaceOK(u)'
<1>1. pc'[u] = pc[u] /\ loc'[u] = loc[u] /\ PlaceOK(u)
  BY OthersRest DEF Rest, Inv, Places
<1>2. size \in Nat /\ size' \in Nat /\ size <= size' /\ loc[u].new \in Nat
  BY SizesMove, Facts DEF Locals
<1>. QED
  BY <1>1, <1>2, Mapping DEF PlaceOK, B

\* A block that was freed lies below SIZE: an add that reuses it never expands the file.
LEMMA ClearedFits ==
    ASSUME Inv, NEW t \in Threads, pc[t] \in Subroutines, loc[t].then = "clear"
    PROVE  loc[t].slot + loc[t].want < size
<1>1. /\ loc[t].slot \in Slots /\ loc[t].want <= blocks[loc[t].slot]
      /\ blocks[loc[t].slot] # 0
  BY DEF Inv, Held, LooksOK, KnowsOK, HasOK, In, HoldsBlock, Subroutines, Accessing
<1>2. loc[t].slot + blocks[loc[t].slot] <= dataAlloc /\ dataAlloc < size
  BY <1>1 DEF Inv, Stacks, SizesFollow
<1>3. blocks[loc[t].slot] \in Nat
  <2>1. blocks \in [Slots -> 0..32]
    BY DEF Inv, TypeOK
  <2>2. blocks[loc[t].slot] \in 0..32
    BY <1>1, <2>1
  <2>. QED  BY <2>2
<1>4. loc[t].slot \in Nat /\ loc[t].want \in Nat /\ dataAlloc \in Nat /\ size \in Nat
  BY Facts
<1>. QED  BY <1>1, <1>2, <1>3, <1>4

\* No process maps more than SIZE.
LEMMA MappedFits ==
    ASSUME Inv, NEW t \in Threads
    PROVE  Mapped(t) <= size
  BY Facts DEF Inv, SizesFollow, Mapped

\* A subroutine returns to its caller, through the loop of insure_fit if that called it.
LEMMA ResizedTo ==
    ASSUME Inv, NEW t \in Threads, pc[t] \in {"resize", "advance"}
    PROVE  \/ Resized(t) = "fit" /\ loc[t].then \in {"clear", "newCas"}
           \/ Resized(t) = loc[t].then /\ loc[t].then \in {"lookNext", "extentOf", "copy"}
  BY Facts DEF Resized, Locals, Inv, Places, PlaceOK

\* The place of the thread that moves.
LEMMA PlacesMine ==
    ASSUME Inv, NEW t \in Threads, Step(t)
    PROVE  PlaceOK(t)'
<1>0. PlaceOK(t) /\ size \in Nat /\ size' \in Nat /\ size <= size' /\ Mapped(t) \in Nat
  BY SizesMove, Facts DEF Inv, Places
<1>1. CASE CallAdd(t) \/ CallRemove(t) \/ Leave(t) \/ Fault(t)
  <2>1. CASE CallAdd(t)
    BY <1>0, <2>1, CallAddMoves, Mapping DEF PlaceOK, B, Expanding
  <2>2. CASE CallRemove(t)
    BY <1>0, <2>2, CallRemoveMoves, Mapping DEF PlaceOK, B, Expanding
  <2>3. CASE Leave(t)
    BY <1>0, <2>3, LeaveMoves, Mapping DEF PlaceOK, B, Expanding, NoLocals
  <2>4. CASE Fault(t)
    BY <1>0, <2>4, FaultMoves, Mapping DEF PlaceOK, B, Expanding
  <2>. QED  BY <1>1, <2>1, <2>2, <2>3, <2>4
<1>2. CASE Extent(t)
  <2> USE DEF PlaceOK, Expanding, B, Steady
  <2>1. CASE InRange(t)
    BY <1>0, <2>1, InRangeMoves, Mapping
  <2>2. CASE Fit(t)
    BY <1>0, <2>2, FitMoves, Mapping
  <2>3. CASE Expand(t)
    <3>1. loc[t].then = "clear" => loc[t].slot + loc[t].want < size
      BY <2>3, ExpandMoves, ClearedFits DEF Subroutines
    <3>2. loc[t].slot \in Nat /\ loc[t].want \in Nat
      BY Facts
    <3>. QED  BY SMTT(30), <1>0, <2>3, <3>1, <3>2, ExpandMoves, Mapping
  <2>4. CASE ExpPrev(t)
    BY <1>0, <2>4, ExpPrevMoves, Mapping
  <2>5. CASE ExpCas(t)
    BY <1>0, <2>5, ExpCasMoves, Mapping
  <2>6. CASE ExpRead(t)
    BY <1>0, <2>6, ExpReadMoves, Mapping
  <2>7. CASE Truncate(t)
    BY <1>0, <2>7, TruncateMoves, Mapping
  <2>8. CASE SizeCas(t)
    BY <1>0, <2>8, SizeCasMoves, Mapping
  <2>9. CASE Resize(t)
    <3>1. CASE pc'[t] = Resized(t) /\ loc'[t].ext = current[B(t)]
      BY <1>0, <2>9, <3>1, ResizeMoves, ResizedTo, Mapping
    <3>2. CASE ~(pc'[t] = Resized(t) /\ loc'[t].ext = current[B(t)])
      <4>1. /\ pc'[t] = "link" /\ loc'[t].ext = loc[t].ext /\ loc'[t].new = size
            /\ Mapped(t) # size /\ loc'[t].then = loc[t].then /\ pc[t] = "resize"
        BY <2>9, <3>2, ResizeMoves
      <4>2. Mapped(t) < size
        BY <1>0, <4>1, MappedFits
      <4>. QED  BY <1>0, <4>1, <4>2, Mapping
    <3>. QED  BY <3>1, <3>2
  <2>10. CASE Link(t)
    <3>1. loc[t].ext < Len(extents'[B(t)])
      <4>1. extents' = IF Len(extents[B(t)]) = loc[t].ext
                         THEN [extents EXCEPT ![B(t)] = Append(@, loc[t].new)] ELSE extents
        BY <2>10 DEF Link
      <4>2. extents \in [Bases -> Seq(Nat \ {0})] /\ B(t) \in Bases
            /\ loc[t].ext \in 1..Len(extents[B(t)])
        BY Facts DEF Inv, TypeOK
      <4>3. CASE Len(extents[B(t)]) = loc[t].ext
        <5>1. extents'[B(t)] = Append(extents[B(t)], loc[t].new)
          BY <4>1, <4>2, <4>3
        <5>. QED  BY <4>2, <4>3, <5>1
      <4>4. CASE Len(extents[B(t)]) # loc[t].ext
        BY <4>1, <4>2, <4>4
      <4>. QED  BY <4>3, <4>4
    <3>. QED  BY <1>0, <2>10, <3>1, LinkMoves, Mapping
  <2>11. CASE Advance(t)
    BY <1>0, <2>11, AdvanceMoves, ResizedTo, Mapping
  <2>12. CASE Release(t)
    <3>1. /\ pc'[t] \in Releasing \cup {"leave", "fault"} /\ loc'[t].ext <= current[B(t)]
          /\ loc'[t].ext \in Nat /\ current[B(t)] \in Nat
      BY <2>12, ReleaseMoves, Facts DEF Heading, Rest, Locals
    <3>. QED  BY <1>0, <3>1, Mapping DEF Releasing
  <2>. QED
    BY <1>2, <2>1, <2>2, <2>3, <2>4, <2>5, <2>6, <2>7, <2>8, <2>9, <2>10, <2>11, <2>12
       DEF Extent
<1>3. CASE Alloc(t)
  <2> USE DEF PlaceOK, Expanding, B, Steady
  <2>1. CASE FirstFit(t)
    BY <1>0, <2>1, FirstFitMoves, Mapping
  <2>2. CASE LookLo(t)
    BY <1>0, <2>2, LookLoMoves, Mapping
  <2>3. CASE LookHi(t)
    BY <1>0, <2>3, LookHiMoves, Mapping
  <2>4. CASE LookNext(t)
    BY <1>0, <2>4, LookNextMoves, Mapping
  <2>5. CASE LookCas(t)
    BY <1>0, <2>5, LookCasMoves, Mapping
  <2>6. CASE LookSize(t)
    BY <1>0, <2>6, LookSizeMoves, Mapping
  <2>7. CASE Clear(t)
    BY <1>0, <2>7, ClearMoves, Mapping
  <2>8. CASE NewRead(t)
    BY <1>0, <2>8, NewReadMoves, Mapping
  <2>9. CASE NewCas(t)
    BY <1>0, <2>9, NewCasMoves, Mapping
  <2>10. CASE Store(t)
    BY <1>0, <2>10, StoreMoves, Mapping
  <2>. QED
    BY <1>3, <2>1, <2>2, <2>3, <2>4, <2>5, <2>6, <2>7, <2>8, <2>9, <2>10 DEF Alloc
<1>4. CASE Free(t)
  <2> USE DEF PlaceOK, Expanding, B, Steady
  <2>1. CASE ExtentOf(t)
    BY <1>0, <2>1, ExtentOfMoves, Mapping
  <2>2. CASE Copy(t)
    BY <1>0, <2>2, CopyMoves, Mapping
  <2>3. CASE FreeSize(t)
    BY <1>0, <2>3, FreeSizeMoves, Mapping
  <2>4. CASE FreeHi(t)
    BY <1>0, <2>4, FreeHiMoves, Mapping
  <2>5. CASE FreeLo(t)
    BY <1>0, <2>5, FreeLoMoves, Mapping
  <2>6. CASE FreeCas(t)
    BY <1>0, <2>6, FreeCasMoves, Mapping
  <2>. QED  BY <1>4, <2>1, <2>2, <2>3, <2>4, <2>5, <2>6 DEF Free
<1>. QED  BY <1>1, <1>2, <1>3, <1>4 DEF Step

(***************************************************************************)
(* SizesFollow and SizesAgree.                                             *)
(***************************************************************************)

\* Which step changes which size.
LEMMA SizeWriters ==
    ASSUME Inv, NEW t \in Threads, Step(t)
    PROVE  /\ dataAlloc' = dataAlloc \/ NewCas(t)
           /\ size' = size \/ SizeCas(t)
           /\ fileSize' = fileSize \/ Truncate(t)
           /\ expandSize' = expandSize \/ ExpCas(t)
<1>1. dataAlloc' = dataAlloc \/ NewCas(t)
  BY Writers DEF blockVars, Truncate, LookCas, LookSize, Clear, Store, FreeHi, FreeLo, FreeCas
<1>2. UNCHANGED fileVars \/ ExpCas(t) \/ Truncate(t) \/ SizeCas(t)
  BY Writers
<1>3. CASE UNCHANGED fileVars
  BY <1>1, <1>3 DEF fileVars
<1>4. CASE ExpCas(t)
  BY <1>1, <1>4 DEF ExpCas
<1>5. CASE Truncate(t)
  BY <1>1, <1>5 DEF Truncate
<1>6. CASE SizeCas(t)
  BY <1>1, <1>6 DEF SizeCas
<1>. QED  BY <1>2, <1>3, <1>4, <1>5, <1>6

\* The extents of a process after a step: Link appends one, larger than the last and no larger
\* than SIZE.
LEMMA Linking ==
    ASSUME Inv, NEW t \in Threads, Step(t), NEW b \in Bases
    PROVE  \/ extents'[b] = extents[b]
           \/ /\ Link(t) /\ b = B(t) /\ Len(extents[b]) = loc[t].ext
              /\ extents'[b] = Append(extents[b], loc[t].new)
              /\ Mapped(t) < loc[t].new /\ loc[t].new <= size /\ loc[t].new \in Nat
<1>1. CASE Link(t)
  <2>1. extents' = IF Len(extents[B(t)]) = loc[t].ext
                     THEN [extents EXCEPT ![B(t)] = Append(@, loc[t].new)] ELSE extents
    BY <1>1 DEF Link
  <2>2. extents \in [Bases -> Seq(Nat \ {0})]
    BY DEF Inv, TypeOK
  <2>3. Mapped(t) < loc[t].new /\ loc[t].new <= size /\ loc[t].new \in Nat
    BY <1>1, LinkMoves, Facts DEF Inv, Places, PlaceOK, Locals
  <2>. QED  BY <1>1, <2>1, <2>2, <2>3
<1>2. CASE ~Link(t)
  BY <1>2, Writers DEF Advance, ReleaseCas
<1>. QED  BY <1>1, <1>2

\* Each step keeps the sizes in order.
LEMMA SizesKept ==
    ASSUME Inv, NEW t \in Threads, Step(t)
    PROVE  SizesFollow'
<1>0. /\ size \in Nat /\ size' \in Nat /\ size <= size' /\ size' <= expandSize'
      /\ dataAlloc \in Nat /\ dataAlloc < size
  BY SizesMove, Facts DEF Inv, SizesFollow
<1>1. dataAlloc' < size'
  <2>1. CASE NewCas(t)
    <3>1. dataAlloc' = dataAlloc
          \/ (dataAlloc' = loc[t].slot + loc[t].want /\ ~(loc[t].slot + loc[t].want >= size))
      BY <2>1 DEF NewCas
    <3>2. loc[t].slot + loc[t].want \in Nat
      BY Facts
    <3>. QED  BY <1>0, <3>1, <3>2
  <2>2. CASE dataAlloc' = dataAlloc
    BY <1>0, <2>2
  <2>. QED  BY <2>1, <2>2, SizeWriters
<1>2. shrunk' \/ overtaken' \/ size' <= fileSize'
  <2>1. /\ fileSize \in Nat /\ fileSize' \in Nat /\ expandSize \in Nat /\ loc[t].new \in Nat
        /\ (shrunk => shrunk') /\ (overtaken => overtaken')
        /\ shrunk' \/ fileSize <= fileSize'
        /\ shrunk \/ overtaken \/ size <= fileSize
    BY SizesMove, Facts DEF Locals, Inv, SizesFollow
  <2>2. CASE size' = size
    BY <1>0, <2>1, <2>2
  <2>3. CASE SizeCas(t) /\ size' # size
    <3>1. size = loc[t].old /\ size' = expandSize /\ fileSize' = fileSize
      BY <2>3 DEF SizeCas
    <3>2. shrunk \/ overtaken \/ (loc[t].new <= fileSize /\ loc[t].new = expandSize)
      BY <2>3, <3>1, SizeCasMoves DEF Inv, SizesAgree, AgreeOK
    <3>. QED  BY <2>1, <3>1, <3>2
  <2>. QED  BY <2>2, <2>3, SizeWriters
<1>3. ASSUME NEW b \in Bases, NEW i \in 1..Len(extents'[b])
      PROVE  extents'[b][i] <= size' /\ (i > 1 => extents'[b][i - 1] < extents'[b][i])
  <2>1. /\ extents[b] \in Seq(Nat \ {0})
        /\ \A j \in 1..Len(extents[b]) :
              extents[b][j] <= size /\ (j > 1 => extents[b][j - 1] < extents[b][j])
    BY DEF Inv, TypeOK, SizesFollow
  <2>2. CASE extents'[b] = extents[b]
    <3>1. i \in 1..Len(extents[b])
      BY <2>2
    <3>2. extents[b][i] \in Nat /\ extents[b][i] <= size
      BY <2>1, <3>1
    <3>3. extents'[b][i] <= size'
      BY <1>0, <2>2, <3>2
    <3>4. i > 1 => extents'[b][i - 1] < extents'[b][i]
      BY <2>1, <2>2, <3>1
    <3>. QED  BY <3>3, <3>4
  <2>3. CASE extents'[b] # extents[b]
    <3>1. /\ b = B(t) /\ Len(extents[b]) = loc[t].ext /\ Mapped(t) < loc[t].new
          /\ extents'[b] = Append(extents[b], loc[t].new)
          /\ loc[t].new <= size /\ loc[t].new \in Nat
      BY <2>3, Linking
    <3>2. extents[b][Len(extents[b])] < loc[t].new
      BY <3>1 DEF Mapped
    <3>3. CASE i \in 1..Len(extents[b])
      <4>1. extents'[b][i] = extents[b][i] /\ (i > 1 => extents'[b][i - 1] = extents[b][i - 1])
        BY <2>1, <3>1, <3>3
      <4>2. extents[b][i] \in Nat /\ extents[b][i] <= size
        BY <2>1, <3>3
      <4>. QED  BY <1>0, <2>1, <3>3, <4>1, <4>2
    <3>4. CASE i \notin 1..Len(extents[b])
      <4>1. i = Len(extents[b]) + 1 /\ Len(extents[b]) \in Nat
        BY <2>1, <3>1, <3>4
      <4>2. extents'[b][i] = loc[t].new
            /\ (i > 1 => extents'[b][i - 1] = extents[b][Len(extents[b])])
        BY <2>1, <3>1, <4>1
      <4>. QED  BY <1>0, <3>1, <3>2, <4>2
    <3>. QED  BY <3>3, <3>4
  <2>. QED  BY <2>2, <2>3
<1>4. \A b \in Bases : \A i \in 1..Len(extents'[b]) :
         extents'[b][i] <= size' /\ (i > 1 => extents'[b][i - 1] < extents'[b][i])
  BY <1>3
<1>. QED
  BY <1>0, <1>1, <1>2, <1>4 DEF SizesFollow

\* Only the steps of expand get there.
LEMMA ExpandSteps ==
    ASSUME Inv, NEW t \in Threads, Step(t), pc'[t] \in Expanding \ {"expPrev"}
    PROVE  ExpPrev(t) \/ ExpCas(t) \/ ExpRead(t) \/ Truncate(t)
<1> DEFINE to == pc'[t] \in {"expCas", "expRead", "truncate", "sizeCas"}
<1>0. to
  BY DEF Expanding
<1>1. CASE CallAdd(t) \/ CallRemove(t) \/ Leave(t) \/ Fault(t)
  BY <1>0, <1>1, CallAddMoves, CallRemoveMoves, LeaveMoves, FaultMoves
<1>2. CASE Extent(t)
  <2>1. CASE InRange(t) \/ Fit(t)
    <3>1. loc[t].then \in {"lookNext", "clear", "newCas", "extentOf", "copy"}
      BY <2>1, InRangeMoves, FitMoves DEF Inv, Places, PlaceOK
    <3>. QED  BY <1>0, <2>1, <3>1, InRangeMoves, FitMoves
  <2>2. CASE Resize(t) \/ Advance(t)
    <3>1. Resized(t) \in {"fit", "lookNext", "extentOf", "copy"}
      BY <2>2, ResizeMoves, AdvanceMoves, ResizedTo
    <3>. QED  BY <1>0, <2>2, <3>1, ResizeMoves, AdvanceMoves
  <2>3. CASE Expand(t) \/ SizeCas(t) \/ Link(t)
    BY <1>0, <2>3, ExpandMoves, SizeCasMoves, LinkMoves
  <2>4. CASE Release(t)
    BY <1>0, <2>4, ReleaseMoves DEF Heading, Releasing
  <2>. QED  BY <1>2, <2>1, <2>2, <2>3, <2>4 DEF Extent
<1>3. CASE Alloc(t)
  <2>1. CASE FirstFit(t) \/ LookLo(t) \/ LookHi(t) \/ LookNext(t) \/ LookCas(t)
    BY <1>0, <2>1, FirstFitMoves, LookLoMoves, LookHiMoves, LookNextMoves, LookCasMoves
  <2>2. CASE LookSize(t) \/ Clear(t) \/ NewRead(t) \/ NewCas(t) \/ Store(t)
    BY <1>0, <2>2, LookSizeMoves, ClearMoves, NewReadMoves, NewCasMoves, StoreMoves
  <2>. QED  BY <1>3, <2>1, <2>2 DEF Alloc
<1>4. CASE Free(t)
  BY <1>0, <1>4, ExtentOfMoves, CopyMoves, FreeSizeMoves, FreeHiMoves, FreeLoMoves, FreeCasMoves
     DEF Free
<1>. QED  BY <1>1, <1>2, <1>3, <1>4 DEF Step

\* The others: EXPAND_SIZE does not change under an expansion that still sees its SIZE.
LEMMA AgreeRest ==
    ASSUME Inv, NEW t \in Threads, Step(t), NEW u \in Threads, u # t
    PROVE  AgreeOK(u)'
<1>1. pc'[u] = pc[u] /\ loc'[u] = loc[u] /\ AgreeOK(u)
  BY OthersRest DEF Rest, Inv, SizesAgree
<1>2. /\ size \in Nat /\ size' \in Nat /\ size <= size' /\ expandSize \in Nat
      /\ expandSize' \in Nat /\ expandSize <= expandSize' /\ fileSize \in Nat /\ fileSize' \in Nat
      /\ loc[u].old \in Nat /\ loc[u].new \in Nat
      /\ (shrunk => shrunk') /\ (overtaken => overtaken') /\ (shrunk' \/ fileSize <= fileSize')
  <2>1. loc[u].old \in Nat /\ loc[u].new \in Nat
    BY Facts DEF Locals
  <2>. QED  BY <2>1, SizesMove, SlotFacts, Facts
<1>3. CASE pc[u] \notin Expanding \ {"expPrev"}
  BY <1>1, <1>3 DEF AgreeOK, Expanding
<1>4. CASE pc[u] \in Expanding \ {"expPrev"}
  <2>1. loc[u].old <= size
    BY <1>1, <1>4 DEF AgreeOK
  <2>2. pc[u] = "sizeCas" => shrunk' \/ loc[u].new <= fileSize'
    BY <1>1, <1>2 DEF AgreeOK
  <2>3. ASSUME loc[u].old = size', ~overtaken', pc[u] \in {"expRead", "truncate", "sizeCas"}
        PROVE  loc[u].old < expandSize' /\ expandSize' = expandSize
    <3>1. loc[u].old = size /\ ~overtaken
      BY <1>2, <2>1, <2>3
    <3>2. loc[u].old < expandSize
      BY <1>1, <2>3, <3>1 DEF AgreeOK
    <3>3. expandSize' = expandSize
      <4>1. SUFFICES ASSUME ExpCas(t), expandSize = loc[t].old  PROVE FALSE
        BY SizeWriters DEF ExpCas
      <4>2. loc[t].old <= size /\ loc[t].old \in Nat
        BY <4>1, ExpCasMoves, Facts DEF Inv, SizesAgree, AgreeOK, Expanding, Locals
      <4>. QED  BY <1>2, <3>1, <3>2, <4>1, <4>2
    <3>. QED  BY <1>2, <3>2, <3>3
  <2>4. pc[u] \in {"truncate", "sizeCas"} /\ loc[u].old = size' /\ ~overtaken'
           => loc[u].new = expandSize'
    <3>1. SUFFICES ASSUME pc[u] \in {"truncate", "sizeCas"}, loc[u].old = size', ~overtaken'
                   PROVE  loc[u].new = expandSize'
      OBVIOUS
    <3>2. expandSize' = expandSize
      BY <2>3, <3>1
    <3>3. loc[u].old = size /\ ~overtaken
      BY <1>2, <2>1, <3>1
    <3>4. loc[u].new = expandSize
      BY <1>1, <3>1, <3>3 DEF AgreeOK
    <3>. QED  BY <3>2, <3>4
  <2>5. loc[u].old <= size'
    BY <1>2, <2>1
  <2>6. pc[u] = "truncate" => loc[u].new > 0
    BY <1>1 DEF AgreeOK
  <2>. QED  BY <1>1, <2>2, <2>3, <2>4, <2>5, <2>6 DEF AgreeOK
<1>. QED  BY <1>3, <1>4

\* What the thread that moves knows of the sizes.
LEMMA AgreeMine ==
    ASSUME Inv, NEW t \in Threads, Step(t)
    PROVE  AgreeOK(t)'
<1>0. /\ size \in Nat /\ expandSize \in Nat /\ fileSize \in Nat /\ loc[t].old \in Nat
      /\ loc[t].new \in Nat /\ dataAlloc \in Nat /\ dataAlloc < size /\ size <= expandSize
      /\ AgreeOK(t)
  BY Facts DEF Locals, Inv, SizesAgree, SizesFollow
<1>1. CASE ExpPrev(t)
  <2>1. size' = size
    BY <1>1 DEF ExpPrev, fileVars
  <2>. QED  BY <1>0, <1>1, <2>1, ExpPrevMoves DEF AgreeOK
<1>2. CASE ExpCas(t)
  <2>1. loc[t].old <= size /\ pc'[t] = "expRead" /\ loc'[t] = loc[t]
    BY <1>0, <1>2, ExpCasMoves DEF AgreeOK, Expanding
  <2>3. ReallocSize(t) \in Nat
    BY Facts, ReallocType DEF ReallocSize
  <2>2. /\ size' = size /\ (~overtaken' => ReallocSize(t) > loc[t].old)
        /\ expandSize' = IF ReallocSize(t) > loc[t].old /\ expandSize = loc[t].old
                           THEN ReallocSize(t) ELSE expandSize
    <3>1. /\ size' = size /\ overtaken' = (overtaken \/ ReallocSize(t) <= loc[t].old)
          /\ expandSize' = IF ReallocSize(t) > loc[t].old /\ expandSize = loc[t].old
                             THEN ReallocSize(t) ELSE expandSize
      BY <1>2 DEF ExpCas
    <3>2. ~overtaken' => ~(ReallocSize(t) <= loc[t].old)
      BY <3>1
    <3>3. ~(ReallocSize(t) <= loc[t].old) => ReallocSize(t) > loc[t].old
      BY <1>0, <2>3
    <3>. QED  BY <3>1, <3>2, <3>3
  <2>4. loc[t].old = size /\ ~overtaken' => loc[t].old < expandSize'
    BY <1>0, <2>2, <2>3
  <2>. QED  BY <2>1, <2>2, <2>4 DEF AgreeOK
<1>3. CASE ExpRead(t)
  <2>1. UNCHANGED <<size, expandSize, overtaken>>
    BY <1>3 DEF ExpRead, fileVars
  <2>2. loc[t].old <= size /\ (loc[t].old = size /\ ~overtaken => loc[t].old < expandSize)
        /\ pc'[t] = "truncate" /\ loc'[t].old = loc[t].old /\ loc'[t].new = expandSize
    BY <1>0, <1>3, ExpReadMoves DEF AgreeOK, Expanding
  <2>3. expandSize > 0
    BY <1>0
  <2>. QED  BY <2>1, <2>2, <2>3 DEF AgreeOK
<1>4. CASE Truncate(t)
  <2>1. loc[t].old <= size /\ UNCHANGED <<size, expandSize, overtaken>> /\ loc'[t] = loc[t]
        /\ pc[t] = "truncate"
    BY <1>0, <1>4, TruncateMoves DEF AgreeOK, Expanding, Truncate
  <2>2. CASE loc[t].new <= MaxSlots
    <3>1. fileSize' = loc[t].new /\ pc'[t] = "sizeCas"
      BY <1>4, <2>2, TruncateMoves DEF Truncate
    <3>. QED  BY <1>0, <2>1, <3>1 DEF AgreeOK
  <2>3. CASE ~(loc[t].new <= MaxSlots)
    BY <1>4, <2>3, TruncateMoves DEF AgreeOK, Expanding
  <2>. QED  BY <2>2, <2>3
<1>5. CASE ~(ExpPrev(t) \/ ExpCas(t) \/ ExpRead(t) \/ Truncate(t))
  BY <1>5, ExpandSteps DEF AgreeOK, Expanding
<1>. QED  BY <1>1, <1>2, <1>3, <1>4, <1>5

(***************************************************************************)
(* Who unmaps.                                                             *)
(***************************************************************************)

InCall(b) == {t \in Threads : B(t) = b /\ pc[t] # "idle"}

UsesOK(t) == pc[t] \notin Away => loc[t].ext >= prev[B(t)]

\* Which extent a thread turns to; it turns to an old one only in release_prev_extents.
LEMMA ExtentChosen ==
    ASSUME Inv, NEW t \in Threads, Step(t)
    PROVE  \/ /\ pc[t] \notin {"idle", "leave"} \cup Releasing
              /\ pc'[t] \notin {"idle"} \cup Heading
              /\ loc'[t].ext \in {loc[t].ext, current[B(t)], current'[B(t)]}
           \/ /\ pc[t] = "idle" /\ pc'[t] \notin Away /\ loc'[t].ext = current[B(t)]
              /\ CallAdd(t) \/ CallRemove(t)
           \/ pc[t] = "idle" /\ pc'[t] = "idle" /\ CallRemove(t)
           \/ pc[t] = "leave" /\ pc'[t] = "idle" /\ Leave(t)
           \/ Release(t) /\ pc[t] \in Releasing /\ pc'[t] \in Heading \cup {"leave", "fault"}
<1> USE DEF Releasing, Heading
<1> DEFINE within == /\ pc[t] \notin {"idle", "leave"} \cup Releasing
                     /\ pc'[t] \notin {"idle"} \cup Heading
                     /\ loc'[t].ext \in {loc[t].ext, current[B(t)], current'[B(t)]}
<1>1. CASE CallAdd(t) \/ CallRemove(t) \/ Leave(t)
  BY <1>1, CallAddMoves, CallRemoveMoves, LeaveMoves DEF Away
<1>2. CASE Fault(t)
  <2>1. within
    BY <1>2, FaultMoves DEF Accessing
  <2>. QED  BY <2>1
<1>3. CASE Extent(t)
  <2>1. CASE InRange(t) \/ Fit(t)
    <3>1. pc[t] \in {"range", "fit"}
          /\ loc[t].then \in {"lookNext", "clear", "newCas", "extentOf", "copy"}
      BY <2>1, InRangeMoves, FitMoves DEF Inv, Places, PlaceOK
    <3>2. within
      BY <2>1, <3>1, InRangeMoves, FitMoves
    <3>. QED  BY <3>2
  <2>2. CASE Resize(t) \/ Advance(t)
    <3>1. Resized(t) \in {"fit", "lookNext", "extentOf", "copy"}
      BY <2>2, ResizeMoves, AdvanceMoves, ResizedTo
    <3>2. within
      BY <2>2, <3>1, ResizeMoves, AdvanceMoves
    <3>. QED  BY <3>2
  <2>3. CASE Expand(t) \/ ExpPrev(t) \/ ExpCas(t) \/ ExpRead(t) \/ Truncate(t) \/ SizeCas(t)
             \/ Link(t)
    <3>1. within
      BY <2>3, ExpandMoves, ExpPrevMoves, ExpCasMoves, ExpReadMoves, TruncateMoves, SizeCasMoves,
         LinkMoves
    <3>. QED  BY <3>1
  <2>4. CASE Release(t)
    BY <2>4, ReleaseMoves
  <2>. QED  BY <1>3, <2>1, <2>2, <2>3, <2>4 DEF Extent
<1>4. CASE Alloc(t)
  <2>1. CASE FirstFit(t) \/ LookLo(t) \/ LookHi(t) \/ LookNext(t) \/ LookCas(t)
    <3>1. within
      BY <2>1, FirstFitMoves, LookLoMoves, LookHiMoves, LookNextMoves, LookCasMoves
    <3>. QED  BY <3>1
  <2>2. CASE LookSize(t) \/ NewRead(t) \/ NewCas(t)
    <3>1. within
      BY <2>2, LookSizeMoves, NewReadMoves, NewCasMoves
    <3>. QED  BY <3>1
  <2>3. CASE Clear(t) \/ Store(t)
    <3>1. within
      BY <2>3, ClearMoves, StoreMoves
    <3>. QED  BY <3>1
  <2>. QED  BY <1>4, <2>1, <2>2, <2>3 DEF Alloc
<1>5. CASE Free(t)
  <2>1. within
    BY <1>5, ExtentOfMoves, CopyMoves, FreeSizeMoves, FreeHiMoves, FreeLoMoves, FreeCasMoves
       DEF Free
  <2>. QED  BY <2>1
<1>. QED  BY <1>1, <1>2, <1>3, <1>4, <1>5 DEF Step

\* "accessors" counts the threads of the process that are in a call.
LEMMA Counted ==
    ASSUME Inv, NEW t \in Threads, Step(t)
    PROVE  /\ accessors' \in [Bases -> Nat]
           /\ \A b \in Bases : accessors'[b] = Cardinality(InCall(b)')
<1>0. /\ accessors \in [Bases -> Nat] /\ B(t) \in Bases /\ IsFiniteSet(Threads)
      /\ \A b \in Bases : accessors[b] = Cardinality(InCall(b))
  BY MemoryAssumption, Facts DEF Inv, TypeOK, InCall
<1>1. \A b \in Bases : IsFiniteSet(InCall(b)) /\ InCall(b) \subseteq Threads
  BY <1>0, FS_Subset DEF InCall
<1>2. \A u \in Threads : u # t => pc'[u] = pc[u]
  BY OthersRest DEF Rest
<1>3. CASE pc[t] = "idle" /\ pc'[t] # "idle"
  <2>1. accessors' = [accessors EXCEPT ![B(t)] = @ + 1]
    <3>1. CASE CallAdd(t)
      BY <3>1 DEF CallAdd
    <3>2. CASE CallRemove(t)
      <4>1. queued # <<>>
        BY <1>3, <3>2, CallRemoveMoves
      <4>. QED  BY <3>2, <4>1 DEF CallRemove
    <3>. QED  BY <1>3, <3>1, <3>2, ExtentChosen DEF Releasing, Heading
  <2>2. InCall(B(t))' = InCall(B(t)) \cup {t} /\ t \notin InCall(B(t))
    BY <1>2, <1>3 DEF InCall, B
  <2>3. Cardinality(InCall(B(t))') = Cardinality(InCall(B(t))) + 1
    BY <1>0, <1>1, <2>2, FS_AddElement
  <2>4. \A b \in Bases : b # B(t) => InCall(b)' = InCall(b)
    BY <1>2 DEF InCall, B
  <2>5. \A b \in Bases : accessors'[b] = IF b = B(t) THEN accessors[b] + 1 ELSE accessors[b]
    BY <1>0, <2>1
  <2>6. accessors' \in [Bases -> Nat]
    BY <1>0, <2>1
  <2>. QED  BY <1>0, <2>3, <2>4, <2>5, <2>6
<1>4. CASE pc[t] = "leave" /\ pc'[t] = "idle"
  <2>1. accessors' = [accessors EXCEPT ![B(t)] = @ - 1]
    BY <1>4, ExtentChosen DEF Leave, Releasing, Heading
  <2>2. InCall(B(t))' = InCall(B(t)) \ {t} /\ t \in InCall(B(t))
    BY <1>2, <1>4 DEF InCall, B
  <2>3. Cardinality(InCall(B(t))') = Cardinality(InCall(B(t))) - 1
    BY <1>0, <1>1, <2>2, FS_RemoveElement
  <2>4. \A b \in Bases : b # B(t) => InCall(b)' = InCall(b)
    BY <1>2 DEF InCall, B
  <2>5. \A b \in Bases : accessors'[b] = IF b = B(t) THEN accessors[b] - 1 ELSE accessors[b]
    BY <1>0, <2>1
  <2>6. accessors[B(t)] # 0
    <3>1. InCall(B(t)) # {}
      BY <2>2
    <3>. QED  BY <1>0, <1>1, <3>1, FS_EmptySet
  <2>7. accessors' \in [Bases -> Nat]
    BY <1>0, <2>1, <2>6
  <2>. QED  BY <1>0, <2>3, <2>4, <2>5, <2>7
<1>5. CASE pc[t] = "idle" <=> pc'[t] = "idle"
  <2>1. \A b \in Bases : InCall(b)' = InCall(b)
    BY <1>2, <1>5 DEF InCall, B
  <2>2. accessors' = accessors
    <3>1. CASE CallAdd(t)
      BY <1>5, <3>1, CallAddMoves
    <3>2. CASE CallRemove(t)
      <4>1. ~(queued # <<>>)
        BY <1>5, <3>2, CallRemoveMoves
      <4>. QED  BY <3>2, <4>1 DEF CallRemove
    <3>3. CASE Leave(t)
      BY <1>5, <3>3, LeaveMoves
    <3>. QED  BY <3>1, <3>2, <3>3, Writers
  <2>. QED  BY <1>0, <2>1, <2>2
<1>. QED  BY <1>3, <1>4, <1>5, ExtentChosen DEF Releasing, Heading

\* If no more than one thread of a process is in a call, no two are.
LEMMA AtMostOne ==
    ASSUME Inv, NEW t \in Threads, NEW u \in Threads, u # t, B(u) = B(t),
           ~(accessors[B(t)] > 1), pc[t] # "idle"
    PROVE  pc[u] = "idle"
<1>1. SUFFICES ASSUME pc[u] # "idle"  PROVE FALSE
  OBVIOUS
<1>2. accessors[B(t)] = Cardinality(InCall(B(t))) /\ accessors[B(t)] \in Nat
  BY Facts DEF Inv, TypeOK, InCall
<1>3. IsFiniteSet(InCall(B(t)))
  BY MemoryAssumption, FS_Subset DEF InCall
<1>4. {t, u} \subseteq InCall(B(t))
  BY <1>1 DEF InCall
<1>5. IsFiniteSet({t, u}) /\ Cardinality({t, u}) <= Cardinality(InCall(B(t)))
  BY <1>3, <1>4, FS_Subset
<1>6. Cardinality({t, u}) = 2
  <2>1. Cardinality({u}) = 1 /\ IsFiniteSet({u})
    BY FS_Singleton
  <2>2. Cardinality({u} \cup {t}) = Cardinality({u}) + 1
    BY <2>1, FS_AddElement
  <2>3. {u} \cup {t} = {t, u}
    OBVIOUS
  <2>. QED  BY <2>1, <2>2, <2>3
<1>. QED  BY <1>2, <1>5, <1>6

\* What a step does to "prev": only the CAS of release_prev_extents moves it, by one extent, and
\* no further than the current one.
LEMMA PrevMoves ==
    ASSUME Inv, NEW t \in Threads, Step(t), NEW b \in Bases
    PROVE  /\ \/ prev'[b] = prev[b]
              \/ /\ b = B(t) /\ pc[t] = "relCas" /\ prev[b] = loc[t].ext
                 /\ prev'[b] = prev[b] + 1 /\ prev[b] < current[b]
           /\ prev'[b] \in 1..current'[b]
<1>0. /\ prev \in [Bases -> Nat] /\ prev[b] \in 1..current[b] /\ current[b] \in Nat
      /\ current[b] <= current'[b] /\ current'[b] \in Nat
  BY ExtentsMove DEF Inv, TypeOK
<1>1. CASE ReleaseCas(t)
  <2>1. pc[t] = "relCas" /\ (prev' = prev \/ (prev[B(t)] = loc[t].ext
                               /\ prev' = [prev EXCEPT ![B(t)] = loc[t].next]))
    BY <1>1 DEF ReleaseCas, At
  <2>2. /\ loc[t].ext < current[B(t)]
        /\ loc[t].ext = prev[B(t)] => loc[t].next = loc[t].ext + 1
    BY <2>1 DEF Inv, Alone, HeadOK, Passed
  <2>3. CASE b = B(t) /\ prev' # prev
    <3>1. prev'[b] = prev[b] + 1 /\ prev[b] = loc[t].ext
      BY <1>0, <2>1, <2>2, <2>3
    <3>. QED  BY <1>0, <2>1, <2>2, <2>3, <3>1
  <2>4. CASE ~(b = B(t) /\ prev' # prev)
    <3>1. prev'[b] = prev[b]
      BY <1>0, <2>1, <2>4
    <3>. QED  BY <1>0, <3>1
  <2>. QED  BY <2>3, <2>4
<1>2. CASE ~ReleaseCas(t)
  <2>1. prev' = prev
    BY <1>2, Writers DEF Link, Advance
  <2>. QED  BY <1>0, <2>1
<1>. QED  BY <1>1, <1>2

\* A thread that has met a fault takes no step.
LEMMA NoFault ==
    ASSUME NEW t \in Threads, Step(t)
    PROVE  pc[t] # "fault"
<1>1. CASE CallAdd(t) \/ CallRemove(t) \/ Leave(t) \/ Fault(t)
  BY <1>1 DEF CallAdd, CallRemove, Leave, Fault, Go, At, Accessing
<1>2. CASE Extent(t)
  BY <1>2 DEF Extent, InRange, Fit, Expand, ExpPrev, ExpCas, ExpRead, Truncate, SizeCas, Resize,
     Link, Advance, Release, ReleaseHead, ReleaseTest, ReleaseAlone, ReleaseNext, ReleaseCas,
     ReleaseFree, Go, At
<1>3. CASE Alloc(t)
  BY <1>3 DEF Alloc, FirstFit, LookLo, LookHi, LookNext, LookCas, LookSize, Clear, NewRead,
     NewCas, Store, Access, Go, At
<1>4. CASE Free(t)
  BY <1>4 DEF Free, ExtentOf, Copy, FreeSize, FreeHi, FreeLo, FreeCas, Access, Go, At
<1>. QED  BY <1>1, <1>2, <1>3, <1>4 DEF Step

\* The head that a thread has read is at most one behind.
LEMMA HeadKept ==
    ASSUME Inv, NEW t \in Threads, Step(t), NEW v \in Threads
    PROVE  HeadOK(v)'
<1>1. /\ prev[B(v)] \in Nat /\ current[B(v)] \in Nat /\ prev[B(v)] <= current[B(v)]
      /\ current'[B(v)] \in Nat /\ current[B(v)] <= current'[B(v)] /\ B(v) \in Bases
      /\ loc[v].ext \in Nat
  BY Facts, Mapping
<1>2. HeadOK(v) /\ AloneOK(t)
  BY DEF Inv, Alone
<1>3. CASE v = t
  <2>1. CASE pc'[t] \notin Heading
    BY <1>3, <2>1 DEF HeadOK, Heading, Releasing, Passed, B
  <2>2. CASE pc'[t] \in Heading
    <3>1. Release(t)
      BY <2>2, ExtentChosen DEF Heading, Releasing, Away
    <3>2. pc[t] # "relCas" => prev'[B(t)] = prev[B(t)]
      BY <1>1, <1>3, PrevMoves
    <3>3. CASE pc[t] = "release"
      BY <1>1, <1>3, <3>1, <3>2, <3>3, ReleaseMoves DEF HeadOK, Passed, B
    <3>4. CASE pc[t] = "relTest"
      <4>1. loc[t].ext # current[B(t)] /\ pc'[t] = "relAcc" /\ loc'[t] = loc[t]
        BY <2>2, <3>1, <3>4, ReleaseMoves DEF Heading, Releasing
      <4>2. loc[t].ext <= prev[B(t)] /\ prev[B(t)] <= loc[t].ext + 1
        BY <1>2, <1>3, <3>4 DEF HeadOK, Heading, Releasing
      <4>. QED  BY <1>1, <1>3, <3>2, <3>4, <4>1, <4>2 DEF HeadOK, Passed, B
    <3>5. CASE pc[t] = "relAcc"
      <4>1. pc'[t] = "relNext" /\ loc'[t] = loc[t]
        BY <2>2, <3>1, <3>5, ReleaseMoves DEF Heading, Releasing
      <4>. QED
        BY <1>1, <1>2, <1>3, <3>2, <3>5, <4>1 DEF HeadOK, Heading, Releasing, Passed, B
    <3>6. CASE pc[t] = "relNext"
      <4>1. /\ pc'[t] = "relCas" /\ loc'[t].ext = loc[t].ext
            /\ loc'[t].next = loc[t].ext + 1 \/ loc[t].ext < prev[B(t)]
        BY <2>2, <3>1, <3>6, ReleaseMoves DEF Heading, Releasing
      <4>. QED
        BY <1>1, <1>2, <1>3, <3>2, <3>6, <4>1 DEF HeadOK, Heading, Releasing, Passed, B
    <3>7. CASE pc[t] = "relCas"
      <4>1. pc'[t] = "relFree" /\ prev[B(t)] = loc[t].ext /\ loc'[t] = loc[t]
        BY <2>2, <3>1, <3>7, ReleaseMoves DEF Heading, Releasing
      <4>2. loc[t].next = loc[t].ext + 1 /\ loc[t].ext < current[B(t)]
        BY <1>2, <1>3, <3>7, <4>1 DEF HeadOK, Passed
      <4>3. ReleaseCas(t)
        BY <3>1, <3>7 DEF Release, ReleaseHead, ReleaseTest, ReleaseAlone, ReleaseNext,
           ReleaseFree, Go, At
      <4>4. prev' = [prev EXCEPT ![B(t)] = loc[t].next]
        BY <4>1, <4>3 DEF ReleaseCas
      <4>5. prev'[B(t)] = loc[t].ext + 1
        BY <1>1, <1>3, <4>2, <4>4 DEF Inv, TypeOK
      <4>. QED  BY <1>1, <1>3, <4>1, <4>2, <4>5 DEF HeadOK, Passed, B
    <3>8. CASE pc[t] = "relFree"
      <4>1. pc'[t] = "relTest" /\ loc'[t].ext = loc[t].next
        BY <3>1, <3>8, ReleaseMoves
      <4>2. /\ loc[t].ext < prev[B(t)] /\ loc[t].next = loc[t].ext + 1
            /\ prev[B(t)] <= loc[t].ext + 1
        BY <1>2, <1>3, <3>8 DEF HeadOK, Heading, Releasing
      <4>. QED  BY <1>1, <1>3, <3>2, <3>8, <4>1, <4>2 DEF HeadOK, Passed, B
    <3>. QED  BY <3>1, <3>3, <3>4, <3>5, <3>6, <3>7, <3>8, ReleaseMoves DEF Releasing
  <2>. QED  BY <2>1, <2>2
<1>4. CASE v # t
  <2>1. pc'[v] = pc[v] /\ loc'[v] = loc[v]
    BY <1>4, OthersRest DEF Rest
  <2>2. CASE prev'[B(v)] = prev[B(v)]
    BY <1>1, <1>2, <2>1, <2>2 DEF HeadOK, B
  <2>3. CASE prev'[B(v)] # prev[B(v)]
    <3>1. /\ B(v) = B(t) /\ pc[t] = "relCas" /\ prev[B(v)] = loc[t].ext
          /\ prev'[B(v)] = prev[B(v)] + 1
      BY <1>1, <2>3, PrevMoves
    <3>2. pc[v] \notin Passed /\ (pc[v] \in Heading => loc[v].ext >= loc[t].ext)
      BY <1>2, <1>4, <3>1 DEF AloneOK, Passed
    <3>. QED  BY <1>1, <1>2, <2>1, <3>1, <3>2 DEF HeadOK, Passed, B
  <2>. QED  BY <2>2, <2>3
<1>. QED  BY <1>3, <1>4

\* Who has found itself alone remains the only one that unmaps.
LEMMA AloneKept ==
    ASSUME Inv, NEW t \in Threads, Step(t), NEW v \in Threads
    PROVE  AloneOK(v)'
<1>1. SUFFICES ASSUME pc'[v] \in Passed, NEW u \in Threads, u # v, B(u) = B(v)
               PROVE  /\ pc'[u] \notin Passed
                      /\ pc'[u] \notin Away => loc'[u].ext > loc'[v].ext
                      /\ pc'[u] \in Heading => loc'[u].ext >= loc'[v].ext
  BY DEF AloneOK, B
<1>2. \A w \in Threads : w # t => pc'[w] = pc[w] /\ loc'[w] = loc[w]
  BY OthersRest DEF Rest
<1>3. /\ prev[B(v)] \in Nat /\ current[B(v)] \in Nat /\ prev[B(v)] <= current[B(v)]
      /\ current'[B(v)] \in Nat /\ current[B(v)] <= current'[B(v)] /\ B(v) \in Bases
      /\ \A w \in Threads : loc[w].ext \in Nat
  BY Facts, Mapping
<1>4. CASE v = t
  <2>1. Release(t)
    BY <1>1, <1>4, ExtentChosen DEF Heading, Releasing, Passed, Away
  <2>2. CASE pc[t] \in Passed
    <3>1. loc'[t].ext = loc[t].ext
      BY <1>1, <1>4, <2>1, <2>2, ReleaseMoves DEF Passed
    <3>2. /\ pc[u] \notin Passed
          /\ pc[u] \notin Away => loc[u].ext > loc[t].ext
          /\ pc[u] \in Heading => loc[u].ext >= loc[t].ext
      BY <1>1, <1>4, <2>2 DEF Inv, Alone, AloneOK
    <3>. QED  BY <1>1, <1>2, <1>4, <3>1, <3>2
  <2>3. CASE pc[t] \notin Passed
    <3>1. pc[t] = "relAcc" /\ ~(accessors[B(t)] > 1)
      BY <1>1, <1>4, <2>1, <2>3, ReleaseMoves DEF Passed
    <3>2. pc[u] = "idle"
      BY <1>1, <1>4, <3>1, AtMostOne
    <3>. QED  BY <1>1, <1>2, <1>4, <3>2 DEF Passed, Heading, Releasing, Away
  <2>. QED  BY <2>2, <2>3
<1>5. CASE v # t
  <2>1. pc[v] \in Passed /\ loc'[v] = loc[v]
    BY <1>1, <1>2, <1>5
  <2>2. /\ pc[u] \notin Passed
        /\ pc[u] \notin Away => loc[u].ext > loc[v].ext
        /\ pc[u] \in Heading => loc[u].ext >= loc[v].ext
    BY <1>1, <2>1 DEF Inv, Alone, AloneOK
  <2>3. CASE u # t
    BY <1>2, <2>1, <2>2, <2>3
  <2>4. CASE u = t
    <3>1. loc[v].ext <= prev[B(v)] /\ loc[v].ext < current[B(v)]
      BY <2>1 DEF Inv, Alone, HeadOK, Passed, Heading, Releasing
    <3>2. pc'[t] \notin Passed
      <4>1. SUFFICES ASSUME pc'[t] \in Passed  PROVE FALSE
        OBVIOUS
      <4>2. Release(t)
        BY <4>1, ExtentChosen DEF Heading, Releasing, Passed, Away
      <4>3. pc[t] = "relAcc" /\ ~(accessors[B(t)] > 1)
        BY <2>2, <2>4, <4>1, <4>2, ReleaseMoves DEF Passed
      <4>4. pc[v] = "idle"
        BY <1>1, <1>5, <2>4, <4>3, AtMostOne
      <4>. QED  BY <2>1, <4>4 DEF Passed
    <3>3. ASSUME pc'[t] \notin Away  PROVE loc'[t].ext > loc[v].ext
      <4>1. CASE pc[t] = "idle"
        <5>1. loc'[t].ext = current[B(v)]
          BY <1>1, <2>4, <3>3, <4>1, ExtentChosen DEF Away, Releasing
        <5>. QED  BY <1>3, <3>1, <5>1
      <4>2. CASE pc[t] # "idle"
        <5>1. /\ pc[t] \notin {"idle", "leave"} \cup Releasing
              /\ loc'[t].ext \in {loc[t].ext, current[B(v)], current'[B(v)]}
          BY <1>1, <2>4, <3>3, <4>2, ExtentChosen DEF Away, Heading
        <5>2. loc[t].ext > loc[v].ext
          BY <2>2, <2>4, <5>1, NoFault DEF Away
        <5>. QED  BY <1>3, <3>1, <5>1, <5>2
      <4>. QED  BY <4>1, <4>2
    <3>4. ASSUME pc'[t] \in Heading  PROVE loc'[t].ext >= loc[v].ext
      <4>1. Release(t)
        BY <3>4, ExtentChosen DEF Heading, Releasing, Away
      <4>2. CASE pc[t] = "release"
        BY <1>1, <1>3, <2>4, <3>1, <4>1, <4>2, ReleaseMoves
      <4>3. CASE pc[t] # "release"
        <5>1. pc[t] \in Heading
          BY <4>1, <4>3, ReleaseMoves DEF Heading
        <5>2. loc'[t].ext = loc[t].ext
          BY <2>2, <2>4, <4>1, <4>3, ReleaseMoves DEF Passed
        <5>. QED  BY <2>2, <2>4, <5>1, <5>2
      <4>. QED  BY <4>2, <4>3
    <3>. QED  BY <2>1, <2>4, <3>2, <3>3, <3>4
  <2>. QED  BY <2>3, <2>4
<1>. QED  BY <1>4, <1>5

\* No step of one thread unmaps the extent that another uses.
LEMMA UsesKept ==
    ASSUME Inv, NEW t \in Threads, Step(t), NEW u \in Threads
    PROVE  UsesOK(u)'
<1>1. SUFFICES ASSUME pc'[u] \notin Away  PROVE loc'[u].ext >= prev'[B(u)]
  BY DEF UsesOK, B
<1>2. /\ prev[B(u)] \in Nat /\ current[B(u)] \in Nat /\ prev[B(u)] <= current[B(u)]
      /\ current'[B(u)] \in Nat /\ current[B(u)] <= current'[B(u)] /\ B(u) \in Bases
      /\ loc[u].ext \in Nat /\ loc[t].ext \in Nat
  BY Facts, Mapping
<1>3. UsesOK(u)
  BY DEF Inv, NoUseAfterUnmap, UsesOK, Away
<1>4. CASE u = t
  <2>1. prev'[B(t)] = prev[B(t)]
    BY <1>1, <1>2, <1>4, PrevMoves, ExtentChosen DEF Away, Heading, Releasing
  <2>2. CASE pc[t] = "idle"
    BY <1>1, <1>2, <1>4, <2>1, <2>2, ExtentChosen DEF Away, Releasing, Heading
  <2>3. CASE pc[t] # "idle"
    <3>1. /\ pc[t] \notin {"idle", "leave"} \cup Releasing
          /\ loc'[t].ext \in {loc[t].ext, current[B(t)], current'[B(t)]}
      BY <1>1, <1>4, <2>3, ExtentChosen DEF Away, Heading
    <3>2. pc[t] # "fault"
      BY NoFault
    <3>3. loc[t].ext >= prev[B(t)]
      BY <1>3, <1>4, <3>1, <3>2 DEF UsesOK, Away
    <3>. QED  BY <1>2, <1>4, <2>1, <3>1, <3>3
  <2>. QED  BY <2>2, <2>3
<1>5. CASE u # t
  <2>1. pc'[u] = pc[u] /\ loc'[u] = loc[u]
    BY <1>5, OthersRest DEF Rest
  <2>2. loc[u].ext >= prev[B(u)]
    BY <1>1, <1>3, <2>1 DEF UsesOK
  <2>3. CASE prev'[B(u)] = prev[B(u)]
    BY <2>1, <2>2, <2>3
  <2>4. CASE prev'[B(u)] # prev[B(u)]
    <3>1. /\ B(u) = B(t) /\ pc[t] = "relCas" /\ prev[B(u)] = loc[t].ext
          /\ prev'[B(u)] = prev[B(u)] + 1
      BY <1>2, <2>4, PrevMoves
    <3>2. loc[u].ext > loc[t].ext
      BY <1>1, <1>5, <2>1, <3>1 DEF Inv, Alone, AloneOK, Passed
    <3>. QED  BY <1>2, <2>1, <3>1, <3>2
  <2>. QED  BY <2>3, <2>4
<1>. QED  BY <1>4, <1>5

(***************************************************************************)
(* What a step does to the blocks.                                         *)
(***************************************************************************)

\* A class has a size, and what lies below a free block is a free block or nothing.
LEMMA Belows ==
    ASSUME Inv, NEW c \in Classes
    PROVE  /\ free[c] \in Seq(Slots) /\ Len(free[c]) \in Nat /\ SizeOf[c] \in Nat \ {0}
           /\ \A i \in DOMAIN free[c] : free[c][i] \in Slots /\ Below(c, i) \in Refs
<1>1. free[c] \in Seq(Slots) /\ Len(free[c]) \in Nat
  BY DEF Inv, TypeOK
<1>2. SizeOf[c] \in Nat \ {0}
  BY ClassSizes
<1>3. ASSUME NEW i \in DOMAIN free[c]  PROVE free[c][i] \in Slots /\ Below(c, i) \in Refs
  <2>1. CASE i < Len(free[c])
    <3>1. i + 1 \in 1..Len(free[c])
      BY <1>1, <2>1
    <3>. QED  BY <1>1, <1>3, <2>1, <3>1 DEF Below, Refs
  <2>2. CASE ~(i < Len(free[c]))
    BY <1>1, <1>3, <2>2 DEF Below, Refs
  <2>. QED  BY <2>1, <2>2
<1>. QED  BY <1>1, <1>2, <1>3

\* A block keeps its size for ever, and new ones start where the last one ended.
LEMMA BlocksGrow ==
    ASSUME Inv, NEW t \in Threads, Step(t)
    PROVE  /\ blocks \in [Slots -> 0..32] /\ blocks' \in [Slots -> 0..32]
           /\ \A s \in Slots : blocks[s] # 0 => blocks'[s] = blocks[s]
           /\ dataAlloc <= dataAlloc' /\ dataAlloc \in Nat /\ dataAlloc' \in Nat
           /\ NewCas(t) \/ UNCHANGED <<blocks, dataAlloc>>
<1>0. blocks \in [Slots -> 0..32] /\ dataAlloc \in Nat
  BY DEF Inv, TypeOK
<1>1. CASE NewCas(t)
  <2>1. /\ pc[t] = "newCas" /\ loc[t].want \in Sizes /\ loc[t].slot \in Nat
    BY <1>1, NewCasMoves, Facts DEF Inv, Held, LooksOK, In
  <2>2. loc[t].want \in 1..32
    BY <2>1, ClassSizes
  <2>3. CASE UNCHANGED <<dataAlloc, blocks>>
    BY <1>0, <1>1, <2>3
  <2>4. CASE ~UNCHANGED <<dataAlloc, blocks>>
    <3>1. /\ dataAlloc = loc[t].slot /\ dataAlloc' = loc[t].slot + loc[t].want
          /\ blocks' = [blocks EXCEPT ![loc[t].slot] = loc[t].want]
      BY <1>1, <2>4 DEF NewCas
    <3>2. dataAlloc \in Slots => blocks[dataAlloc] = 0
      <4>1. ASSUME dataAlloc \in Slots, blocks[dataAlloc] # 0  PROVE FALSE
        <5>1. blocks[dataAlloc] \in 0..32 /\ dataAlloc + blocks[dataAlloc] <= dataAlloc
          BY <1>0, <4>1 DEF Inv, Stacks
        <5>. QED  BY <1>0, <4>1, <5>1
      <4>. QED  BY <4>1
    <3>3. blocks' \in [Slots -> 0..32]
      <4>1. loc[t].want \in 0..32
        BY <2>2
      <4>. QED  BY <1>0, <3>1, <4>1
    <3>4. \A s \in Slots : blocks[s] # 0 => blocks'[s] = blocks[s]
      BY <1>0, <3>1, <3>2
    <3>. QED  BY <1>0, <1>1, <2>1, <2>2, <3>1, <3>3, <3>4
  <2>. QED  BY <2>3, <2>4
<1>2. CASE ~NewCas(t)
  <2>1. UNCHANGED <<blocks, dataAlloc>>
    BY <1>2, Writers DEF blockVars, Truncate, LookCas, LookSize, Clear, Store, FreeHi, FreeLo,
       FreeCas
  <2>. QED  BY <1>0, <2>1
<1>. QED  BY <1>1, <1>2

\* A bucket whose tag is the same is the same.
LEMMA BucketsMove ==
    ASSUME Inv, NEW t \in Threads, Step(t)
    PROVE  /\ bucket' \in [Classes -> [lo : Refs, hi : Nat]] /\ free' \in [Classes -> Seq(Slots)]
           /\ \A c \in Classes :
                 /\ bucket[c].hi \in Nat /\ bucket'[c].hi \in Nat
                 /\ bucket[c].hi <= bucket'[c].hi
                 /\ bucket'[c].hi = bucket[c].hi => bucket'[c] = bucket[c] /\ free'[c] = free[c]
           /\ UNCHANGED <<bucket, free>> \/ LookCas(t) \/ FreeCas(t)
<1>0. /\ bucket \in [Classes -> [lo : Refs, hi : Nat]] /\ free \in [Classes -> Seq(Slots)]
      /\ \A c \in Classes : bucket[c].hi \in Nat
  BY WordFacts DEF Inv, TypeOK
<1>1. CASE UNCHANGED <<bucket, free>>
  <2>1. \A c \in Classes : bucket[c].hi <= bucket'[c].hi
    BY <1>0, <1>1
  <2>. QED  BY <1>0, <1>1, <2>1
<1>2. CASE LookCas(t) /\ ~UNCHANGED <<bucket, free>>
  <2> DEFINE c0 == loc[t].class
             hi == loc[t].before.hi
  <2>1. /\ bucket[c0] = loc[t].before
        /\ bucket' = [bucket EXCEPT ![c0] = D(loc[t].next, hi + 1)]
        /\ free' = [free EXCEPT ![c0] = SubSeq(@, 2, Len(@))]
    BY <1>2 DEF LookCas, Unchanged
  <2>2. c0 \in Classes /\ pc[t] = "lookCas" /\ loc[t].before.lo \in Slots
    BY <1>2, LookCasMoves DEF Inv, Held, LooksOK, KnowsOK, In
  <2>3. loc[t].next \in Refs
    <3>1. loc[t].next \in {0, Below(c0, 1)} /\ free[c0] # <<>>
      BY <2>1, <2>2, SlotFacts DEF Inv, Held, KnowsOK, Stacks
    <3>2. 1 \in DOMAIN free[c0]
      BY <2>2, <3>1, Belows
    <3>. QED  BY <2>2, <3>1, <3>2, Belows DEF Refs
  <2>4. hi \in Nat /\ bucket[c0].hi = hi
    BY <1>0, <2>1, <2>2
  <2>5. SubSeq(free[c0], 2, Len(free[c0])) \in Seq(Slots)
    BY <1>0, <2>2
  <2> HIDE DEF c0, hi
  <2>6. D(loc[t].next, hi + 1) \in [lo : Refs, hi : Nat]
    BY <2>3, <2>4 DEF D
  <2>7. bucket' \in [Classes -> [lo : Refs, hi : Nat]]
    BY <1>0, <2>1, <2>6
  <2>8. free' \in [Classes -> Seq(Slots)]
    BY <1>0, <2>1, <2>5
  <2>9. bucket'[c0].hi = bucket[c0].hi + 1
    BY <1>0, <2>1, <2>2, <2>4 DEF D
  <2>10. \A c \in Classes : c # c0 => bucket'[c] = bucket[c] /\ free'[c] = free[c]
    BY <1>0, <2>1
  <2>. QED  BY <1>0, <1>2, <2>2, <2>7, <2>8, <2>9, <2>10
<1>3. CASE FreeCas(t) /\ ~UNCHANGED <<bucket, free>>
  <2> DEFINE c0 == loc[t].class
             s0 == loc[t].slot
  <2>1. /\ bucket[c0] = word[s0]
        /\ bucket' = [bucket EXCEPT ![c0] = D(s0, word[s0].hi + 1)]
        /\ free' = [free EXCEPT ![c0] = <<s0>> \o @]
    BY <1>3 DEF FreeCas
  <2>2. c0 \in Classes /\ s0 \in Slots
    BY <1>3, FreeCasMoves DEF Inv, Held, HasOK, HoldsBlock, Accessing
  <2>4. bucket[c0].hi = word[s0].hi /\ word[s0].hi \in Nat
    BY <1>0, <2>1, <2>2
  <2>5. <<s0>> \o free[c0] \in Seq(Slots)
    BY <1>0, <2>2
  <2> HIDE DEF c0, s0
  <2>6. D(s0, word[s0].hi + 1) \in [lo : Refs, hi : Nat]
    BY <2>2, <2>4 DEF D, Refs
  <2>7. bucket' \in [Classes -> [lo : Refs, hi : Nat]]
    BY <1>0, <2>1, <2>6
  <2>8. free' \in [Classes -> Seq(Slots)]
    BY <1>0, <2>1, <2>5
  <2>9. bucket'[c0].hi = bucket[c0].hi + 1
    BY <1>0, <2>1, <2>2, <2>4 DEF D
  <2>10. \A c \in Classes : c # c0 => bucket'[c] = bucket[c] /\ free'[c] = free[c]
    BY SMTT(30), <1>0, <2>1
  <2>. QED  BY <1>0, <1>3, <2>2, <2>7, <2>8, <2>9, <2>10
<1>4. UNCHANGED <<bucket, free>> \/ LookCas(t) \/ FreeCas(t)
  BY Writers DEF blockVars, Truncate, LookSize, Clear, NewCas, Store, FreeHi, FreeLo
<1>. QED  BY <1>1, <1>2, <1>3, <1>4

\* The file holds the data slots for as long as nothing disturbed it.
LEMMA Disturbs ==
    ASSUME Inv, NEW t \in Threads, Step(t), Undisturbed'
    PROVE  Undisturbed /\ fileSize <= fileSize' /\ dataAlloc < fileSize
<1>1. Undisturbed /\ fileSize <= fileSize'
  BY SizesMove DEF Undisturbed
<1>2. size <= fileSize /\ dataAlloc < size
  BY <1>1 DEF Inv, SizesFollow, Undisturbed
<1>. QED  BY <1>1, <1>2, Facts

\* The first word of a block changes only under the thread that has it, or is lost with the end
\* of the file.
LEMMA WordsMove ==
    ASSUME Inv, NEW t \in Threads, Step(t)
    PROVE  /\ word' \in [Slots -> [lo : Nat, hi : Nat]]
           /\ \A s \in Slots :
                 blocks[s] # 0 /\ ~(HoldsBlock(t) /\ s = loc[t].slot) =>
                    /\ word'[s].lo \in {0, word[s].lo}
                    /\ Undisturbed' => word'[s].lo = word[s].lo
<1> DEFINE s0 == loc[t].slot
           typed == word' \in [Slots -> [lo : Nat, hi : Nat]]
           others == \A s \in Slots : s # s0 => word'[s] = word[s]
<1>0. word \in [Slots -> [lo : Nat, hi : Nat]]
  BY DEF Inv, TypeOK
<1>1. CASE word' = word
  BY <1>0, <1>1
<1>2. CASE Truncate(t)
  <2>1. loc[t].new \in Nat
    BY Facts DEF Locals
  <2>2. word' = word \/ /\ fileSize' = loc[t].new
                        /\ word' = [s \in Slots |-> IF s >= loc[t].new THEN Zero ELSE word[s]]
    BY <1>2 DEF Truncate
  <2>3. Zero \in [lo : Nat, hi : Nat] /\ Zero.lo = 0
    BY DEF Zero
  <2>4. typed
    BY <1>0, <2>2, <2>3
  <2>5. ASSUME NEW s \in Slots, blocks[s] # 0, Undisturbed', word' # word
        PROVE  word'[s] = word[s]
    <3>1. s + blocks[s] <= dataAlloc /\ blocks[s] \in 0..32 /\ s \in Nat
      BY <2>5, BlocksGrow, SlotFacts DEF Inv, Stacks
    <3>2. dataAlloc < fileSize /\ fileSize <= fileSize'
      BY <2>5, Disturbs
    <3>3. ~(s >= loc[t].new)
      <4>1. loc[t].new = fileSize'
        BY <2>2, <2>5
      <4>2. dataAlloc \in Nat /\ fileSize \in Nat
        BY Facts
      <4>. QED  BY <2>1, <3>1, <3>2, <4>1, <4>2
    <3>. QED  BY <2>2, <3>3
  <2>6. \A s \in Slots : word'[s] \in {Zero, word[s]}
    BY <2>2
  <2>. QED  BY <2>3, <2>4, <2>5, <2>6
<1>3. CASE (LookSize(t) \/ Clear(t) \/ Store(t) \/ FreeHi(t) \/ FreeLo(t)) /\ typed /\ others
  <2>1. HoldsBlock(t)
    BY <1>3, LookSizeMoves, ClearMoves, StoreMoves, FreeHiMoves, FreeLoMoves
       DEF HoldsBlock, Accessing
  <2>. QED  BY <1>3, <2>1
<1>4. CASE LookSize(t)
  <2>1. SizeOf[loc[t].class] \in Nat
    BY <1>4, LookSizeMoves, Belows DEF Inv, Held, LooksOK, In
  <2>2. word' = [word EXCEPT ![s0].lo = SizeOf[loc[t].class]]
    BY <1>4 DEF LookSize
  <2>3. typed /\ others
    BY <1>0, <2>1, <2>2
  <2>. QED  BY <1>3, <1>4, <2>3
<1>5. CASE Clear(t)
  <2>1. word' = [word EXCEPT ![s0].hi = 0]
    BY <1>5 DEF Clear
  <2>2. typed /\ others
    BY <1>0, <2>1
  <2>. QED  BY <1>3, <1>5, <2>2
<1>6. CASE Store(t)
  <2>1. word' = [word EXCEPT ![s0] = D(loc[t].want, 0)]
    BY <1>6 DEF Store
  <2>2. D(loc[t].want, 0) \in [lo : Nat, hi : Nat]
    BY Facts DEF D
  <2>3. typed /\ others
    BY <1>0, <2>1, <2>2
  <2>. QED  BY <1>3, <1>6, <2>3
<1>7. CASE FreeHi(t)
  <2>1. word' = [word EXCEPT ![s0].hi = bucket[loc[t].class].hi]
    BY <1>7 DEF FreeHi
  <2>2. bucket[loc[t].class].hi \in Nat
    BY <1>7, FreeHiMoves, WordFacts DEF Inv, Held, HasOK
  <2>3. typed /\ others
    BY <1>0, <2>1, <2>2
  <2>. QED  BY <1>3, <1>7, <2>3
<1>8. CASE FreeLo(t)
  <2>1. word' = [word EXCEPT ![s0].lo = bucket[loc[t].class].lo]
    BY <1>8 DEF FreeLo
  <2>2. bucket[loc[t].class].lo \in Nat
    BY <1>8, FreeLoMoves, WordFacts DEF Inv, Held, HasOK
  <2>3. typed /\ others
    BY <1>0, <2>1, <2>2
  <2>. QED  BY <1>3, <1>8, <2>3
<1>9. word' = word \/ Truncate(t) \/ LookSize(t) \/ Clear(t) \/ Store(t) \/ FreeHi(t) \/ FreeLo(t)
  BY Writers DEF blockVars, LookCas, NewCas, FreeCas
<1>. QED  BY <1>1, <1>2, <1>4, <1>5, <1>6, <1>7, <1>8, <1>9

\* A block that the thread does not have keeps its size in its first word.
LEMMA SizedKept ==
    ASSUME Inv, NEW t \in Threads, Step(t), NEW s \in Slots, Sized(s),
           ~(HoldsBlock(t) /\ s = loc[t].slot)
    PROVE  Sized(s)'
<1>1. blocks[s] # 0 /\ word[s].lo \in {0, blocks[s]} /\ (Undisturbed => word[s].lo = blocks[s])
  BY DEF Sized
<1>2. blocks'[s] = blocks[s]
  BY <1>1, BlocksGrow
<1>3. word'[s].lo \in {0, word[s].lo} /\ (Undisturbed' => word'[s].lo = word[s].lo)
  BY <1>1, WordsMove
<1>4. Undisturbed' => Undisturbed
  BY Disturbs
<1>. QED  BY <1>1, <1>2, <1>3, <1>4 DEF Sized

\* What the others have found out and have stays so.
LEMMA HeldRest ==
    ASSUME Inv, NEW t \in Threads, Step(t), NEW u \in Threads, u # t
    PROVE  (LooksOK(u) /\ KnowsOK(u) /\ HasOK(u))'
<1>1. /\ pc'[u] = pc[u] /\ loc'[u] = loc[u] /\ HoldsBlock(u)' = HoldsBlock(u)
      /\ LooksOK(u) /\ KnowsOK(u) /\ HasOK(u)
  BY OthersRest DEF Rest, Inv, Held, HoldsBlock
<1>2. LooksOK(u)'
  BY <1>1 DEF LooksOK, In
<1>3. KnowsOK(u)'
  <2>1. SUFFICES ASSUME In(u, {"lookNext", "lookCas"})
                 PROVE  /\ loc[u].before.hi <= bucket'[loc[u].class].hi
                        /\ pc[u] = "lookCas" /\ bucket'[loc[u].class] = loc[u].before =>
                              /\ loc[u].next \in {0, Below(loc[u].class, 1)'}
                              /\ Undisturbed' => loc[u].next = Below(loc[u].class, 1)'
    BY <1>1 DEF KnowsOK, In, Below
  <2>2. loc[u].class \in Classes /\ loc[u].before.hi <= bucket[loc[u].class].hi
    BY <1>1, <2>1 DEF LooksOK, KnowsOK, In
  <2>3. loc[u].before.hi \in Nat
    BY Facts DEF Locals
  <2>4. loc[u].before.hi <= bucket'[loc[u].class].hi
    BY <2>2, <2>3, BucketsMove
  <2>5. ASSUME pc[u] = "lookCas", bucket'[loc[u].class] = loc[u].before
        PROVE  bucket[loc[u].class] = loc[u].before
               /\ Below(loc[u].class, 1)' = Below(loc[u].class, 1)
    <3>1. /\ bucket[loc[u].class].hi \in Nat /\ bucket'[loc[u].class].hi = loc[u].before.hi
          /\ bucket[loc[u].class].hi <= bucket'[loc[u].class].hi
      BY <2>2, <2>5, BucketsMove
    <3>2. bucket'[loc[u].class].hi = bucket[loc[u].class].hi
      BY <2>2, <2>3, <3>1
    <3>3. bucket'[loc[u].class] = bucket[loc[u].class]
          /\ free'[loc[u].class] = free[loc[u].class]
      BY <2>2, <3>2, BucketsMove
    <3>. QED  BY <1>1, <2>5, <3>3 DEF Below
  <2>6. Undisturbed' => Undisturbed
    BY Disturbs
  <2>. QED  BY <1>1, <2>4, <2>5, <2>6 DEF KnowsOK
<1>4. HasOK(u)'
  <2>1. /\ dataAlloc \in Nat /\ dataAlloc' \in Nat /\ dataAlloc <= dataAlloc'
        /\ \A s \in Slots : blocks[s] # 0 => blocks'[s] = blocks[s]
        /\ loc[u].slot \in Nat /\ loc[u].want \in Nat
    BY BlocksGrow, Facts
  <2>2. ASSUME pc[u] = "store"
        PROVE  /\ loc[u].slot + loc[u].want <= dataAlloc'
               /\ loc[u].slot \in Slots => blocks'[loc[u].slot] = loc[u].want
    <3>1. /\ loc[u].slot + loc[u].want <= dataAlloc /\ loc[u].want \in Sizes
          /\ loc[u].slot \in Slots => blocks[loc[u].slot] = loc[u].want
      BY <1>1, <2>2 DEF HasOK, LooksOK, In
    <3>2. loc[u].want # 0
      BY <3>1, ClassSizes
    <3>. QED  BY <2>1, <3>1, <3>2
  <2>3. ASSUME HoldsBlock(u), pc[u] # "store"
        PROVE  blocks[loc[u].slot] # 0 /\ blocks'[loc[u].slot] = blocks[loc[u].slot]
               /\ loc[u].slot \in Slots
    BY <1>1, <2>1, <2>3 DEF HasOK
  <2>5. ASSUME In(u, {"clear", "extentOf", "copy", "freeSize"})
        PROVE  Sized(loc[u].slot)'
    <3>1. HoldsBlock(u) /\ pc[u] # "store"
      BY <2>5, Facts DEF In, HoldsBlock, Subroutines, Accessing, Locals
    <3>2. ~(HoldsBlock(t) /\ loc[u].slot = loc[t].slot)
      BY <3>1 DEF Inv, BlocksAccounted, BlocksApart
    <3>3. Sized(loc[u].slot) /\ loc[u].slot \in Slots
      BY <1>1, <2>5, <3>1 DEF HasOK
    <3>4. ASSUME NEW s \in Slots, s = loc[u].slot  PROVE Sized(s)'
      BY <3>2, <3>3, <3>4, SizedKept
    <3>. QED  BY <1>1, <3>3, <3>4 DEF Sized
  <2>6. pc[u] \in {"lookSize", "freeHi", "freeLo", "freeCas"} => HoldsBlock(u) /\ pc[u] # "store"
    BY DEF HoldsBlock, Accessing
  <2>7. In(u, {"clear"}) => HoldsBlock(u) /\ pc[u] # "store"
    BY DEF In, HoldsBlock, Accessing, Subroutines
  <2>8. /\ pc[u] = "store" => BASE <= loc[u].slot /\ (loc[u].slot - BASE) % 4 = 0
        /\ pc[u] \in {"lookSize", "freeHi", "freeLo", "freeCas"} =>
              loc[u].class \in Classes /\ blocks[loc[u].slot] = SizeOf[loc[u].class]
        /\ In(u, {"clear"}) => loc[u].want <= blocks[loc[u].slot]
    BY <1>1 DEF HasOK
  <2>9. /\ pc[u] \in {"lookSize", "freeHi", "freeLo", "freeCas"} =>
              loc[u].class \in Classes /\ blocks'[loc[u].slot] = SizeOf[loc[u].class]
        /\ In(u, {"clear"}) => loc[u].want <= blocks'[loc[u].slot]
        /\ HoldsBlock(u) /\ pc[u] # "store" => loc[u].slot \in Slots /\ blocks'[loc[u].slot] # 0
    BY <2>3, <2>6, <2>7, <2>8
  <2>10. In(u, {"clear"})' = In(u, {"clear"})
         /\ In(u, {"clear", "extentOf", "copy", "freeSize"})'
               = In(u, {"clear", "extentOf", "copy", "freeSize"})
    BY <1>1 DEF In
  <2>11. In(u, {"clear", "extentOf", "copy", "freeSize"})' => Sized(loc[u].slot)'
    BY <2>5, <2>10
  <2>. QED  BY <1>1, <2>2, <2>8, <2>9, <2>10, <2>11 DEF HasOK
<1>. QED  BY <1>2, <1>3, <1>4

HeldOK(t) == LooksOK(t) /\ KnowsOK(t) /\ HasOK(t)

\* Steps that change no block.
LEMMA BlocksStay ==
    ASSUME Inv, NEW t \in Threads, Step(t),
           pc[t] \notin {"truncate", "lookCas", "lookSize", "clear", "newCas", "store",
                         "freeHi", "freeLo", "freeCas"}
    PROVE  UNCHANGED <<dataAlloc, bucket, word, blocks, free>>
<1>1. UNCHANGED blockVars \/ Truncate(t) \/ LookCas(t) \/ LookSize(t) \/ Clear(t) \/ NewCas(t)
      \/ Store(t) \/ FreeHi(t) \/ FreeLo(t) \/ FreeCas(t)
  BY Writers
<1>2. ~(Truncate(t) \/ LookCas(t) \/ LookSize(t) \/ Clear(t) \/ NewCas(t) \/ Store(t)
        \/ FreeHi(t) \/ FreeLo(t) \/ FreeCas(t))
  BY TruncateMoves, LookCasMoves, LookSizeMoves, ClearMoves, NewCasMoves, StoreMoves, FreeHiMoves,
     FreeLoMoves, FreeCasMoves
<1>. QED  BY <1>1, <1>2 DEF blockVars

\* A thread that is on its way out has nothing to keep.
LEMMA HeldAway ==
    ASSUME NEW t \in Threads, pc'[t] \in Away
    PROVE  HeldOK(t)' /\ ~HoldsBlock(t)'
<1>1. /\ ~HoldsBlock(t)' /\ pc'[t] \notin Accessing /\ pc'[t] \notin Subroutines
      /\ pc'[t] \notin {"firstFit", "lookLo", "lookHi", "lookCas", "newRead", "newCas"}
  BY DEF HoldsBlock, Away, Releasing, Accessing, Subroutines
<1>. QED  BY <1>1 DEF HeldOK, LooksOK, KnowsOK, HasOK, In, Accessing

\* A thread in a subroutine keeps what its caller has.
LEMMA HeldWithin ==
    ASSUME Inv, NEW t \in Threads, Step(t), Steady(t), pc[t] \in Subroutines,
           loc[t].then \in {"lookNext", "clear", "newCas", "extentOf", "copy"},
           pc'[t] \in Subroutines \cup {loc[t].then}
    PROVE  HeldOK(t)' /\ HoldsBlock(t)' = HoldsBlock(t)
<1>0. /\ loc'[t].want = loc[t].want /\ loc'[t].slot = loc[t].slot /\ loc'[t].at = loc[t].at
      /\ loc'[t].class = loc[t].class /\ loc'[t].before = loc[t].before
      /\ loc'[t].next = loc[t].next /\ loc'[t].then = loc[t].then
  BY DEF Steady
<1>1. HoldsBlock(t)' = HoldsBlock(t)
  <2>1. HoldsBlock(t) <=> loc[t].then \in {"clear", "extentOf", "copy"}
    BY DEF HoldsBlock, Accessing, Subroutines
  <2>2. HoldsBlock(t)' <=> loc[t].then \in {"clear", "extentOf", "copy"}
    <3>1. CASE pc'[t] \in Subroutines
      BY <1>0, <3>1 DEF HoldsBlock, Accessing, Subroutines
    <3>2. CASE pc'[t] = loc[t].then
      BY <3>2 DEF HoldsBlock, Accessing, Subroutines
    <3>. QED  BY <3>1, <3>2
  <2>. QED  BY <2>1, <2>2 DEF HoldsBlock
<1>2. /\ In(t, {"firstFit", "lookLo", "lookHi", "lookNext", "lookCas", "lookSize"})'
            => loc[t].then = "lookNext"
      /\ In(t, {"clear", "newRead", "newCas", "store"})' => loc[t].then \in {"clear", "newCas"}
      /\ In(t, {"lookNext", "lookCas"})' => loc[t].then = "lookNext"
      /\ In(t, {"clear"})' => loc[t].then = "clear"
      /\ In(t, {"clear", "extentOf", "copy", "freeSize"})'
            => loc[t].then \in {"clear", "extentOf", "copy"}
      /\ pc'[t] \notin {"lookCas", "store", "lookSize", "freeHi", "freeLo", "freeCas"}
  BY <1>0 DEF In, Subroutines
<1>3. LooksOK(t) /\ KnowsOK(t) /\ HasOK(t)
  BY DEF Inv, Held
<1>4. UNCHANGED <<dataAlloc, bucket, blocks, free>>
  <2>1. CASE pc[t] = "truncate"
    BY <2>1, Writers, LookCasMoves, LookSizeMoves, ClearMoves, NewCasMoves, StoreMoves, FreeHiMoves,
       FreeLoMoves, FreeCasMoves DEF Truncate, blockVars
  <2>2. CASE pc[t] # "truncate"
    BY <2>2, BlocksStay DEF Subroutines
  <2>. QED  BY <2>1, <2>2
<1>5. LooksOK(t)'
  <2>1. loc[t].then = "lookNext" =>
           loc[t].want \in Sizes /\ loc[t].class \in Classes /\ loc[t].want <= SizeOf[loc[t].class]
    BY <1>3 DEF LooksOK, In
  <2>2. loc[t].then \in {"clear", "newCas"} => loc[t].want \in Sizes
    BY <1>3 DEF LooksOK, In
  <2>. QED  BY <1>0, <1>2, <2>1, <2>2 DEF LooksOK
<1>6. KnowsOK(t)'
  <2>1. loc[t].then = "lookNext" =>
           /\ loc[t].before.lo \in Slots /\ loc[t].at = loc[t].before.lo
           /\ loc[t].before.hi <= bucket[loc[t].class].hi
    BY <1>3 DEF KnowsOK, In
  <2>. QED  BY <1>0, <1>2, <1>4, <2>1 DEF KnowsOK
<1>7. HasOK(t)'
  <2>1. pc[t] # "store" /\ (HoldsBlock(t) => loc[t].slot \in Slots /\ blocks[loc[t].slot] # 0)
    BY <1>3 DEF HasOK, Subroutines
  <2>2. loc[t].then = "clear" => loc[t].want <= blocks[loc[t].slot]
    BY <1>3 DEF HasOK, In
  <2>3. ASSUME loc[t].then \in {"clear", "extentOf", "copy"}  PROVE Sized(loc[t].slot)'
    <3>1. Sized(loc[t].slot)
      BY <1>3, <2>3 DEF HasOK, In
    <3>2. pc[t] # "truncate"
      BY <2>3 DEF Inv, Places, PlaceOK, Expanding
    <3>3. word' = word
      BY <3>2, BlocksStay DEF Subroutines
    <3>4. Undisturbed' => Undisturbed
      BY Disturbs
    <3>. QED  BY <1>0, <1>4, <3>1, <3>3, <3>4 DEF Sized
  <2>. QED  BY <1>0, <1>1, <1>2, <1>4, <2>1, <2>2, <2>3 DEF HasOK
<1>. QED  BY <1>1, <1>5, <1>6, <1>7 DEF HeldOK

\* The steps of the subroutines.
LEMMA WithinExtent ==
    ASSUME Inv, NEW t \in Threads, Extent(t), pc'[t] \notin Away
    PROVE  /\ Steady(t) /\ pc[t] \in Subroutines
           /\ loc[t].then \in {"lookNext", "clear", "newCas", "extentOf", "copy"}
           /\ pc'[t] \in Subroutines \cup {loc[t].then}
<1>1. CASE InRange(t)
  BY <1>1, InRangeMoves DEF Subroutines, Inv, Places, PlaceOK
<1>2. CASE Fit(t)
  BY <1>2, FitMoves DEF Subroutines, Inv, Places, PlaceOK
<1>3. CASE Expand(t)
  BY <1>3, ExpandMoves DEF Subroutines, Inv, Places, PlaceOK
<1>4. CASE ExpPrev(t) \/ ExpCas(t) \/ ExpRead(t) \/ Truncate(t) \/ SizeCas(t)
  <2>1. pc[t] \in Expanding
    BY <1>4, ExpPrevMoves, ExpCasMoves, ExpReadMoves, TruncateMoves, SizeCasMoves DEF Expanding
  <2>2. loc[t].then = "newCas"
    BY <2>1 DEF Inv, Places, PlaceOK
  <2>. QED
    BY <1>4, <2>2, ExpPrevMoves, ExpCasMoves, ExpReadMoves, TruncateMoves, SizeCasMoves
       DEF Subroutines, Away
<1>5. CASE Resize(t) \/ Advance(t)
  BY <1>5, ResizeMoves, AdvanceMoves, ResizedTo DEF Subroutines
<1>6. CASE Link(t)
  <2>1. loc[t].then # "idle"
    BY <1>6, LinkMoves DEF Inv, Places, PlaceOK
  <2>. QED  BY <1>6, <2>1, LinkMoves, Facts DEF Subroutines, Locals
<1>7. CASE Release(t)
  BY <1>7, ReleaseMoves DEF Away, Heading
<1>. QED  BY <1>1, <1>2, <1>3, <1>4, <1>5, <1>6, <1>7 DEF Extent

\* The top of a bucket is a block of its class.
LEMMA Top ==
    ASSUME Inv, NEW c \in Classes, bucket[c].lo # 0
    PROVE  /\ free[c] # <<>> /\ bucket[c].lo = free[c][1] /\ 1 \in DOMAIN free[c]
           /\ bucket[c].lo \in Slots /\ blocks[bucket[c].lo] = SizeOf[c]
           /\ word[bucket[c].lo].lo \in {0, Below(c, 1)}
           /\ Undisturbed => word[bucket[c].lo].lo = Below(c, 1)
<1>1. free[c] # <<>> /\ bucket[c].lo = free[c][1] /\ bucket[c].lo \in Slots
  BY WordFacts DEF Inv, Stacks
<1>2. 1 \in DOMAIN free[c]
  BY <1>1, Belows
<1>3. blocks[bucket[c].lo] = SizeOf[c] /\ word[bucket[c].lo].lo \in {0, Below(c, 1)}
  BY <1>1, <1>2 DEF Inv, BlocksAccounted, BlocksApart, Stacks
<1>4. Undisturbed => word[bucket[c].lo].lo = Below(c, 1)
  BY <1>1, <1>2, Belows DEF Inv, BlocksAccounted, Linked, Undisturbed, Below
<1>. QED  BY <1>1, <1>2, <1>3, <1>4

\* What a thread that allocates knows of its block.
LEMMA HeldAlloc ==
    ASSUME Inv, NEW t \in Threads, Step(t), Alloc(t), pc'[t] \notin Away
    PROVE  HeldOK(t)'
<1>0. LooksOK(t) /\ KnowsOK(t) /\ HasOK(t)
  BY DEF Inv, Held
<1>1. CASE FirstFit(t)
  <2>1. loc[t].want \in Sizes /\ loc[t].class \in Classes /\ loc[t].want <= SizeOf[loc[t].class]
    BY <1>0, <1>1, FirstFitMoves DEF LooksOK, In
  <2>2. pc'[t] \in {"lookLo", "newRead", "firstFit"} /\ loc'[t].want = loc[t].want
        /\ (loc'[t].class = loc[t].class
            \/ (loc'[t].class = loc[t].class + 1 /\ loc[t].class + 1 \in Classes))
    BY <1>1, FirstFitMoves
  <2>3. loc'[t].class \in Classes /\ loc[t].want <= SizeOf[loc'[t].class]
    <3>1. CASE loc'[t].class = loc[t].class
      BY <2>1, <3>1
    <3>2. CASE loc'[t].class = loc[t].class + 1 /\ loc[t].class + 1 \in Classes
      <4>1. SizeOf[loc[t].class] <= SizeOf[loc[t].class + 1]
            /\ SizeOf[loc[t].class] \in Nat /\ SizeOf[loc[t].class + 1] \in Nat
            /\ loc[t].want \in Nat
        BY <2>1, <3>2, ClassSizes, Belows, Facts
      <4>. QED  BY <2>1, <3>2, <4>1
    <3>. QED  BY <2>2, <3>1, <3>2
  <2>. QED
    BY <2>1, <2>2, <2>3 DEF HeldOK, LooksOK, KnowsOK, HasOK, In, HoldsBlock, Accessing, Subroutines
<1>2. CASE LookLo(t)
  <2>1. loc[t].want \in Sizes /\ loc[t].class \in Classes /\ loc[t].want <= SizeOf[loc[t].class]
    BY <1>0, <1>2, LookLoMoves DEF LooksOK, In
  <2>. QED
    BY <1>2, <2>1, LookLoMoves
       DEF HeldOK, LooksOK, KnowsOK, HasOK, In, HoldsBlock, Accessing, Subroutines
<1>3. CASE LookHi(t)
  <2>1. loc[t].want \in Sizes /\ loc[t].class \in Classes /\ loc[t].want <= SizeOf[loc[t].class]
    BY <1>0, <1>3, LookHiMoves DEF LooksOK, In
  <2>2. bucket[loc[t].class].hi <= bucket'[loc[t].class].hi
    BY <2>1, BucketsMove
  <2>3. CASE pc'[t] = "newRead"
    BY <1>3, <2>1, <2>3, LookHiMoves
       DEF HeldOK, LooksOK, KnowsOK, HasOK, In, HoldsBlock, Accessing, Subroutines
  <2>4. CASE pc'[t] # "newRead"
    <3>1. pc'[t] = "range" /\ loc'[t].then = "lookNext"
      BY <1>3, <2>4, LookHiMoves
    <3>2. LooksOK(t)'
      BY <1>3, <2>1, <3>1, LookHiMoves DEF LooksOK, In
    <3>3. KnowsOK(t)'
      BY <1>3, <2>2, <2>4, <3>1, LookHiMoves DEF KnowsOK, In
    <3>4. HasOK(t)'
      BY <3>1 DEF HasOK, In, HoldsBlock, Accessing
    <3>. QED  BY <3>2, <3>3, <3>4 DEF HeldOK
  <2>. QED  BY <2>3, <2>4
<1>4. CASE LookNext(t)
  <2> DEFINE c == loc[t].class
  <2>1. loc[t].want \in Sizes /\ c \in Classes /\ loc[t].want <= SizeOf[c]
    BY <1>0, <1>4, LookNextMoves DEF LooksOK, In
  <2>2. /\ loc[t].before.lo \in Slots /\ loc[t].at = loc[t].before.lo
        /\ loc[t].before.hi <= bucket[c].hi
    BY <1>0, <1>4, LookNextMoves DEF KnowsOK, In
  <2>3. UNCHANGED <<bucket, free, word>>
    BY <1>4, LookNextMoves, BlocksStay
  <2>4. ASSUME bucket[c] = loc[t].before
        PROVE  /\ word[loc[t].before.lo].lo \in {0, Below(c, 1)}
               /\ Undisturbed => word[loc[t].before.lo].lo = Below(c, 1)
    <3>1. bucket[c].lo # 0
      BY <2>2, <2>4, SlotFacts
    <3>. QED  BY <2>1, <2>4, <3>1, Top
  <2>5. Undisturbed' => Undisturbed
    BY Disturbs
  <2>6. LooksOK(t)'
    BY <1>4, <2>1, LookNextMoves DEF LooksOK, In
  <2>7. KnowsOK(t)'
    <3>1. /\ loc'[t].before = loc[t].before /\ loc'[t].at = loc[t].at /\ loc'[t].class = c
          /\ loc'[t].next = word[loc[t].before.lo].lo /\ pc'[t] = "lookCas"
      BY <1>4, LookNextMoves
    <3>2. Below(loc[t].class, 1)' = Below(c, 1)
      BY <2>3, <3>1 DEF Below
    <3>. QED  BY <2>2, <2>3, <2>4, <2>5, <3>1, <3>2 DEF KnowsOK
  <2>8. HasOK(t)'
    BY <1>4, LookNextMoves DEF HasOK, In, HoldsBlock, Accessing, Subroutines
  <2>. QED  BY <2>6, <2>7, <2>8 DEF HeldOK
<1>5. CASE LookCas(t)
  <2> DEFINE c == loc[t].class
  <2>1. loc[t].want \in Sizes /\ c \in Classes /\ loc[t].want <= SizeOf[c]
    BY <1>0, <1>5, LookCasMoves DEF LooksOK, In
  <2>2. CASE ~Unchanged(t)
    BY <1>5, <2>1, <2>2, LookCasMoves
       DEF HeldOK, LooksOK, KnowsOK, HasOK, In, HoldsBlock, Accessing, Subroutines
  <2>3. CASE Unchanged(t)
    <3>1. /\ pc'[t] = "lookSize" /\ loc'[t].slot = bucket[c].lo
          /\ loc'[t].class = c /\ loc'[t].want = loc[t].want
      BY <1>5, <2>3, LookCasMoves DEF Unchanged
    <3>2. bucket[c].lo # 0
      BY <1>0, <1>5, <2>3, LookCasMoves, SlotFacts DEF KnowsOK, In, Unchanged
    <3>3. bucket[c].lo \in Slots /\ blocks[bucket[c].lo] = SizeOf[c]
      BY <2>1, <3>2, Top
    <3>4. SizeOf[c] # 0 /\ blocks' = blocks
      BY <1>5, <2>1, Belows DEF LookCas
    <3>5. LooksOK(t)'
      BY <2>1, <3>1 DEF LooksOK, In, Subroutines
    <3>6. KnowsOK(t)'
      BY <3>1 DEF KnowsOK, In, Subroutines
    <3>7. HasOK(t)'
      BY <2>1, <3>1, <3>3, <3>4 DEF HasOK, In, Subroutines
    <3>. QED  BY <3>5, <3>6, <3>7 DEF HeldOK
  <2>. QED  BY <2>2, <2>3
<1>6. CASE LookSize(t)
  <2> DEFINE c == loc[t].class
             s == loc[t].slot
  <2>1. loc[t].want \in Sizes /\ c \in Classes /\ loc[t].want <= SizeOf[c]
        /\ s \in Slots /\ blocks[s] = SizeOf[c] /\ blocks[s] # 0
    BY <1>0, <1>6, LookSizeMoves DEF LooksOK, HasOK, In, HoldsBlock, Accessing
  <2>2. pc'[t] = "fit" /\ loc'[t].then = "clear" /\ loc'[t].slot = s /\ loc'[t].want = loc[t].want
    BY <1>6, LookSizeMoves
  <2>3. blocks' = blocks /\ word'[s].lo = SizeOf[c]
    <3>1. word \in [Slots -> [lo : Nat, hi : Nat]]
      BY DEF Inv, TypeOK
    <3>. QED  BY <1>6, <2>1, <3>1 DEF LookSize
  <2>4. Sized(loc[t].slot)'
    BY <2>1, <2>2, <2>3 DEF Sized
  <2>5. LooksOK(t)' /\ KnowsOK(t)'
    BY <2>1, <2>2 DEF LooksOK, KnowsOK, In
  <2>6. HasOK(t)'
    BY <2>1, <2>2, <2>3, <2>4 DEF HasOK
  <2>. QED  BY <2>5, <2>6 DEF HeldOK
<1>7. CASE NewRead(t)
  <2>1. loc[t].want \in Sizes
    BY <1>0, <1>7, NewReadMoves DEF LooksOK, In
  <2>. QED
    BY <1>7, <2>1, NewReadMoves
       DEF HeldOK, LooksOK, KnowsOK, HasOK, In, HoldsBlock, Accessing, Subroutines
<1>8. CASE NewCas(t)
  <2>1. loc[t].want \in Sizes /\ loc'[t] = loc[t]
    BY <1>0, <1>8, NewCasMoves DEF LooksOK, In
  <2>2. CASE pc'[t] = "newRead"
    BY <2>1, <2>2 DEF HeldOK, LooksOK, KnowsOK, HasOK, In, HoldsBlock, Accessing, Subroutines
  <2>3. CASE pc'[t] # "newRead"
    <3>1. /\ ~(loc[t].slot + loc[t].want >= size) /\ dataAlloc = loc[t].slot /\ pc'[t] = "store"
      BY <1>8, <2>3, NewCasMoves DEF Away
    <3>2. dataAlloc' = loc[t].slot + loc[t].want
          /\ blocks' = [blocks EXCEPT ![loc[t].slot] = loc[t].want]
      BY <1>8, <3>1 DEF NewCas
    <3>3. BASE <= loc[t].slot /\ (loc[t].slot - BASE) % 4 = 0
      BY <3>1 DEF Inv, Stacks
    <3>4. loc[t].slot \in Slots => blocks'[loc[t].slot] = loc[t].want
      BY <3>2, BlocksGrow
    <3>5. loc[t].slot + loc[t].want <= dataAlloc'
      BY <3>2, Facts
    <3>6. HasOK(t)'
      BY <2>1, <3>1, <3>3, <3>4, <3>5 DEF HasOK, In, Subroutines
    <3>7. LooksOK(t)' /\ KnowsOK(t)'
      BY <2>1, <3>1 DEF LooksOK, KnowsOK, In, Subroutines
    <3>. QED  BY <3>6, <3>7 DEF HeldOK
  <2>. QED  BY <2>2, <2>3
<1>9. CASE Clear(t) \/ Store(t)
  BY <1>9, ClearMoves, StoreMoves DEF Away, Releasing
<1>. QED  BY <1>1, <1>2, <1>3, <1>4, <1>5, <1>6, <1>7, <1>8, <1>9 DEF Alloc

\* What a thread that removes and frees knows of its block.
LEMMA HeldFree ==
    ASSUME Inv, NEW t \in Threads, Step(t), Free(t), pc'[t] \notin Away
    PROVE  HeldOK(t)' /\ HoldsBlock(t) /\ HoldsBlock(t)' /\ loc'[t].slot = loc[t].slot
<1> DEFINE s == loc[t].slot
           c == loc[t].class
<1>0. HasOK(t) /\ (Undisturbed' => Undisturbed)
  BY Disturbs DEF Inv, Held
<1>1. CASE ExtentOf(t) \/ Copy(t)
  <2>1. UNCHANGED <<blocks, word>> /\ Sized(s)
    BY <1>0, <1>1, ExtentOfMoves, CopyMoves, BlocksStay DEF HasOK, In
  <2>2. HoldsBlock(t) /\ pc[t] # "store"
    BY <1>1, ExtentOfMoves, CopyMoves DEF HoldsBlock, Accessing
  <2>3. s \in Slots /\ blocks[s] # 0
    BY <1>0, <2>2 DEF HasOK
  <2>4. loc'[t].slot = s /\ \/ pc'[t] = "range" /\ loc'[t].then = "copy"
                            \/ pc'[t] = "freeSize"
    BY <1>1, ExtentOfMoves, CopyMoves
  <2>5. HoldsBlock(t)'
    BY <2>4 DEF HoldsBlock, Accessing, Subroutines
  <2>6. Sized(loc[t].slot)'
    BY <1>0, <2>1, <2>4 DEF Sized
  <2>7. LooksOK(t)' /\ KnowsOK(t)'
    BY <2>4 DEF LooksOK, KnowsOK, In, Subroutines
  <2>8. HasOK(t)'
    BY <2>1, <2>3, <2>4, <2>6 DEF HasOK, In, Subroutines
  <2>. QED  BY <2>2, <2>4, <2>5, <2>7, <2>8 DEF HeldOK
<1>2. CASE FreeSize(t) \/ FreeHi(t) \/ FreeLo(t) \/ FreeCas(t)
  <2>1. HoldsBlock(t) /\ pc[t] # "store"
    BY <1>2, FreeSizeMoves, FreeHiMoves, FreeLoMoves, FreeCasMoves DEF HoldsBlock, Accessing
  <2>2. s \in Slots /\ blocks[s] # 0
    BY <1>0, <2>1 DEF HasOK
  <2>3. /\ loc'[t].slot = s /\ pc'[t] \in {"freeHi", "freeLo", "freeCas"}
    BY <1>2, FreeSizeMoves, FreeHiMoves, FreeLoMoves, FreeCasMoves DEF Away, Releasing
  <2>4. loc'[t].class \in Classes /\ blocks[s] = SizeOf[loc'[t].class]
    <3>1. CASE FreeSize(t)
      <4>1. /\ word[s].lo \in Sizes /\ loc'[t].class \in Classes
            /\ SizeOf[loc'[t].class] = word[s].lo /\ word[s].lo \in {0, blocks[s]}
        BY <1>0, <3>1, FreeSizeMoves DEF HasOK, In, Sized
      <4>2. word[s].lo # 0
        BY <4>1, ClassSizes
      <4>. QED  BY <4>1, <4>2
    <3>2. CASE FreeHi(t) \/ FreeLo(t) \/ FreeCas(t)
      <4>1. pc[t] \in {"freeHi", "freeLo", "freeCas"} /\ loc'[t] = loc[t]
        BY <3>2, FreeHiMoves, FreeLoMoves, FreeCasMoves
      <4>. QED  BY <1>0, <4>1 DEF HasOK
    <3>. QED  BY <1>2, <3>1, <3>2
  <2>5. blocks'[s] = blocks[s]
    BY <2>2, BlocksGrow
  <2>6. HoldsBlock(t)'
    BY <2>3 DEF HoldsBlock, Accessing
  <2>7. LooksOK(t)' /\ KnowsOK(t)'
    BY <2>3 DEF LooksOK, KnowsOK, In, Subroutines
  <2>8. HasOK(t)'
    BY <2>2, <2>3, <2>4, <2>5 DEF HasOK, In, Subroutines
  <2>. QED  BY <2>1, <2>3, <2>6, <2>7, <2>8 DEF HeldOK
<1>. QED  BY <1>1, <1>2 DEF Free

\* What the thread that moves knows of its block.
LEMMA HeldMine ==
    ASSUME Inv, NEW t \in Threads, Step(t)
    PROVE  HeldOK(t)'
<1>1. CASE pc'[t] \in Away
  BY <1>1, HeldAway
<1>2. CASE pc'[t] \notin Away
  <2>1. CASE CallAdd(t)
    <3>1. /\ pc'[t] = "firstFit" /\ loc'[t].want \in Sizes /\ loc'[t].class \in Classes
          /\ SizeOf[loc'[t].class] = loc'[t].want /\ SizeOf[loc'[t].class] \in Nat
      BY <2>1, CallAddMoves, Belows
    <3>2. loc'[t].want <= SizeOf[loc'[t].class]
      BY <3>1
    <3>. QED
      BY <3>1, <3>2 DEF HeldOK, LooksOK, KnowsOK, HasOK, In, HoldsBlock, Accessing, Subroutines
  <2>2. CASE CallRemove(t)
    <3>0. queued # <<>>
      BY <1>2, <2>2, CallRemoveMoves DEF Away
    <3>1. pc'[t] = "range" /\ loc'[t].then = "extentOf" /\ loc'[t].slot = Head(queued)
          /\ pc[t] = "idle"
      BY <2>2, <3>0, CallRemoveMoves
    <3>2. Head(queued) \in Slots /\ Sized(Head(queued))
      <4>1. queued \in Seq(Slots) /\ 1 \in DOMAIN queued /\ Head(queued) = queued[1]
        BY <3>0 DEF Inv, TypeOK
      <4>. QED  BY <4>1 DEF Inv, Held
    <3>3. UNCHANGED <<blocks, word>> /\ (Undisturbed' => Undisturbed)
      BY <3>1, BlocksStay, Disturbs
    <3>4. Sized(loc[t].slot)'
      BY <3>1, <3>2, <3>3 DEF Sized
    <3>5. blocks'[loc'[t].slot] # 0
      BY <3>4 DEF Sized
    <3>. QED
      BY <3>1, <3>2, <3>4, <3>5 DEF HeldOK, LooksOK, KnowsOK, HasOK, In
  <2>3. CASE Leave(t) \/ Fault(t)
    BY <1>2, <2>3, LeaveMoves, FaultMoves DEF Away
  <2>4. CASE Extent(t)
    BY <1>2, <2>4, WithinExtent, HeldWithin
  <2>5. CASE Alloc(t)
    BY <1>2, <2>5, HeldAlloc
  <2>6. CASE Free(t)
    BY <1>2, <2>6, HeldFree
  <2>. QED  BY <2>1, <2>2, <2>3, <2>4, <2>5, <2>6 DEF Step
<1>. QED  BY <1>1, <1>2

(***************************************************************************)
(* Where the blocks are.                                                   *)
(***************************************************************************)

\* The rest of a sequence, by index; so do Append and a new first element.
LEMMA Rests ==
    ASSUME NEW S, NEW s \in Seq(S), s # <<>>
    PROVE  /\ SubSeq(s, 2, Len(s)) \in Seq(S) /\ Tail(s) \in Seq(S)
           /\ Len(SubSeq(s, 2, Len(s))) = Len(s) - 1 /\ Len(Tail(s)) = Len(s) - 1
           /\ \A i \in 1..(Len(s) - 1) :
                 i + 1 \in 1..Len(s) /\ SubSeq(s, 2, Len(s))[i] = s[i + 1] /\ Tail(s)[i] = s[i + 1]
           /\ 1 \in 1..Len(s) /\ Head(s) = s[1] /\ Len(s) \in Nat
<1>1. Len(s) \in Nat /\ 1 \in 1..Len(s) /\ Head(s) = s[1]
  OBVIOUS
<1>2. /\ SubSeq(s, 2, Len(s)) \in Seq(S) /\ Len(SubSeq(s, 2, Len(s))) = Len(s) - 1
      /\ \A i \in 1..(Len(s) - 1) : SubSeq(s, 2, Len(s))[i] = s[i + 1]
  <2> DEFINE q == SubSeq(s, 2, Len(s))
  <2>1. q \in Seq(S)
    BY <1>1
  <2>2. Len(q) = Len(s) - 1
    BY <1>1
  <2>3. ASSUME NEW i \in 1..(Len(s) - 1)  PROVE q[i] = s[i + 1]
    BY <1>1
  <2>. QED  BY <2>1, <2>2, <2>3
<1>3. /\ Tail(s) \in Seq(S) /\ Len(Tail(s)) = Len(s) - 1
      /\ \A i \in 1..(Len(s) - 1) : Tail(s)[i] = s[i + 1]
  BY <1>1
<1>4. \A i \in 1..(Len(s) - 1) : i + 1 \in 1..Len(s)
  BY <1>1
<1>. QED  BY <1>1, <1>2, <1>3, <1>4

\* What is appended to a sequence is its last member.
LEMMA Appends ==
    ASSUME NEW S, NEW s \in Seq(S), NEW x \in S
    PROVE  /\ Append(s, x) \in Seq(S) /\ Len(Append(s, x)) = Len(s) + 1 /\ Len(s) \in Nat
           /\ \A i \in 1..(Len(s) + 1) :
                 Append(s, x)[i] = IF i = Len(s) + 1 THEN x ELSE s[i]
           /\ \A i \in 1..(Len(s) + 1) : i = Len(s) + 1 \/ i \in 1..Len(s)
  OBVIOUS

\* What is pushed onto a sequence is its first member.
LEMMA Pushes ==
    ASSUME NEW S, NEW s \in Seq(S), NEW x \in S
    PROVE  /\ <<x>> \o s \in Seq(S) /\ Len(<<x>> \o s) = Len(s) + 1 /\ Len(s) \in Nat
           /\ (<<x>> \o s)[1] = x
           /\ \A i \in 2..(Len(s) + 1) : i - 1 \in 1..Len(s) /\ (<<x>> \o s)[i] = s[i - 1]
           /\ \A i \in 1..(Len(s) + 1) : i = 1 \/ i \in 2..(Len(s) + 1)
  OBVIOUS

\* The other threads hold what they held.
LEMMA OthersHold ==
    ASSUME Inv, NEW t \in Threads, Step(t)
    PROVE  \A u \in Threads : u # t =>
              (HoldsBlock(u)' <=> HoldsBlock(u)) /\ loc'[u].slot = loc[u].slot
                 /\ pc'[u] = pc[u]
  BY OthersRest DEF Rest, HoldsBlock

Keeps(t) ==
    /\ UNCHANGED <<queued, bucket, free, blocks>>
    /\ HoldsBlock(t)' => HoldsBlock(t) /\ loc'[t].slot = loc[t].slot
    /\ HoldsBlock(t) => HoldsBlock(t)' \/ pc'[t] = "fault"

\* The steps that put a block into another place.
LEMMA Movers ==
    ASSUME Inv, NEW t \in Threads, Step(t)
    PROVE  \/ Keeps(t)
           \/ CallRemove(t) /\ queued # <<>>
           \/ LookCas(t) /\ Unchanged(t)
           \/ NewCas(t) /\ pc'[t] = "store"
           \/ Clear(t) \/ Store(t)
           \/ FreeCas(t) /\ pc'[t] = "release"
<1>0. UNCHANGED <<bucket, free>> \/ LookCas(t) \/ FreeCas(t)
  BY BucketsMove
<1>1. UNCHANGED blocks \/ NewCas(t)
  BY BlocksGrow
<1>2. UNCHANGED queued \/ CallRemove(t) \/ Clear(t) \/ Store(t)
  BY Writers DEF Leave, callVars
<1>3. CASE CallAdd(t) \/ CallRemove(t) \/ Leave(t) \/ Fault(t)
  <2>1. CASE CallAdd(t)
    <3>1. UNCHANGED <<queued, bucket, free, blocks>>
      BY <2>1 DEF CallAdd, blockVars, callVars
    <3>. QED
      BY <2>1, <3>1, CallAddMoves DEF Keeps, HoldsBlock, Accessing, Subroutines
  <2>2. CASE CallRemove(t) /\ ~(queued # <<>>)
    <3>1. UNCHANGED <<queued, bucket, free, blocks>>
      BY <2>2 DEF CallRemove, blockVars, callVars
    <3>. QED
      BY <2>2, <3>1, CallRemoveMoves DEF Keeps, HoldsBlock, Accessing, Subroutines
  <2>3. CASE Leave(t)
    <3>1. UNCHANGED <<queued, bucket, free, blocks>>
      BY <2>3 DEF Leave, blockVars
    <3>. QED
      BY <2>3, <3>1, LeaveMoves DEF Keeps, HoldsBlock, Accessing, Subroutines
  <2>4. CASE Fault(t)
    <3>1. UNCHANGED <<queued, bucket, free, blocks>>
      BY <2>4 DEF Fault, blockVars, callVars
    <3>. QED
      BY <2>4, <3>1, FaultMoves DEF Keeps, HoldsBlock, Accessing, Subroutines
  <2>. QED  BY <1>3, <2>1, <2>2, <2>3, <2>4
<1>4. CASE Extent(t)
  <2>0. ~HoldsBlock(t) \/ pc[t] \in Subroutines
    <3>1. pc[t] \notin Accessing
      BY <1>4, InRangeMoves, FitMoves, ExpandMoves, ExpPrevMoves, ExpCasMoves, ExpReadMoves,
         TruncateMoves, SizeCasMoves, ResizeMoves, LinkMoves, AdvanceMoves, ReleaseMoves
         DEF Extent, Accessing, Releasing
    <3>. QED  BY <3>1 DEF HoldsBlock
  <2>1. UNCHANGED <<queued, bucket, free, blocks>>
    BY <1>4 DEF Extent, InRange, Fit, Expand, ExpPrev, ExpCas, ExpRead, Truncate, SizeCas,
       Resize, Link, Advance, Release, ReleaseHead, ReleaseTest, ReleaseAlone, ReleaseNext,
       ReleaseCas, ReleaseFree, blockVars, callVars
  <2>2. CASE pc'[t] \in Away
    <3>1. ~HoldsBlock(t)'
      BY <2>2, HeldAway
    <3>2. ~HoldsBlock(t)
      <4>1. Truncate(t) \/ Release(t)
        <5>1. ASSUME InRange(t) \/ Fit(t)  PROVE FALSE
          BY <2>2, <5>1, InRangeMoves, FitMoves DEF Inv, Places, PlaceOK, Away, Releasing
        <5>2. ASSUME Resize(t) \/ Advance(t)  PROVE FALSE
          BY <2>2, <5>2, ResizeMoves, AdvanceMoves, ResizedTo DEF Away, Releasing
        <5>3. ASSUME Expand(t) \/ ExpPrev(t) \/ ExpCas(t) \/ ExpRead(t) \/ SizeCas(t) \/ Link(t)
              PROVE  FALSE
          BY <2>2, <5>3, ExpandMoves, ExpPrevMoves, ExpCasMoves, ExpReadMoves, SizeCasMoves,
             LinkMoves DEF Away, Releasing
        <5>. QED  BY <1>4, <5>1, <5>2, <5>3 DEF Extent
      <4>2. CASE Truncate(t)
        BY <4>2, TruncateMoves DEF Inv, Places, PlaceOK, Expanding, HoldsBlock, Accessing
      <4>3. CASE Release(t)
        BY <4>3, ReleaseMoves DEF HoldsBlock, Accessing, Subroutines, Releasing
      <4>. QED  BY <4>1, <4>2, <4>3
    <3>. QED  BY <2>1, <3>1, <3>2 DEF Keeps
  <2>3. CASE pc'[t] \notin Away
    BY <1>4, <2>1, <2>3, WithinExtent, HeldWithin DEF Keeps, Steady
  <2>. QED  BY <2>2, <2>3
<1>5. CASE Alloc(t)
  <2>1. CASE FirstFit(t) \/ LookLo(t) \/ LookHi(t) \/ LookNext(t) \/ NewRead(t)
    <3>1. UNCHANGED <<queued, bucket, free, blocks>>
      BY <2>1 DEF FirstFit, LookLo, LookHi, LookNext, NewRead, blockVars, callVars
    <3>2. ~HoldsBlock(t) /\ ~HoldsBlock(t)'
      BY <2>1, FirstFitMoves, LookLoMoves, LookHiMoves, LookNextMoves, NewReadMoves
         DEF HoldsBlock, Accessing, Subroutines
    <3>. QED  BY <3>1, <3>2 DEF Keeps
  <2>2. CASE LookCas(t) /\ ~Unchanged(t)
    <3>1. UNCHANGED <<queued, bucket, free, blocks>>
      BY <2>2 DEF LookCas, callVars
    <3>2. ~HoldsBlock(t) /\ ~HoldsBlock(t)'
      BY <2>2, LookCasMoves DEF HoldsBlock, Accessing, Subroutines
    <3>. QED  BY <3>1, <3>2 DEF Keeps
  <2>3. CASE LookSize(t)
    <3>1. UNCHANGED <<queued, bucket, free, blocks>>
      BY <2>3 DEF LookSize, callVars
    <3>2. HoldsBlock(t) /\ HoldsBlock(t)' /\ loc'[t].slot = loc[t].slot
      BY <2>3, LookSizeMoves DEF HoldsBlock, Accessing, Subroutines
    <3>. QED  BY <3>1, <3>2 DEF Keeps
  <2>4. CASE NewCas(t) /\ pc'[t] # "store"
    <3>1. UNCHANGED <<queued, bucket, free, blocks>>
      BY <2>4, NewCasMoves DEF NewCas, callVars
    <3>2. ~HoldsBlock(t) /\ ~HoldsBlock(t)'
      BY <2>4, NewCasMoves DEF HoldsBlock, Accessing, Subroutines
    <3>. QED  BY <3>1, <3>2 DEF Keeps
  <2>. QED  BY <1>5, <2>1, <2>2, <2>3, <2>4 DEF Alloc
<1>6. CASE Free(t) /\ ~(FreeCas(t) /\ pc'[t] = "release")
  <2>1. UNCHANGED <<queued, bucket, free, blocks>>
    BY <1>6, FreeCasMoves DEF Free, ExtentOf, Copy, FreeSize, FreeHi, FreeLo, FreeCas, blockVars,
       callVars
  <2>2. pc'[t] \notin Away
    BY <1>6, ExtentOfMoves, CopyMoves, FreeSizeMoves, FreeHiMoves, FreeLoMoves, FreeCasMoves
       DEF Free, Away, Releasing
  <2>. QED  BY SMTT(30), <1>6, <2>1, <2>2, HeldFree DEF Keeps
<1>. QED  BY <1>3, <1>4, <1>5, <1>6 DEF Step

\* A block lies below DATA_ALLOC, wherever it is.
LEMMA Located ==
    ASSUME Inv
    PROVE  /\ \A s \in Slots : blocks[s] # 0 => s < dataAlloc
           /\ queued \in Seq(Slots) /\ \A i \in DOMAIN queued :
                 queued[i] \in Slots /\ blocks[queued[i]] # 0 /\ queued[i] < dataAlloc
           /\ \A c \in Classes : free[c] \in Seq(Slots) /\ \A i \in DOMAIN free[c] :
                 /\ free[c][i] \in Slots /\ blocks[free[c][i]] # 0 /\ free[c][i] < dataAlloc
                 /\ blocks[free[c][i]] = SizeOf[c]
           /\ \A u \in Threads : HoldsBlock(u) => loc[u].slot < dataAlloc
<1>0. blocks \in [Slots -> 0..32] /\ dataAlloc \in Nat
  BY DEF Inv, TypeOK
<1>1. ASSUME NEW s \in Slots, blocks[s] # 0  PROVE s < dataAlloc
  <2>1. s + blocks[s] <= dataAlloc /\ s \in Nat /\ blocks[s] \in 0..32
    BY <1>0, <1>1, SlotFacts DEF Inv, Stacks
  <2>. QED  BY <1>0, <1>1, <2>1
<1>2. queued \in Seq(Slots) /\ \A i \in DOMAIN queued : queued[i] \in Slots
  BY DEF Inv, TypeOK
<1>3. \A i \in DOMAIN queued : blocks[queued[i]] # 0
  BY DEF Inv, Held, Sized
<1>4. ASSUME NEW c \in Classes, NEW i \in DOMAIN free[c]
      PROVE  free[c][i] \in Slots /\ blocks[free[c][i]] # 0 /\ blocks[free[c][i]] = SizeOf[c]
  <2>1. free[c][i] \in Slots /\ SizeOf[c] # 0
    BY Belows
  <2>2. blocks[free[c][i]] = SizeOf[c]
    BY DEF Inv, BlocksAccounted, BlocksApart
  <2>. QED  BY <2>1, <2>2
<1>5. ASSUME NEW u \in Threads, HoldsBlock(u)  PROVE loc[u].slot < dataAlloc
  <2>1. CASE pc[u] = "store"
    <3>1. loc[u].slot + loc[u].want <= dataAlloc /\ loc[u].want \in Sizes /\ loc[u].slot \in Nat
      BY <2>1, Facts DEF Inv, Held, LooksOK, HasOK, In
    <3>2. loc[u].want \in Nat /\ loc[u].want > 0
      BY <3>1, ClassSizes
    <3>. QED  BY <1>0, <3>1, <3>2
  <2>2. CASE pc[u] # "store"
    BY <1>1, <1>5, <2>2 DEF Inv, Held, HasOK
  <2>. QED  BY <2>1, <2>2
<1>6. \A c \in Classes : free[c] \in Seq(Slots)
  BY Belows
<1>. QED  BY <1>1, <1>2, <1>3, <1>4, <1>5, <1>6

\* Two blocks have no slot in common: a new one starts where the last one ends.
LEMMA Disjoint ==
    ASSUME Inv, NEW t \in Threads, Step(t), NEW s \in Slots, NEW r \in Slots,
           blocks'[s] # 0, blocks'[r] # 0, s < r
    PROVE  s + blocks'[s] <= r
<1>0. /\ blocks \in [Slots -> 0..32] /\ dataAlloc \in Nat /\ s \in Nat /\ r \in Nat
      /\ \A q \in Slots : blocks[q] # 0 => q + blocks[q] <= dataAlloc /\ q < dataAlloc
      /\ blocks[s] # 0 /\ blocks[r] # 0 => s + blocks[s] <= r
  BY Located, SlotFacts DEF Inv, TypeOK, Stacks, BlocksAccounted, BlocksApart
<1>1. CASE blocks' = blocks
  BY <1>0, <1>1
<1>2. CASE blocks' # blocks
  <2>1. blocks' = [blocks EXCEPT ![dataAlloc] = loc[t].want]
    BY <1>2, BlocksGrow DEF NewCas
  <2>2. s # dataAlloc
    <3>1. SUFFICES ASSUME s = dataAlloc  PROVE FALSE
      OBVIOUS
    <3>2. blocks[r] # 0
      BY <1>0, <2>1, <3>1
    <3>. QED  BY <1>0, <3>1, <3>2
  <2>3. blocks'[s] = blocks[s]
    BY <1>0, <2>1, <2>2
  <2>4. CASE r = dataAlloc
    BY <1>0, <2>3, <2>4
  <2>5. CASE r # dataAlloc
    BY <1>0, <2>1, <2>3, <2>5
  <2>. QED  BY <2>4, <2>5
<1>. QED  BY <1>1, <1>2

\* The parts of BlocksApart a step may disturb.
Once ==
    /\ Injective(queued) /\ \A c \in Classes : Injective(free[c])
    /\ \A t, u \in Threads :
          HoldsBlock(t) /\ HoldsBlock(u) /\ loc[t].slot = loc[u].slot => t = u
    /\ \A i \in DOMAIN queued : \A t \in Threads : HoldsBlock(t) => loc[t].slot # queued[i]
    /\ \A c \in Classes : \A i \in DOMAIN free[c] :
          /\ blocks[free[c][i]] = SizeOf[c]
          /\ \A j \in DOMAIN queued : queued[j] # free[c][i]
          /\ \A t \in Threads : HoldsBlock(t) => loc[t].slot # free[c][i]

\* A block that stays where it is.
LEMMA OnceKeeps ==
    ASSUME Inv, NEW t \in Threads, Step(t), Keeps(t)
    PROVE  Once' /\ (NoneLost /\ ~Faulted' => NoneLost')
<1>1. UNCHANGED <<queued, free, blocks>>
  BY DEF Keeps
<1>2. \A u \in Threads : HoldsBlock(u)' => HoldsBlock(u) /\ loc'[u].slot = loc[u].slot
  BY OthersHold DEF Keeps
<1>3. Once
  BY DEF Inv, BlocksAccounted, BlocksApart, Once
<1>4. Once'
  BY <1>1, <1>2, <1>3 DEF Once, Injective
<1>5. ASSUME NoneLost, ~Faulted'  PROVE NoneLost'
  <2>1. \A u \in Threads : HoldsBlock(u) => HoldsBlock(u)' /\ loc'[u].slot = loc[u].slot
    BY <1>2, <1>5, OthersHold DEF Keeps, Faulted
  <2>. QED  BY <1>1, <1>5, <2>1 DEF NoneLost
<1>. QED  BY <1>4, <1>5

\* A remove takes the first item.
LEMMA OnceRemove ==
    ASSUME Inv, NEW t \in Threads, Step(t), CallRemove(t), queued # <<>>
    PROVE  Once' /\ (NoneLost => NoneLost')
<1>1. queued' = Tail(queued) /\ UNCHANGED <<free, blocks>>
  BY DEF CallRemove, blockVars
<1>2. /\ HoldsBlock(t)' /\ loc'[t].slot = queued[1] /\ ~HoldsBlock(t)
      /\ 1 \in DOMAIN queued /\ DOMAIN queued' = 1..(Len(queued) - 1)
      /\ DOMAIN queued = 1..Len(queued)
      /\ \A i \in DOMAIN queued' : i + 1 \in DOMAIN queued /\ queued'[i] = queued[i + 1]
      /\ Len(queued) \in Nat
  <2>1. pc[t] = "idle" /\ pc'[t] = "range" /\ loc'[t].then = "extentOf"
        /\ loc'[t].slot = Head(queued)
    BY CallRemoveMoves
  <2>2. HoldsBlock(t)' /\ ~HoldsBlock(t)
    BY <2>1 DEF HoldsBlock, Accessing, Subroutines
  <2>3. queued \in Seq(Slots)
    BY Located
  <2>. QED  BY <1>1, <2>1, <2>2, <2>3, Rests
<1>3. \A i \in DOMAIN queued' : i + 1 # 1
  BY <1>2
<1>4. Once
  BY DEF Inv, BlocksAccounted, BlocksApart, Once
<1>5. \A u \in Threads : u # t => (HoldsBlock(u)' <=> HoldsBlock(u)) /\ loc'[u].slot = loc[u].slot
  BY OthersHold
<1>6. Once'
  <2>1. Injective(queued')
    <3>1. ASSUME NEW i \in DOMAIN queued', NEW j \in DOMAIN queued', queued'[i] = queued'[j]
          PROVE  i = j
      <4>1. i + 1 = j + 1
        BY <1>2, <1>4, <3>1 DEF Once, Injective
      <4>. QED  BY <1>2, <4>1
    <3>. QED  BY <3>1 DEF Injective
  <2>2. \A c \in Classes : Injective(free'[c])
    BY <1>1, <1>4 DEF Once
  <2>3. \A u \in Threads : u # t /\ HoldsBlock(u)' => loc'[u].slot # queued[1]
    BY <1>2, <1>4, <1>5 DEF Once
  <2>4. \A u, v \in Threads :
           HoldsBlock(u)' /\ HoldsBlock(v)' /\ loc'[u].slot = loc'[v].slot => u = v
    BY <1>2, <1>4, <1>5, <2>3 DEF Once
  <2>5. \A i \in DOMAIN queued' : queued'[i] # queued[1]
    BY <1>2, <1>3, <1>4 DEF Once, Injective
  <2>6. \A i \in DOMAIN queued' : \A u \in Threads : HoldsBlock(u)' => loc'[u].slot # queued'[i]
    BY <1>2, <1>4, <1>5, <2>5 DEF Once
  <2>7. \A c \in Classes : \A i \in DOMAIN free'[c] :
           /\ blocks'[free'[c][i]] = SizeOf[c]
           /\ \A j \in DOMAIN queued' : queued'[j] # free'[c][i]
           /\ \A u \in Threads : HoldsBlock(u)' => loc'[u].slot # free'[c][i]
    BY <1>1, <1>2, <1>4, <1>5 DEF Once
  <2>. QED  BY <2>1, <2>2, <2>4, <2>6, <2>7 DEF Once
<1>7. ASSUME NoneLost  PROVE NoneLost'
  <2>1. ASSUME NEW s \in Slots, NEW i \in DOMAIN queued, queued[i] = s
        PROVE  (HoldsBlock(t)' /\ loc'[t].slot = s) \/ \E j \in DOMAIN queued' : queued'[j] = s
    <3>1. CASE i = 1
      BY <1>2, <2>1, <3>1
    <3>2. CASE i # 1
      <4>1. i - 1 \in DOMAIN queued' /\ (i - 1) + 1 = i
        BY <1>2, <3>2
      <4>2. queued'[i - 1] = queued[i]
        BY <1>2, <4>1
      <4>. QED  BY <2>1, <4>1, <4>2
    <3>. QED  BY <3>1, <3>2
  <2>. QED  BY <1>1, <1>2, <1>5, <1>7, <2>1 DEF NoneLost
<1>. QED  BY <1>6, <1>7

\* An add takes the top of a bucket.
LEMMA OnceLook ==
    ASSUME Inv, NEW t \in Threads, Step(t), LookCas(t), Unchanged(t)
    PROVE  Once' /\ (NoneLost => NoneLost')
<1> DEFINE c0 == loc[t].class
<1>0. c0 \in Classes /\ pc[t] = "lookCas" /\ bucket[c0] = loc[t].before
      /\ loc[t].before.lo \in Slots
  BY LookCasMoves DEF Inv, Held, LooksOK, KnowsOK, In, Unchanged
<1>1. /\ free' = [free EXCEPT ![c0] = SubSeq(@, 2, Len(@))] /\ UNCHANGED <<queued, blocks>>
      /\ free \in [Classes -> Seq(Slots)]
  BY DEF LookCas, callVars, Inv, TypeOK
<1>2. bucket[c0].lo # 0 /\ bucket[c0].lo = free[c0][1] /\ free[c0] # <<>> /\ free[c0] \in Seq(Slots)
  BY <1>0, SlotFacts, Top, Located
<1>3. /\ HoldsBlock(t)' /\ loc'[t].slot = free[c0][1] /\ ~HoldsBlock(t)
  BY <1>0, <1>2, LookCasMoves DEF HoldsBlock, Accessing, Subroutines
<1> HIDE DEF c0
<1>4. /\ 1 \in DOMAIN free[c0] /\ DOMAIN free'[c0] = 1..(Len(free[c0]) - 1)
      /\ DOMAIN free[c0] = 1..Len(free[c0]) /\ Len(free[c0]) \in Nat
      /\ \A i \in DOMAIN free'[c0] : i + 1 \in DOMAIN free[c0] /\ free'[c0][i] = free[c0][i + 1]
  <2>1. free'[c0] = SubSeq(free[c0], 2, Len(free[c0]))
    BY <1>0, <1>1
  <2>. QED  BY <1>2, <2>1, Rests
<1>5. \A c \in Classes : c # c0 => free'[c] = free[c]
  BY <1>1
<1>6. Once
  BY DEF Inv, BlocksAccounted, BlocksApart, Once
<1>7. \A u \in Threads : u # t => (HoldsBlock(u)' <=> HoldsBlock(u)) /\ loc'[u].slot = loc[u].slot
  BY OthersHold
<1>8. ASSUME NEW c \in Classes, NEW i \in DOMAIN free'[c]
      PROVE  /\ \E j \in DOMAIN free[c] : free[c][j] = free'[c][i]
             /\ free'[c][i] # free[c0][1]
  <2>1. CASE c = c0
    <3>1. i + 1 \in DOMAIN free[c] /\ free'[c][i] = free[c][i + 1] /\ i + 1 # 1
      BY <1>4, <1>8, <2>1
    <3>. QED  BY <1>0, <1>4, <1>6, <2>1, <3>1 DEF Once, Injective
  <2>2. CASE c # c0
    <3>1. free'[c] = free[c]
      BY <1>5, <2>2
    <3>2. blocks[free[c][i]] = SizeOf[c] /\ blocks[free[c0][1]] = SizeOf[c0]
      BY <1>0, <1>4, <1>6, <1>8, <3>1 DEF Once
    <3>3. SizeOf[c] # SizeOf[c0]
      BY <1>0, <2>2, ClassSizes
    <3>. QED  BY <1>8, <3>1, <3>2, <3>3
  <2>. QED  BY <2>1, <2>2
<1>9. Once'
  <2>1. \A c \in Classes : Injective(free'[c])
    <3>1. ASSUME NEW i \in DOMAIN free'[c0], NEW j \in DOMAIN free'[c0], free'[c0][i] = free'[c0][j]
          PROVE  i = j
      <4>1. i + 1 = j + 1
        BY <1>0, <1>4, <1>6, <3>1 DEF Once, Injective
      <4>. QED  BY <1>4, <4>1
    <3>. QED  BY <1>5, <1>6, <3>1 DEF Injective, Once
  <2>2. \A u \in Threads : u # t /\ HoldsBlock(u)' => loc'[u].slot # free[c0][1]
    BY <1>0, <1>4, <1>6, <1>7 DEF Once
  <2>3. \A u, v \in Threads :
           HoldsBlock(u)' /\ HoldsBlock(v)' /\ loc'[u].slot = loc'[v].slot => u = v
    BY <1>3, <1>6, <1>7, <2>2 DEF Once
  <2>4. \A i \in DOMAIN queued' : \A u \in Threads : HoldsBlock(u)' => loc'[u].slot # queued'[i]
    BY <1>0, <1>1, <1>3, <1>4, <1>6, <1>7 DEF Once
  <2>5. ASSUME NEW c \in Classes, NEW i \in DOMAIN free'[c]
        PROVE  /\ blocks'[free'[c][i]] = SizeOf[c]
               /\ \A j \in DOMAIN queued' : queued'[j] # free'[c][i]
               /\ \A u \in Threads : HoldsBlock(u)' => loc'[u].slot # free'[c][i]
    <3>1. PICK j \in DOMAIN free[c] : free[c][j] = free'[c][i]
      BY <1>8, <2>5
    <3>2. /\ blocks[free[c][j]] = SizeOf[c] /\ \A k \in DOMAIN queued : queued[k] # free[c][j]
          /\ \A u \in Threads : HoldsBlock(u) => loc[u].slot # free[c][j]
      BY <1>6 DEF Once
    <3>3. free'[c][i] # free[c0][1]
      BY <1>8, <2>5
    <3>. QED  BY <1>1, <1>3, <1>7, <3>1, <3>2, <3>3
  <2>. QED  BY <1>1, <1>6, <2>1, <2>3, <2>4, <2>5 DEF Once
<1>10. ASSUME NoneLost  PROVE NoneLost'
  <2>1. ASSUME NEW s \in Slots, NEW c \in Classes, NEW i \in DOMAIN free[c], free[c][i] = s
        PROVE  (HoldsBlock(t)' /\ loc'[t].slot = s) \/ \E j \in DOMAIN free'[c] : free'[c][j] = s
    <3>1. CASE c = c0 /\ i = 1
      BY <1>3, <2>1, <3>1
    <3>2. CASE c = c0 /\ i # 1
      <4>1. i - 1 \in DOMAIN free'[c0] /\ (i - 1) + 1 = i
        BY <1>4, <2>1, <3>2
      <4>2. free'[c0][i - 1] = free[c0][i]
        BY <1>4, <4>1
      <4>. QED  BY <2>1, <3>2, <4>1, <4>2
    <3>3. CASE c # c0
      BY <1>5, <2>1, <3>3
    <3>. QED  BY <3>1, <3>2, <3>3
  <2>2. ASSUME NEW s \in Slots, NEW u \in Threads, HoldsBlock(u), loc[u].slot = s
        PROVE  HoldsBlock(u)' /\ loc'[u].slot = s
    BY <1>3, <1>7, <2>2
  <2>3. ASSUME NEW s \in Slots, blocks'[s] # 0
        PROVE  \/ \E i \in DOMAIN queued' : queued'[i] = s
               \/ \E c \in Classes : \E i \in DOMAIN free'[c] : free'[c][i] = s
               \/ \E u \in Threads : HoldsBlock(u)' /\ loc'[u].slot = s
    <3>1. CASE \E i \in DOMAIN queued : queued[i] = s
      BY <1>1, <3>1
    <3>2. CASE \E c \in Classes : \E i \in DOMAIN free[c] : free[c][i] = s
      BY <2>1, <3>2
    <3>3. CASE \E u \in Threads : HoldsBlock(u) /\ loc[u].slot = s
      BY <2>2, <3>3
    <3>. QED  BY <1>1, <1>10, <2>3, <3>1, <3>2, <3>3 DEF NoneLost
  <2>. QED  BY <2>3 DEF NoneLost
<1>. QED  BY <1>9, <1>10

\* An add takes new slots.
LEMMA OnceNew ==
    ASSUME Inv, NEW t \in Threads, Step(t), NewCas(t), pc'[t] = "store"
    PROVE  Once' /\ (NoneLost => NoneLost')
<1>1. /\ UNCHANGED <<queued, free>> /\ loc' = loc /\ loc[t].slot = dataAlloc
      /\ blocks' = [blocks EXCEPT ![dataAlloc] = loc[t].want]
  BY NewCasMoves DEF NewCas, callVars
<1>2. HoldsBlock(t)' /\ ~HoldsBlock(t)
  BY NewCasMoves DEF HoldsBlock, Accessing, Subroutines
<1>3. \A u \in Threads : u # t => (HoldsBlock(u)' <=> HoldsBlock(u)) /\ loc'[u].slot = loc[u].slot
  BY OthersHold
<1>4. Once /\ dataAlloc \in Nat
  BY Facts DEF Inv, BlocksAccounted, BlocksApart, Once
<1>5. /\ \A i \in DOMAIN queued : queued[i] # dataAlloc
      /\ \A c \in Classes : \A i \in DOMAIN free[c] :
            free[c][i] # dataAlloc /\ blocks'[free[c][i]] = SizeOf[c]
      /\ \A u \in Threads : HoldsBlock(u) => loc[u].slot # dataAlloc
  <2>1. \A i \in DOMAIN queued : queued[i] \in Nat /\ queued[i] < dataAlloc
    BY Located, SlotFacts
  <2>2. \A c \in Classes : \A i \in DOMAIN free[c] :
           /\ free[c][i] \in Slots /\ free[c][i] \in Nat /\ free[c][i] < dataAlloc
           /\ blocks[free[c][i]] # 0 /\ blocks[free[c][i]] = SizeOf[c]
    BY Located, SlotFacts
  <2>3. \A c \in Classes : \A i \in DOMAIN free[c] : blocks'[free[c][i]] = SizeOf[c]
    BY <2>2, BlocksGrow
  <2>4. \A u \in Threads : HoldsBlock(u) => loc[u].slot \in Nat /\ loc[u].slot < dataAlloc
    BY Located, Facts
  <2>. QED  BY <1>4, <2>1, <2>2, <2>3, <2>4
<1>6. Once'
  <2>1. \A u, v \in Threads :
           HoldsBlock(u)' /\ HoldsBlock(v)' /\ loc'[u].slot = loc'[v].slot => u = v
    BY <1>1, <1>3, <1>4, <1>5 DEF Once
  <2>2. \A i \in DOMAIN queued' : \A u \in Threads : HoldsBlock(u)' => loc'[u].slot # queued'[i]
    BY <1>1, <1>3, <1>4, <1>5 DEF Once
  <2>3. \A c \in Classes : \A i \in DOMAIN free'[c] :
           /\ blocks'[free'[c][i]] = SizeOf[c]
           /\ \A j \in DOMAIN queued' : queued'[j] # free'[c][i]
           /\ \A u \in Threads : HoldsBlock(u)' => loc'[u].slot # free'[c][i]
    BY <1>1, <1>3, <1>4, <1>5 DEF Once
  <2>. QED  BY <1>1, <1>4, <2>1, <2>2, <2>3 DEF Once, Injective
<1>7. ASSUME NoneLost  PROVE NoneLost'
  <2>1. \A s \in Slots : blocks'[s] # 0 => blocks[s] # 0 \/ s = loc'[t].slot
    BY <1>1 DEF Inv, TypeOK
  <2>2. \A u \in Threads : HoldsBlock(u) => HoldsBlock(u)' /\ loc'[u].slot = loc[u].slot
    BY <1>2, <1>3
  <2>. QED  BY <1>1, <1>2, <1>7, <2>1, <2>2 DEF NoneLost
<1>. QED  BY <1>6, <1>7

\* An item is queued.
LEMMA OnceAdd ==
    ASSUME Inv, NEW t \in Threads, Step(t), Clear(t) \/ Store(t)
    PROVE  Once' /\ (NoneLost => NoneLost') /\ queued' \in Seq(Slots)
           /\ \A i \in DOMAIN queued' : Sized(queued[i])'
<1>1. /\ queued' = Append(queued, loc[t].slot) /\ UNCHANGED <<free, blocks>> /\ loc' = loc
      /\ HoldsBlock(t) /\ ~HoldsBlock(t)'
  <2>1. pc[t] \in {"clear", "store"} /\ pc'[t] = "release" /\ loc' = loc
    BY ClearMoves, StoreMoves DEF Clear, Store
  <2>2. HoldsBlock(t) /\ ~HoldsBlock(t)'
    BY <2>1 DEF HoldsBlock, Accessing, Subroutines
  <2>. QED  BY <2>1, <2>2 DEF Clear, Store
<1>2. loc[t].slot \in Slots /\ Sized(loc[t].slot)'
  <2>0. /\ word \in [Slots -> [lo : Nat, hi : Nat]] /\ HasOK(t) /\ LooksOK(t)
    BY DEF Inv, TypeOK, Held
  <2>1. CASE Clear(t)
    <3>1. loc[t].slot \in Slots /\ Sized(loc[t].slot)
      BY <1>1, <2>0, <2>1, ClearMoves DEF HasOK, In
    <3>2. word'[loc[t].slot].lo = word[loc[t].slot].lo
      BY <2>0, <2>1, <3>1 DEF Clear
    <3>3. Undisturbed' => Undisturbed
      BY Disturbs
    <3>. QED  BY <1>1, <3>1, <3>2, <3>3 DEF Sized
  <2>2. CASE Store(t)
    <3>1. pc[t] = "store" /\ loc[t].want \in Sizes /\ BASE <= loc[t].slot
          /\ (loc[t].slot - BASE) % 4 = 0
      BY <2>0, <2>2, StoreMoves DEF HasOK, LooksOK, In
    <3>2. loc[t].want > 0 /\ loc[t].want \in Nat /\ loc[t].slot \in Nat
      BY SMTT(30), <3>1, ClassSizes, Facts
    <3>3. loc[t].slot + loc[t].want - 1 < fileSize
      BY <2>2, <3>1 DEF Store, Access, Reaches, Touched
    <3>4. loc[t].slot < MaxSlots
      <4>1. fileSize \in 1..MaxSlots /\ MaxSlots \in Nat
        BY SlotFacts DEF Inv, TypeOK
      <4>. QED  BY <3>2, <3>3, <4>1
    <3>5. loc[t].slot \in Slots
      <4>1. loc[t].slot \in BASE..(MaxSlots - 1)
        BY <3>1, <3>2, <3>4, SlotFacts
      <4>. QED  BY <3>1, <4>1 DEF Slots
    <3>6. blocks[loc[t].slot] = loc[t].want /\ word'[loc[t].slot].lo = loc[t].want
      BY <2>0, <2>2, <3>1, <3>5 DEF HasOK, Store, D
    <3>. QED  BY <1>1, <3>2, <3>5, <3>6 DEF Sized
  <2>. QED  BY <2>1, <2>2
<1>3. /\ queued \in Seq(Slots) /\ queued' \in Seq(Slots) /\ Len(queued) \in Nat
      /\ DOMAIN queued' = 1..(Len(queued) + 1) /\ DOMAIN queued = 1..Len(queued)
      /\ \A i \in DOMAIN queued' :
            \/ i = Len(queued) + 1 /\ queued'[i] = loc[t].slot
            \/ i \in DOMAIN queued /\ queued'[i] = queued[i]
      /\ \A i \in DOMAIN queued : i \in DOMAIN queued' /\ queued'[i] = queued[i]
  <2>1. queued \in Seq(Slots)
    BY Located
  <2>2. /\ Append(queued, loc[t].slot) \in Seq(Slots) /\ Len(queued) \in Nat
        /\ Len(Append(queued, loc[t].slot)) = Len(queued) + 1
        /\ \A i \in 1..(Len(queued) + 1) :
              Append(queued, loc[t].slot)[i]
                = IF i = Len(queued) + 1 THEN loc[t].slot ELSE queued[i]
        /\ \A i \in 1..(Len(queued) + 1) : i = Len(queued) + 1 \/ i \in 1..Len(queued)
    BY <1>2, <2>1, Appends
  <2>3. \A i \in 1..Len(queued) : i \in 1..(Len(queued) + 1) /\ i # Len(queued) + 1
    BY <2>2
  <2>. QED  BY <1>1, <2>1, <2>2, <2>3
<1>4. Once
  BY DEF Inv, BlocksAccounted, BlocksApart, Once
<1>5. \A u \in Threads : u # t => (HoldsBlock(u)' <=> HoldsBlock(u)) /\ loc'[u].slot = loc[u].slot
  BY OthersHold
<1>6. Once'
  <2>1. \A i \in DOMAIN queued : queued[i] # loc[t].slot
    BY <1>1, <1>4 DEF Once
  <2>2. Injective(queued')
    BY <1>3, <1>4, <2>1 DEF Once, Injective
  <2>3. \A u, v \in Threads :
           HoldsBlock(u)' /\ HoldsBlock(v)' /\ loc'[u].slot = loc'[v].slot => u = v
    BY <1>1, <1>4, <1>5 DEF Once
  <2>4. \A u \in Threads : HoldsBlock(u)' => loc'[u].slot # loc[t].slot
    BY <1>1, <1>4, <1>5 DEF Once
  <2>5. \A i \in DOMAIN queued' : \A u \in Threads : HoldsBlock(u)' => loc'[u].slot # queued'[i]
    BY <1>1, <1>3, <1>4, <1>5, <2>4 DEF Once
  <2>6. \A c \in Classes : \A i \in DOMAIN free[c] : loc[t].slot # free[c][i]
    BY <1>1, <1>4 DEF Once
  <2>7. \A c \in Classes : \A i \in DOMAIN free'[c] :
           /\ blocks'[free'[c][i]] = SizeOf[c]
           /\ \A j \in DOMAIN queued' : queued'[j] # free'[c][i]
           /\ \A u \in Threads : HoldsBlock(u)' => loc'[u].slot # free'[c][i]
    BY <1>1, <1>3, <1>4, <1>5, <2>6 DEF Once
  <2>. QED  BY <1>1, <1>4, <2>2, <2>3, <2>5, <2>7 DEF Once
<1>7. ASSUME NoneLost  PROVE NoneLost'
  <2>1. \E i \in DOMAIN queued' : queued'[i] = loc[t].slot
    <3>1. Len(queued) + 1 \in DOMAIN queued' /\ Len(queued) + 1 \notin DOMAIN queued
      BY <1>3
    <3>. QED  BY <1>3, <3>1
  <2>2. ASSUME NEW s \in Slots, NEW u \in Threads, HoldsBlock(u), loc[u].slot = s
        PROVE  (HoldsBlock(u)' /\ loc'[u].slot = s) \/ \E i \in DOMAIN queued' : queued'[i] = s
    BY <1>5, <2>1, <2>2
  <2>3. ASSUME NEW s \in Slots, blocks'[s] # 0
        PROVE  \/ \E i \in DOMAIN queued' : queued'[i] = s
               \/ \E c \in Classes : \E i \in DOMAIN free'[c] : free'[c][i] = s
               \/ \E u \in Threads : HoldsBlock(u)' /\ loc'[u].slot = s
    <3>1. CASE \E i \in DOMAIN queued : queued[i] = s
      BY <1>3, <3>1
    <3>2. CASE \E c \in Classes : \E i \in DOMAIN free[c] : free[c][i] = s
      BY <1>1, <3>2
    <3>3. CASE \E u \in Threads : HoldsBlock(u) /\ loc[u].slot = s
      BY <2>2, <3>3
    <3>. QED  BY <1>1, <1>7, <2>3, <3>1, <3>2, <3>3 DEF NoneLost
  <2>. QED  BY <2>3 DEF NoneLost
<1>8. \A i \in DOMAIN queued' : Sized(queued[i])'
  <2>1. ASSUME NEW i \in DOMAIN queued'  PROVE Sized(queued[i])'
    <3>1. CASE queued'[i] = loc[t].slot
      BY <1>1, <1>2, <3>1 DEF Sized
    <3>2. CASE queued'[i] # loc[t].slot
      <4>1. i \in DOMAIN queued /\ queued'[i] = queued[i]
        BY <1>3, <2>1, <3>2
      <4>2. Sized(queued[i]) /\ queued[i] \in Slots
        BY <4>1, Located DEF Inv, Held
      <4>3. ASSUME NEW s \in Slots, Sized(s), s # loc[t].slot  PROVE Sized(s)'
        BY <4>3, SizedKept
      <4>. QED  BY <3>2, <4>1, <4>2, <4>3 DEF Sized
    <3>. QED  BY <3>1, <3>2
  <2>. QED  BY <2>1
<1>. QED  BY <1>3, <1>6, <1>7, <1>8

\* A block goes back to its bucket.
LEMMA OnceFree ==
    ASSUME Inv, NEW t \in Threads, Step(t), FreeCas(t), pc'[t] = "release"
    PROVE  Once' /\ (NoneLost => NoneLost')
<1> DEFINE c0 == loc[t].class
           s0 == loc[t].slot
<1>0. /\ c0 \in Classes /\ s0 \in Slots /\ blocks[s0] = SizeOf[c0]
  BY FreeCasMoves DEF Inv, Held, HasOK, HoldsBlock, Accessing
<1>1. /\ free' = [free EXCEPT ![c0] = <<s0>> \o @] /\ UNCHANGED <<queued, blocks>>
      /\ loc' = loc /\ free \in [Classes -> Seq(Slots)]
  BY FreeCasMoves DEF FreeCas, callVars, Inv, TypeOK
<1>2. HoldsBlock(t) /\ ~HoldsBlock(t)'
  BY FreeCasMoves DEF HoldsBlock, Accessing, Subroutines
<1> HIDE DEF c0
<1>3. \A c \in Classes : c # c0 => free'[c] = free[c]
  BY <1>1
<1>4. /\ DOMAIN free'[c0] = 1..(Len(free[c0]) + 1) /\ DOMAIN free[c0] = 1..Len(free[c0])
      /\ Len(free[c0]) \in Nat /\ free'[c0][1] = s0
      /\ \A i \in DOMAIN free'[c0] :
            i = 1 \/ (i - 1 \in DOMAIN free[c0] /\ free'[c0][i] = free[c0][i - 1])
  <2>1. free'[c0] = <<s0>> \o free[c0] /\ free[c0] \in Seq(Slots)
    BY <1>0, <1>1
  <2> HIDE DEF s0
  <2>2. /\ <<s0>> \o free[c0] \in Seq(Slots) /\ Len(<<s0>> \o free[c0]) = Len(free[c0]) + 1
        /\ Len(free[c0]) \in Nat /\ (<<s0>> \o free[c0])[1] = s0
        /\ \A i \in 2..(Len(free[c0]) + 1) :
              i - 1 \in 1..Len(free[c0]) /\ (<<s0>> \o free[c0])[i] = free[c0][i - 1]
        /\ \A i \in 1..(Len(free[c0]) + 1) : i = 1 \/ i \in 2..(Len(free[c0]) + 1)
    BY <1>0, <2>1, Pushes
  <2>. QED  BY <2>1, <2>2
<1>5. Once
  BY DEF Inv, BlocksAccounted, BlocksApart, Once
<1>6. \A u \in Threads : u # t => (HoldsBlock(u)' <=> HoldsBlock(u)) /\ loc'[u].slot = loc[u].slot
  BY OthersHold
<1>7. ASSUME NEW c \in Classes, NEW i \in DOMAIN free'[c]
      PROVE  (c = c0 /\ i = 1 /\ free'[c][i] = s0)
             \/ \E j \in DOMAIN free[c] : free[c][j] = free'[c][i]
  BY <1>3, <1>4, <1>7
<1>8. Once'
  <2>1. ASSUME NEW i \in DOMAIN free'[c0], NEW j \in DOMAIN free'[c0], free'[c0][i] = free'[c0][j]
        PROVE  i = j
    <3>1. \A k \in DOMAIN free[c0] : free[c0][k] # s0
      BY <1>0, <1>2, <1>5 DEF Once
    <3>2. CASE i = 1 \/ j = 1
      BY <1>4, <2>1, <3>1, <3>2
    <3>3. CASE i # 1 /\ j # 1
      <4>1. i - 1 \in DOMAIN free[c0] /\ j - 1 \in DOMAIN free[c0]
            /\ free[c0][i - 1] = free[c0][j - 1]
        BY <1>4, <2>1, <3>3
      <4>2. i - 1 = j - 1
        BY <1>0, <1>5, <4>1 DEF Once, Injective
      <4>. QED  BY <1>4, <2>1, <4>2
    <3>. QED  BY <3>2, <3>3
  <2>2. \A c \in Classes : Injective(free'[c])
    BY <1>3, <1>5, <2>1 DEF Once, Injective
  <2>3. \A u, v \in Threads :
           HoldsBlock(u)' /\ HoldsBlock(v)' /\ loc'[u].slot = loc'[v].slot => u = v
    BY <1>2, <1>5, <1>6 DEF Once
  <2>4. \A u \in Threads : HoldsBlock(u)' => loc'[u].slot # s0
    BY <1>2, <1>5, <1>6 DEF Once
  <2>5. \A j \in DOMAIN queued : queued[j] # s0
    BY <1>2, <1>5 DEF Once
  <2>6. ASSUME NEW c \in Classes, NEW i \in DOMAIN free'[c]
        PROVE  /\ blocks'[free'[c][i]] = SizeOf[c]
               /\ \A j \in DOMAIN queued' : queued'[j] # free'[c][i]
               /\ \A u \in Threads : HoldsBlock(u)' => loc'[u].slot # free'[c][i]
    <3>1. CASE c = c0 /\ free'[c][i] = s0
      BY <1>0, <1>1, <2>4, <2>5, <3>1
    <3>2. CASE \E j \in DOMAIN free[c] : free[c][j] = free'[c][i]
      <4>1. PICK j \in DOMAIN free[c] : free[c][j] = free'[c][i]
        BY <3>2
      <4>2. /\ blocks[free[c][j]] = SizeOf[c] /\ \A k \in DOMAIN queued : queued[k] # free[c][j]
            /\ \A u \in Threads : HoldsBlock(u) => loc[u].slot # free[c][j]
        BY <1>5 DEF Once
      <4>. QED  BY <1>1, <1>2, <1>6, <4>1, <4>2
    <3>. QED  BY <1>7, <2>6, <3>1, <3>2
  <2>7. \A i \in DOMAIN queued' : \A u \in Threads : HoldsBlock(u)' => loc'[u].slot # queued'[i]
    BY <1>1, <1>2, <1>5, <1>6 DEF Once
  <2>. QED  BY <1>1, <1>5, <2>2, <2>3, <2>6, <2>7 DEF Once
<1>9. ASSUME NoneLost  PROVE NoneLost'
  <2>1. 1 \in DOMAIN free'[c0] /\ free'[c0][1] = s0
    BY <1>4
  <2>2. ASSUME NEW s \in Slots, NEW c \in Classes, NEW i \in DOMAIN free[c], free[c][i] = s
        PROVE  \E j \in DOMAIN free'[c] : free'[c][j] = s
    <3>1. CASE c = c0
      <4>1. i + 1 \in DOMAIN free'[c0] /\ i + 1 # 1 /\ (i + 1) - 1 = i
        BY <1>4, <2>2, <3>1
      <4>2. free'[c0][i + 1] = free[c0][i]
        BY <1>4, <4>1
      <4>. QED  BY <2>2, <3>1, <4>1, <4>2
    <3>2. CASE c # c0
      BY <1>3, <2>2, <3>2
    <3>. QED  BY <3>1, <3>2
  <2>3. ASSUME NEW s \in Slots, blocks'[s] # 0
        PROVE  \/ \E i \in DOMAIN queued' : queued'[i] = s
               \/ \E c \in Classes : \E i \in DOMAIN free'[c] : free'[c][i] = s
               \/ \E u \in Threads : HoldsBlock(u)' /\ loc'[u].slot = s
    <3>1. CASE \E i \in DOMAIN queued : queued[i] = s
      BY <1>1, <3>1
    <3>2. CASE \E c \in Classes : \E i \in DOMAIN free[c] : free[c][i] = s
      BY <2>2, <3>2
    <3>3. CASE \E u \in Threads : HoldsBlock(u) /\ loc[u].slot = s
      BY <1>0, <1>6, <2>1, <3>3
    <3>. QED  BY <1>1, <1>9, <2>3, <3>1, <3>2, <3>3 DEF NoneLost
  <2>. QED  BY <2>3 DEF NoneLost
<1>. QED  BY <1>8, <1>9

(***************************************************************************)
(* The stacks of the buckets, and the sizes of the queued items.           *)
(***************************************************************************)

\* The blocks of the queue keep their size in their first word.
LEMMA QueuedSized ==
    ASSUME Inv, NEW t \in Threads, Step(t)
    PROVE  queued' \in Seq(Slots) /\ \A i \in DOMAIN queued' : Sized(queued[i])'
<1>0. /\ queued \in Seq(Slots)
      /\ \A i \in DOMAIN queued : queued[i] \in Slots /\ Sized(queued[i])
                                  /\ ~(HoldsBlock(t) /\ queued[i] = loc[t].slot)
  BY Located DEF Inv, Held, BlocksAccounted, BlocksApart
<1>1. ASSUME NEW s \in Slots, Sized(s), ~(HoldsBlock(t) /\ s = loc[t].slot)  PROVE Sized(s)'
  BY <1>1, SizedKept
<1>2. CASE Clear(t) \/ Store(t)
  BY <1>2, OnceAdd
<1>3. CASE queued' = queued
  BY <1>0, <1>1, <1>3 DEF Sized
<1>4. CASE CallRemove(t) /\ queued # <<>>
  <2>1. queued' = Tail(queued)
    BY <1>4 DEF CallRemove
  <2>2. /\ queued' \in Seq(Slots) /\ DOMAIN queued' = 1..(Len(queued) - 1)
        /\ \A i \in DOMAIN queued' : i + 1 \in DOMAIN queued /\ queued'[i] = queued[i + 1]
    BY <1>0, <1>4, <2>1, Rests
  <2>. QED  BY <1>0, <1>1, <2>2 DEF Sized
<1>. QED  BY <1>2, <1>3, <1>4, Movers DEF Keeps, LookCas, NewCas, FreeCas, callVars

\* The words of a free block change only if they are lost with the end of the file.
LEMMA FreeWords ==
    ASSUME Inv, NEW t \in Threads, Step(t), NEW c \in Classes, NEW i \in DOMAIN free[c]
    PROVE  /\ word'[free[c][i]].lo \in {0, word[free[c][i]].lo}
           /\ Undisturbed' => word'[free[c][i]].lo = word[free[c][i]].lo
<1>1. free[c][i] \in Slots /\ blocks[free[c][i]] # 0
  BY Located
<1>2. HoldsBlock(t) => loc[t].slot # free[c][i]
  BY DEF Inv, BlocksAccounted, BlocksApart
<1>. QED  BY <1>1, <1>2, WordsMove

\* The bucket of a class and its stack.
StackOK(c) ==
    /\ bucket[c].lo # 0 => free[c] # <<>> /\ bucket[c].lo = free[c][1]
    /\ \A i \in DOMAIN free[c] : word[free[c][i]].lo \in {0, Below(c, i)}

LinksOK(c) ==
    /\ free[c] # <<>> => bucket[c].lo = free[c][1]
    /\ \A i \in DOMAIN free[c] : word[free[c][i]].lo = Below(c, i)

\* The stack of a bucket, as the invariant has it.
LEMMA LinkedStack ==
    ASSUME Inv, NEW c \in Classes
    PROVE  StackOK(c) /\ (Undisturbed => LinksOK(c))
  BY Belows DEF Inv, Stacks, BlocksAccounted, Linked, Undisturbed, StackOK, LinksOK, Below

\* The CAS of lookup_freed_data takes the top off: the tag tells that the link read is still its.
LEMMA StackPop ==
    ASSUME Inv, NEW t \in Threads, Step(t), LookCas(t), Unchanged(t)
    PROVE  StackOK(loc[t].class)' /\ (Undisturbed' => LinksOK(loc[t].class)')
<1> DEFINE c == loc[t].class
<1>0. c \in Classes /\ pc[t] = "lookCas" /\ bucket[c] = loc[t].before
      /\ loc[t].before.lo \in Slots /\ loc[t].next \in {0, Below(c, 1)}
      /\ (Undisturbed => loc[t].next = Below(c, 1)) /\ loc'[t].class = c
  BY LookCasMoves DEF Inv, Held, LooksOK, KnowsOK, In, Unchanged
<1>1. /\ free' = [free EXCEPT ![c] = SubSeq(@, 2, Len(@))] /\ word' = word
      /\ free \in [Classes -> Seq(Slots)] /\ bucket \in [Classes -> [lo : Refs, hi : Nat]]
      /\ bucket' = [bucket EXCEPT ![c] = D(loc[t].next, loc[t].before.hi + 1)]
  BY DEF LookCas, Inv, TypeOK
<1>2. bucket[c].lo # 0 /\ free[c] # <<>> /\ free[c] \in Seq(Slots)
  BY <1>0, SlotFacts, Top, Located
<1>3. Undisturbed' => Undisturbed
  BY Disturbs
<1> HIDE DEF c
<1>4. /\ DOMAIN free'[c] = 1..(Len(free[c]) - 1) /\ Len(free'[c]) = Len(free[c]) - 1
      /\ DOMAIN free[c] = 1..Len(free[c]) /\ Len(free[c]) \in Nat /\ 1 \in DOMAIN free[c]
      /\ \A i \in DOMAIN free'[c] : i + 1 \in DOMAIN free[c] /\ free'[c][i] = free[c][i + 1]
  <2>1. free'[c] = SubSeq(free[c], 2, Len(free[c]))
    BY <1>0, <1>1
  <2>. QED  BY <1>2, <2>1, Rests
<1>5. bucket'[c].lo = loc[t].next
  BY <1>0, <1>1 DEF D
<1>6. Below(loc[t].class, 1) = IF 1 < Len(free[c]) THEN free'[c][1] ELSE 0
  <2>1. CASE 1 < Len(free[c])
    <3>1. 1 \in DOMAIN free'[c]
      BY <1>4, <2>1
    <3>2. free'[c][1] = free[c][2]
      BY <1>4, <3>1
    <3>. QED  BY <2>1, <3>2 DEF Below, c
  <2>2. CASE ~(1 < Len(free[c]))
    BY <2>2 DEF Below, c
  <2>. QED  BY <2>1, <2>2
<1>7. ASSUME NEW i \in DOMAIN free'[c]
      PROVE  (IF i < Len(free'[c]) THEN free'[c][i + 1] ELSE 0) = Below(c, i + 1)
  <2>1. CASE i < Len(free'[c])
    <3>1. i + 1 \in DOMAIN free'[c] /\ i + 1 < Len(free[c])
      BY <1>4, <1>7, <2>1
    <3>2. free'[c][i + 1] = free[c][(i + 1) + 1]
      BY <1>4, <3>1
    <3>. QED  BY <2>1, <3>1, <3>2 DEF Below
  <2>2. CASE ~(i < Len(free'[c]))
    <3>1. ~(i + 1 < Len(free[c]))
      BY <1>4, <1>7, <2>2
    <3>. QED  BY <2>2, <3>1 DEF Below
  <2>. QED  BY <2>1, <2>2
<1>8. StackOK(c) /\ (Undisturbed => LinksOK(c))
  BY <1>0, LinkedStack
<1>9. loc[t].next # 0 => free'[c] # <<>> /\ loc[t].next = free'[c][1]
  <2>1. SUFFICES ASSUME loc[t].next # 0  PROVE free'[c] # <<>> /\ loc[t].next = free'[c][1]
    OBVIOUS
  <2>2. 1 < Len(free[c]) /\ loc[t].next = free'[c][1]
    BY <1>0, <1>6, <2>1 DEF c
  <2>. QED  BY <1>4, <2>2
<1>10. Undisturbed' /\ free'[c] # <<>> => loc[t].next = free'[c][1]
  <2>1. SUFFICES ASSUME Undisturbed', free'[c] # <<>>  PROVE loc[t].next = free'[c][1]
    OBVIOUS
  <2>2. 1 < Len(free[c])
    <3>1. free'[c] \in Seq(Slots)
      BY <1>0, BucketsMove
    <3>2. Len(free'[c]) # 0
      BY <2>1, <3>1
    <3>3. Len(free'[c]) >= 1
      BY <3>1, <3>2
    <3>. QED  BY <1>4, <3>3
  <2>. QED  BY <1>0, <1>3, <1>6, <2>1, <2>2 DEF c
<1>11. \A i \in DOMAIN free'[c] :
          /\ word'[free'[c][i]].lo \in {0, IF i < Len(free'[c]) THEN free'[c][i + 1] ELSE 0}
          /\ Undisturbed' =>
                word'[free'[c][i]].lo = IF i < Len(free'[c]) THEN free'[c][i + 1] ELSE 0
  BY <1>1, <1>3, <1>4, <1>7, <1>8 DEF StackOK, LinksOK
<1>12. loc'[t].class = c
  BY <1>0 DEF c
<1>. QED  BY <1>5, <1>9, <1>10, <1>11, <1>12 DEF StackOK, LinksOK, Below, c

\* The CAS of free_data_slots puts the block on top of what it links to.
LEMMA StackPush ==
    ASSUME Inv, NEW t \in Threads, Step(t), FreeCas(t), pc'[t] = "release"
    PROVE  StackOK(loc[t].class)' /\ (Undisturbed' => LinksOK(loc[t].class)')
<1> DEFINE c == loc[t].class
           s0 == loc[t].slot
<1>0. c \in Classes /\ s0 \in Slots /\ bucket[c] = word[s0] /\ loc'[t].class = c
  BY FreeCasMoves DEF Inv, Held, HasOK, HoldsBlock, Accessing
<1>1. /\ free' = [free EXCEPT ![c] = <<s0>> \o @] /\ word' = word
      /\ free \in [Classes -> Seq(Slots)] /\ bucket \in [Classes -> [lo : Refs, hi : Nat]]
      /\ bucket' = [bucket EXCEPT ![c] = D(s0, word[s0].hi + 1)]
  BY <1>0 DEF FreeCas, Inv, TypeOK
<1>2. Undisturbed' => Undisturbed
  BY Disturbs
<1> HIDE DEF c, s0
<1>3. /\ DOMAIN free'[c] = 1..(Len(free[c]) + 1) /\ DOMAIN free[c] = 1..Len(free[c])
      /\ Len(free[c]) \in Nat /\ free'[c][1] = s0 /\ Len(free'[c]) = Len(free[c]) + 1
      /\ \A i \in DOMAIN free'[c] :
            i = 1 \/ (i - 1 \in DOMAIN free[c] /\ free'[c][i] = free[c][i - 1])
      /\ free[c] \in Seq(Slots)
  <2>1. free'[c] = <<s0>> \o free[c] /\ free[c] \in Seq(Slots)
    BY <1>0, <1>1
  <2>2. /\ <<s0>> \o free[c] \in Seq(Slots) /\ Len(<<s0>> \o free[c]) = Len(free[c]) + 1
        /\ Len(free[c]) \in Nat /\ (<<s0>> \o free[c])[1] = s0
        /\ \A i \in 2..(Len(free[c]) + 1) :
              i - 1 \in 1..Len(free[c]) /\ (<<s0>> \o free[c])[i] = free[c][i - 1]
        /\ \A i \in 1..(Len(free[c]) + 1) : i = 1 \/ i \in 2..(Len(free[c]) + 1)
    BY <1>0, <2>1, Pushes
  <2>. QED  BY <2>1, <2>2
<1>4. bucket'[c].lo = s0 /\ free'[c] # <<>>
  <2>1. bucket'[c].lo = s0
    BY <1>0, <1>1 DEF D
  <2>. QED  BY <1>3, <2>1
<1>5. StackOK(c) /\ (Undisturbed => LinksOK(c))
  BY <1>0, LinkedStack
<1>6. ASSUME NEW i \in DOMAIN free'[c], i # 1
      PROVE  (IF i < Len(free'[c]) THEN free'[c][i + 1] ELSE 0) = Below(c, i - 1)
  <2>1. CASE i < Len(free'[c])
    <3>1. i + 1 \in DOMAIN free'[c] /\ i - 1 < Len(free[c]) /\ (i - 1) + 1 = (i + 1) - 1
          /\ i + 1 # 1
      BY <1>3, <1>6, <2>1
    <3>2. free'[c][i + 1] = free[c][(i + 1) - 1]
      BY <1>3, <3>1
    <3>. QED  BY <2>1, <3>1, <3>2 DEF Below
  <2>2. CASE ~(i < Len(free'[c]))
    <3>1. ~(i - 1 < Len(free[c]))
      BY <1>3, <1>6, <2>2
    <3>. QED  BY <2>2, <3>1 DEF Below
  <2>. QED  BY <2>1, <2>2
<1>7. /\ word[s0].lo \in {0, IF 1 < Len(free'[c]) THEN free'[c][2] ELSE 0}
      /\ Undisturbed => word[s0].lo = IF 1 < Len(free'[c]) THEN free'[c][2] ELSE 0
  <2>1. CASE free[c] = <<>>
    <3>1. ~(1 < Len(free'[c]))
      BY <1>3, <2>1
    <3>2. bucket[c].lo = 0
      BY <1>5, <2>1 DEF StackOK
    <3>. QED  BY <1>0, <3>1, <3>2
  <2>2. CASE free[c] # <<>>
    <3>1. 1 < Len(free'[c]) /\ 2 \in DOMAIN free'[c]
      BY <1>3, <2>2
    <3>2. free'[c][2] = free[c][1]
      BY <1>3, <3>1
    <3>. QED  BY <1>0, <1>5, <2>2, <3>1, <3>2 DEF StackOK, LinksOK
  <2>. QED  BY <2>1, <2>2
<1>8. ASSUME NEW i \in DOMAIN free'[c]
      PROVE  /\ word'[free'[c][i]].lo \in {0, IF i < Len(free'[c]) THEN free'[c][i + 1] ELSE 0}
             /\ Undisturbed' =>
                   word'[free'[c][i]].lo = IF i < Len(free'[c]) THEN free'[c][i + 1] ELSE 0
  <2>1. CASE i = 1
    BY <1>1, <1>2, <1>3, <1>7, <2>1
  <2>2. CASE i # 1
    <3>1. i - 1 \in DOMAIN free[c] /\ free'[c][i] = free[c][i - 1]
      BY <1>3, <1>8, <2>2
    <3>2. /\ word[free[c][i - 1]].lo \in {0, Below(c, i - 1)}
          /\ Undisturbed => word[free[c][i - 1]].lo = Below(c, i - 1)
      BY <1>5, <3>1 DEF StackOK, LinksOK
    <3>. QED  BY <1>1, <1>2, <1>6, <1>8, <2>2, <3>1, <3>2
  <2>. QED  BY <2>1, <2>2
<1>9. loc'[t].class = c
  BY <1>0 DEF c
<1>. QED  BY <1>3, <1>4, <1>8, <1>9 DEF StackOK, LinksOK, Below, c

\* A bucket that a step leaves alone is still the stack it was.
LEMMA StackStays ==
    ASSUME Inv, NEW t \in Threads, Step(t), NEW c \in Classes,
           bucket'[c] = bucket[c], free'[c] = free[c]
    PROVE  StackOK(c)' /\ (Undisturbed' => LinksOK(c)')
<1>1. StackOK(c) /\ (Undisturbed => LinksOK(c)) /\ (Undisturbed' => Undisturbed)
  BY LinkedStack, Disturbs
<1>2. \A i \in DOMAIN free[c] : /\ word'[free[c][i]].lo \in {0, word[free[c][i]].lo}
                                /\ Undisturbed' => word'[free[c][i]].lo = word[free[c][i]].lo
  BY FreeWords
<1>3. \A i \in DOMAIN free[c] : Below(c, i)' = Below(c, i)
  BY DEF Below
<1>. QED  BY <1>1, <1>2, <1>3 DEF StackOK, LinksOK

\* The bucket of every class after a step.
LEMMA StackKept ==
    ASSUME Inv, NEW t \in Threads, Step(t), NEW c \in Classes
    PROVE  StackOK(c)' /\ (Undisturbed' => LinksOK(c)')
<1>0. /\ bucket \in [Classes -> [lo : Refs, hi : Nat]] /\ free \in [Classes -> Seq(Slots)]
  BY DEF Inv, TypeOK
<1>1. CASE UNCHANGED <<bucket, free>>
  BY <1>1, StackStays
<1>2. CASE LookCas(t) /\ ~UNCHANGED <<bucket, free>>
  <2>1. /\ Unchanged(t)
        /\ bucket' = [bucket EXCEPT ![loc[t].class] = D(loc[t].next, loc[t].before.hi + 1)]
        /\ free' = [free EXCEPT ![loc[t].class] = SubSeq(@, 2, Len(@))]
    BY <1>2 DEF LookCas
  <2>2. CASE c = loc[t].class
    <3>1. StackOK(loc[t].class)' /\ (Undisturbed' => LinksOK(loc[t].class)')
      BY <1>2, <2>1, StackPop
    <3>2. loc'[t].class = c
      BY <1>2, <2>2, LookCasMoves
    <3>. QED  BY <3>1, <3>2 DEF StackOK, LinksOK, Below
  <2>3. CASE c # loc[t].class
    BY <1>0, <2>1, <2>3, StackStays
  <2>. QED  BY <2>2, <2>3
<1>3. CASE FreeCas(t) /\ ~UNCHANGED <<bucket, free>>
  <2>1. /\ bucket[loc[t].class] = word[loc[t].slot] /\ pc'[t] = "release"
        /\ bucket' = [bucket EXCEPT ![loc[t].class] = D(loc[t].slot, word[loc[t].slot].hi + 1)]
        /\ free' = [free EXCEPT ![loc[t].class] = <<loc[t].slot>> \o @]
    BY <1>3, FreeCasMoves DEF FreeCas
  <2>2. CASE c = loc[t].class
    <3>1. StackOK(loc[t].class)' /\ (Undisturbed' => LinksOK(loc[t].class)')
      BY <1>3, <2>1, StackPush
    <3>2. loc'[t].class = c
      BY <1>3, <2>2, FreeCasMoves
    <3>. QED  BY <3>1, <3>2 DEF StackOK, LinksOK, Below
  <2>3. CASE c # loc[t].class
    BY <1>0, <2>1, <2>3, StackStays
  <2>. QED  BY <2>2, <2>3
<1>. QED  BY <1>1, <1>2, <1>3, BucketsMove

(***************************************************************************)
(* The invariant holds.                                                    *)
(***************************************************************************)

\* The calls a thread has left, by number; a call that ends is the first of them.
LEMMA CallsKept ==
    ASSUME Inv, NEW t \in Threads, Step(t)
    PROVE  prologue' \in Seq(0..32) /\ todo' \in [Threads -> Seq(0..32)] /\ Calling'
<1>0. /\ prologue \in Seq(0..32) /\ todo \in [Threads -> Seq(0..32)] /\ Calling
      /\ \A u \in Threads : u # t => pc'[u] = pc[u]
  BY OthersRest DEF Inv, TypeOK, Rest
<1> DEFINE ends == /\ Calls(t) # <<>> /\ (prologue # <<>> => t = Opener) /\ pc'[t] = "idle"
                   /\ IF prologue # <<>>
                        THEN prologue' = Tail(prologue) /\ UNCHANGED todo
                        ELSE todo' = [todo EXCEPT ![t] = Tail(@)] /\ UNCHANGED prologue
           stay == /\ UNCHANGED <<prologue, todo>>
                   /\ pc'[t] # "idle" => Calls(t) # <<>> /\ (prologue # <<>> => t = Opener)
<1>1. ends \/ stay
  <2>1. CASE Leave(t)
    <3>1. pc[t] = "leave" /\ pc'[t] = "idle"
      BY <2>1, LeaveMoves
    <3>2. Calls(t) # <<>> /\ (prologue # <<>> => t = Opener)
      BY <1>0, <3>1 DEF Calling
    <3>. QED  BY <2>1, <3>1, <3>2 DEF Leave
  <2>2. CASE CallRemove(t)
    <3>1. Calls(t) # <<>> /\ (prologue # <<>> => t = Opener) /\ pc[t] = "idle"
      BY <2>2 DEF CallRemove, MayCall, At
    <3>2. CASE queued # <<>>
      BY <2>2, <3>1, <3>2 DEF CallRemove
    <3>3. CASE queued = <<>>
      BY <2>2, <3>1, <3>3 DEF CallRemove
    <3>. QED  BY <3>2, <3>3
  <2>3. CASE CallAdd(t)
    BY <2>3 DEF CallAdd, MayCall, callVars
  <2>4. CASE ~(Leave(t) \/ CallRemove(t) \/ CallAdd(t))
    <3>1. UNCHANGED <<prologue, todo>>
      BY <2>4, Writers DEF callVars, Clear, Store
    <3>2. pc[t] # "idle"
      BY <2>4, ExtentChosen DEF Away, Releasing, Heading
    <3>. QED  BY <1>0, <3>1, <3>2 DEF Calling
  <2>. QED  BY <2>1, <2>2, <2>3, <2>4
<1>2. CASE ends
  <2>1. CASE prologue # <<>>
    <3>1. prologue' = Tail(prologue) /\ todo' = todo /\ t = Opener
      BY <1>2, <2>1
    <3>2. prologue' \in Seq(0..32)
      BY <1>0, <2>1, <3>1
    <3>3. \A u \in Threads : pc'[u] = "idle"
      BY <1>0, <1>2, <2>1, <3>1 DEF Calling
    <3>. QED  BY <1>0, <3>1, <3>2, <3>3 DEF Calling
  <2>2. CASE prologue = <<>>
    <3>1. prologue' = <<>> /\ todo' = [todo EXCEPT ![t] = Tail(@)]
      BY <1>2, <2>2
    <3>2. todo[t] # <<>> /\ todo[t] \in Seq(0..32)
      BY <1>0, <1>2, <2>2 DEF Calls
    <3>3. Tail(todo[t]) \in Seq(0..32)
      BY <3>2, Rests
    <3>4. todo' \in [Threads -> Seq(0..32)] /\ \A u \in Threads : u # t => todo'[u] = todo[u]
      BY <1>0, <3>1, <3>3
    <3>5. ASSUME NEW u \in Threads, pc'[u] # "idle"  PROVE todo'[u] # <<>>
      <4>1. u # t /\ pc[u] # "idle"
        BY <1>0, <1>2, <3>5
      <4>2. todo[u] # <<>>
        BY <1>0, <2>2, <4>1 DEF Calling, Calls
      <4>. QED  BY <3>4, <4>1, <4>2
    <3>6. Calling'
      BY <3>1, <3>5 DEF Calling, Calls
    <3>. QED  BY <1>0, <2>2, <3>1, <3>4, <3>6
  <2>. QED  BY <2>1, <2>2
<1>3. CASE stay
  BY <1>0, <1>3 DEF Calling, Calls
<1>. QED  BY <1>1, <1>2, <1>3

\* Each step keeps the types.
LEMMA TypeKept ==
    ASSUME Inv, NEW t \in Threads, Step(t)
    PROVE  TypeOK'
<1>1. fileSize' \in 1..MaxSlots /\ size' \in Nat /\ expandSize' \in Nat
      /\ shrunk' \in BOOLEAN /\ overtaken' \in BOOLEAN
  BY SizesMove
<1>2. dataAlloc' \in Nat /\ blocks' \in [Slots -> 0..32]
  BY BlocksGrow
<1>3. bucket' \in [Classes -> [lo : Refs, hi : Nat]] /\ free' \in [Classes -> Seq(Slots)]
  BY BucketsMove
<1>4. word' \in [Slots -> [lo : Nat, hi : Nat]] /\ queued' \in Seq(Slots)
  BY WordsMove, QueuedSized
<1>5. extents' \in [Bases -> Seq(Nat \ {0})] /\ current' \in [Bases -> Nat]
      /\ prev' \in [Bases -> Nat]
  BY ExtentsMove
<1>6. accessors' \in [Bases -> Nat]
      /\ \A b \in Bases : accessors'[b] = Cardinality({u \in Threads : B(u) = b /\ pc'[u] # "idle"})
  BY Counted DEF InCall, B
<1>7. \A b \in Bases : prev'[b] \in 1..current'[b] /\ current'[b] \in 1..Len(extents'[b])
  BY ExtentsMove, PrevMoves
<1>8. prologue' \in Seq(0..32) /\ todo' \in [Threads -> Seq(0..32)]
  BY CallsKept
<1>9. pc' \in [Threads -> Labels] /\ loc' \in [Threads -> Locals]
  BY OthersRest DEF Rest
<1>. QED
  BY <1>1, <1>2, <1>3, <1>4, <1>5, <1>6, <1>7, <1>8, <1>9 DEF TypeOK, B

\* BlocksAccounted, and what it rests on.
LEMMA BlocksKept ==
    ASSUME Inv, NEW t \in Threads, Step(t)
    PROVE  BlocksAccounted' /\ Stacks'
<1>1. Once' /\ (NoneLost /\ ~Faulted' => NoneLost')
  BY Movers, OnceKeeps, OnceRemove, OnceLook, OnceNew, OnceAdd, OnceFree
<1>2. BlocksApart'
  BY <1>1, Disjoint DEF Once, BlocksApart
<1>3. \A c \in Classes : StackOK(c)' /\ (Undisturbed' => LinksOK(c)')
  BY StackKept
<1>4. ASSUME Undisturbed'  PROVE (\A c \in Classes : Linked(c)') /\ (~Faulted' => NoneLost')
  <2>1. Undisturbed
    BY <1>4, Disturbs
  <2>2. ~Faulted' => ~Faulted
    <3>1. ASSUME NEW u \in Threads, pc[u] = "fault"  PROVE Faulted'
      <4>1. CASE u = t
        <5>1. pc[t] # "fault"
          BY NoFault
        <5>. QED  BY <3>1, <4>1, <5>1
      <4>2. CASE u # t
        BY <3>1, <4>2, OthersHold DEF Faulted
      <4>. QED  BY <4>1, <4>2
    <3>. QED  BY <3>1 DEF Faulted
  <2>3. ~Faulted' => NoneLost'
    BY <1>1, <2>1, <2>2 DEF Inv, BlocksAccounted, Undisturbed
  <2>4. ASSUME NEW c \in Classes  PROVE Linked(c)'
    <3>1. StackOK(c)' /\ LinksOK(c)' /\ free'[c] \in Seq(Slots)
      BY <1>3, <1>4, BucketsMove
    <3>2. Len(free'[c]) \in Nat /\ DOMAIN free'[c] = 1..Len(free'[c])
      BY <3>1
    <3>3. \A i \in 1..Len(free'[c]) : (i < Len(free'[c])) <=> (i # Len(free'[c]))
      BY <3>2
    <3>4. bucket'[c].lo = IF free'[c] = <<>> THEN 0 ELSE free'[c][1]
      BY <3>1 DEF StackOK, LinksOK
    <3>5. \A i \in DOMAIN free'[c] :
             word'[free'[c][i]].lo = IF i = Len(free'[c]) THEN 0 ELSE free'[c][i + 1]
      BY <3>1, <3>2, <3>3 DEF LinksOK, Below
    <3>. QED  BY <3>4, <3>5 DEF Linked
  <2>. QED  BY <2>3, <2>4
<1>5. BlocksAccounted'
  BY <1>2, <1>4 DEF BlocksAccounted, Undisturbed
<1>6. BASE <= dataAlloc' /\ (dataAlloc' - BASE) % 4 = 0
  <2>1. BASE <= dataAlloc /\ (dataAlloc - BASE) % 4 = 0 /\ BASE \in Nat /\ dataAlloc \in Nat
    BY SlotFacts, Facts DEF Inv, Stacks
  <2>2. CASE dataAlloc' = dataAlloc
    BY <2>1, <2>2
  <2>3. CASE dataAlloc' # dataAlloc
    <3>1. NewCas(t) /\ dataAlloc' = dataAlloc + loc[t].want
      BY <2>3, BlocksGrow DEF NewCas
    <3>2. loc[t].want \in Sizes
      BY <3>1, NewCasMoves DEF Inv, Held, LooksOK, In
    <3>3. loc[t].want \in {4, 8, 16, 32}
      BY <3>2, ClassSizes
    <3>. QED  BY <2>1, <3>1, <3>3
  <2>. QED  BY <2>2, <2>3
<1>7. ASSUME NEW s \in Slots, blocks'[s] # 0  PROVE s + blocks'[s] <= dataAlloc'
  <2>0. /\ blocks \in [Slots -> 0..32] /\ dataAlloc \in Nat /\ dataAlloc' \in Nat /\ s \in Nat
        /\ dataAlloc <= dataAlloc' /\ (blocks[s] # 0 => s + blocks[s] <= dataAlloc)
    BY BlocksGrow, SlotFacts DEF Inv, Stacks
  <2>1. CASE blocks'[s] = blocks[s]
    <3>1. blocks[s] \in 0..32
      BY <2>0
    <3>. QED  BY <1>7, <2>0, <2>1, <3>1
  <2>2. CASE blocks'[s] # blocks[s]
    <3>1. blocks' = [blocks EXCEPT ![loc[t].slot] = loc[t].want]
          /\ dataAlloc' = loc[t].slot + loc[t].want
      BY <2>2, BlocksGrow DEF NewCas
    <3>2. s = loc[t].slot /\ blocks'[s] = loc[t].want
      BY <2>0, <2>2, <3>1
    <3>. QED  BY <2>0, <3>1, <3>2
  <2>. QED  BY <2>1, <2>2
<1>8. \A c \in Classes :
         /\ bucket'[c].lo # 0 => free'[c] # <<>> /\ bucket'[c].lo = free'[c][1]
         /\ \A i \in DOMAIN free'[c] : word'[free'[c][i]].lo \in {0, Below(c, i)'}
  BY <1>3 DEF StackOK, Below
<1>. QED
  BY <1>5, <1>6, <1>7, <1>8 DEF Stacks

\* Each step of a thread keeps the invariant,
LEMMA StepInv ==
    ASSUME Inv, NEW t \in Threads, Step(t)
    PROVE  Inv'
<1>1. TypeOK' /\ Calling'
  BY TypeKept, CallsKept
<1>2. Places'
  <2>1. \A u \in Threads : PlaceOK(u)'
    BY PlacesRest, PlacesMine
  <2>. QED  BY <2>1 DEF Places
<1>3. SizesFollow'
  BY SizesKept
<1>4. SizesAgree'
  <2>1. \A u \in Threads : AgreeOK(u)'
    BY AgreeRest, AgreeMine
  <2>. QED  BY <2>1 DEF SizesAgree
<1>5. NoUseAfterUnmap'
  <2>1. \A u \in Threads : UsesOK(u)' /\ HeadOK(u)' /\ AloneOK(u)'
    BY UsesKept, HeadKept, AloneKept
  <2>2. \A u \in Threads : prev'[B(u)] \in Nat /\ loc'[u].ext \in Nat
    BY <1>1, MemoryAssumption DEF TypeOK, B, Locals
  <2>3. ASSUME NEW u \in Threads, pc'[u] = "relFree"  PROVE loc'[u].ext < prev'[B(u)]
    BY <2>1, <2>3 DEF HeadOK, Heading, Releasing, B
  <2>. QED  BY <2>1, <2>2, <2>3 DEF NoUseAfterUnmap, UsesOK, HeadOK, AloneOK, Away, Heading, Passed, B
<1>6. Alone'
  <2>1. \A u \in Threads : HeadOK(u)' /\ AloneOK(u)'
    BY HeadKept, AloneKept
  <2>. QED  BY <2>1 DEF Alone
<1>7. BlocksAccounted' /\ Stacks'
  BY BlocksKept
<1>8. Held'
  <2>1. \A u \in Threads : (LooksOK(u) /\ KnowsOK(u) /\ HasOK(u))'
    BY HeldRest, HeldMine DEF HeldOK
  <2>2. \A i \in DOMAIN queued' : Sized(queued[i])'
    BY QueuedSized
  <2>. QED  BY <2>1, <2>2 DEF Held
<1>. QED
  BY <1>1, <1>2, <1>3, <1>4, <1>5, <1>6, <1>7, <1>8 DEF Inv

\* and so does every step of the system,
LEMMA NextInv == Inv /\ [Next]_vars => Inv'
<1>1. ASSUME Inv, NEW t \in Threads, Step(t)  PROVE Inv'
  BY <1>1, StepInv
<1>2. ASSUME Inv, UNCHANGED vars  PROVE Inv'
  <2> USE DEF B, Calls, Mapped, HoldsBlock, In, Undisturbed, Below, Sized
  <2>1. UNCHANGED <<fileSize, size, expandSize, shrunk, overtaken, dataAlloc, bucket, word, blocks,
                    free, extents, current, prev, accessors, queued, todo, prologue, pc, loc>>
    BY <1>2 DEF vars, fileVars, blockVars, extentVars, callVars
  <2>2. TypeOK' /\ Calling' /\ SizesFollow' /\ NoUseAfterUnmap'
    BY <1>2, <2>1 DEF Inv, TypeOK, Calling, SizesFollow, NoUseAfterUnmap
  <2>3. Places'
    BY <1>2, <2>1 DEF Inv, Places, PlaceOK
  <2>4. SizesAgree' /\ Alone'
    BY <1>2, <2>1 DEF Inv, SizesAgree, AgreeOK, Alone, HeadOK, AloneOK
  <2>5. BlocksAccounted'
    BY <1>2, <2>1 DEF Inv, BlocksAccounted, BlocksApart, Linked, NoneLost, Faulted, Injective
  <2>6. Stacks'
    BY <1>2, <2>1 DEF Inv, Stacks
  <2>7. Held'
    BY <1>2, <2>1 DEF Inv, Held, LooksOK, KnowsOK, HasOK
  <2>. QED  BY <2>2, <2>3, <2>4, <2>5, <2>6, <2>7 DEF Inv
<1>. QED  BY <1>1, <1>2 DEF Next, Done

\* which starts in it,
LEMMA InitInv == Init => Inv
<1> SUFFICES ASSUME Init  PROVE Inv
  OBVIOUS
<1>0. /\ IsFiniteSet(Threads) /\ BaseOf \in [Threads -> Bases] /\ Opener \in Threads
      /\ Programs \subseteq [Threads -> Seq(0..32)] /\ Prologue \in Seq(0..32)
      /\ PageSlots \in Nat \ {0} /\ BASE \in Nat \ {0} /\ BASE < PageSlots /\ MaxPages \in Nat \ {0}
  BY MemoryAssumption
<1>1. PageSlots <= MaxSlots /\ MaxSlots \in Nat
  BY <1>0 DEF MaxSlots
<1>2. NoLocals \in Locals
  BY DEF NoLocals, Locals, Zero, Refs
<1>3. \A b \in Bases : Cardinality({u \in Threads : B(u) = b /\ pc[u] # "idle"}) = 0
  <2>1. \A b \in Bases : {u \in Threads : B(u) = b /\ pc[u] # "idle"} = {}
    BY DEF Init
  <2>. QED  BY <2>1, FS_EmptySet
<1>4. TypeOK
  <2>1. fileSize \in 1..MaxSlots /\ size \in Nat /\ expandSize \in Nat /\ dataAlloc \in Nat
    BY <1>0, <1>1 DEF Init
  <2>2. Zero \in [lo : Refs, hi : Nat] /\ Zero \in [lo : Nat, hi : Nat]
    BY DEF Zero, Refs
  <2>3. bucket \in [Classes -> [lo : Refs, hi : Nat]] /\ word \in [Slots -> [lo : Nat, hi : Nat]]
    BY <2>2 DEF Init
  <2>4. extents \in [Bases -> Seq(Nat \ {0})] /\ \A b \in Bases : Len(extents[b]) = 1
    BY <1>0 DEF Init
  <2>5. /\ current \in [Bases -> Nat] /\ prev \in [Bases -> Nat] /\ accessors \in [Bases -> Nat]
        /\ \A b \in Bases : current[b] = 1 /\ prev[b] = 1 /\ accessors[b] = 0
    BY DEF Init
  <2>6. queued \in Seq(Slots) /\ prologue \in Seq(0..32) /\ todo \in [Threads -> Seq(0..32)]
    BY <1>0 DEF Init
  <2>7. blocks \in [Slots -> 0..32] /\ free \in [Classes -> Seq(Slots)]
        /\ shrunk \in BOOLEAN /\ overtaken \in BOOLEAN
    <3>1. blocks \in [Slots -> 0..32]
      BY DEF Init
    <3>2. free \in [Classes -> Seq(Slots)]
      BY DEF Init
    <3>3. shrunk \in BOOLEAN /\ overtaken \in BOOLEAN
      BY DEF Init
    <3>. QED  BY <3>1, <3>2, <3>3
  <2>8. pc \in [Threads -> Labels] /\ loc \in [Threads -> Locals]
    BY <1>2 DEF Init, Labels
  <2>9. \A b \in Bases :
           /\ prev[b] \in 1..current[b] /\ current[b] \in 1..Len(extents[b])
           /\ accessors[b] = Cardinality({t \in Threads : B(t) = b /\ pc[t] # "idle"})
    <3>1. 1 \in 1..1
      OBVIOUS
    <3>. QED  BY <1>3, <2>4, <2>5, <3>1
  <2>. QED  BY <2>1, <2>3, <2>4, <2>5, <2>6, <2>7, <2>8, <2>9 DEF TypeOK
<1>5. \A t \in Threads : pc[t] = "idle" /\ loc[t] = NoLocals /\ B(t) \in Bases
  BY <1>0 DEF Init, B
<1>6. Calling /\ NoUseAfterUnmap /\ Alone
  BY <1>5 DEF Calling, NoUseAfterUnmap, Alone, HeadOK, AloneOK, Releasing, Heading, Passed
<1>7. Places
  <2>1. \A t \in Threads : loc[t].ext = 1 /\ current[B(t)] = 1
    BY <1>5 DEF Init, NoLocals
  <2>. QED  BY <1>5, <2>1 DEF Places, PlaceOK, Expanding
<1>8. SizesAgree
  BY <1>5 DEF SizesAgree, AgreeOK, Expanding
<1>9. SizesFollow
  <2>1. \A b \in Bases : Len(extents[b]) = 1 /\ extents[b][1] = PageSlots
    BY <1>0 DEF Init
  <2>2. dataAlloc < size /\ size <= expandSize /\ size <= fileSize /\ size = PageSlots
    BY <1>0 DEF Init
  <2>. QED  BY <1>0, <2>1, <2>2 DEF SizesFollow
<1>10. \A t \in Threads : ~HoldsBlock(t)
  BY <1>5 DEF HoldsBlock, Accessing, Subroutines
<1>11. /\ queued = <<>> /\ DOMAIN queued = {} /\ \A s \in Slots : blocks[s] = 0
       /\ \A c \in Classes : free[c] = <<>> /\ DOMAIN free[c] = {} /\ bucket[c].lo = 0
  BY DEF Init, Zero
<1>12. BlocksAccounted
  <2>1. BlocksApart
    BY <1>10, <1>11 DEF BlocksApart, Injective
  <2>2. (\A c \in Classes : Linked(c)) /\ NoneLost
    BY <1>11 DEF Linked, NoneLost
  <2>. QED  BY <2>1, <2>2 DEF BlocksAccounted
<1>13. Stacks
  <2>1. BASE <= dataAlloc /\ (dataAlloc - BASE) % 4 = 0
    BY <1>0 DEF Init
  <2>. QED  BY <1>11, <2>1 DEF Stacks
<1>14. Held
  <2>1. \A t \in Threads : pc[t] \notin Subroutines
    BY <1>5 DEF Subroutines
  <2>2. \A t \in Threads : LooksOK(t) /\ KnowsOK(t) /\ HasOK(t)
    BY <1>5, <1>10, <2>1 DEF LooksOK, KnowsOK, HasOK, In
  <2>. QED  BY <1>11, <2>2 DEF Held
<1>. QED
  BY <1>4, <1>6, <1>7, <1>8, <1>9, <1>12, <1>13, <1>14 DEF Inv

\* and stays in it.
LEMMA Invariant == Spec => []Inv
  BY InitInv, NextInv, PTL DEF Spec

(***************************************************************************)
(* The theorems.                                                           *)
(***************************************************************************)

\* Every value keeps its type: a bucket refers to a block or to none, the extents a process has
\* not unmapped and its current one are among those it made, and "accessors" counts its threads
\* that are in a call.
THEOREM MemoryTyped == Spec => []TypeOK
<1>. Inv => TypeOK  BY DEF Inv
<1>. QED  BY Invariant, PTL

\* Data slots end before SIZE, SIZE never exceeds EXPAND_SIZE, the extents of a process grow and
\* stay within SIZE, and the file holds it until it is made shorter or an expand is overtaken.
THEOREM SizesHold == Spec => []SizesFollow
<1>. Inv => SizesFollow  BY DEF Inv
<1>. QED  BY Invariant, PTL

\* alloc_data_slots gives no slot to two owners, whatever the programs and the file, and with
\* the file intact free_data_slots loses none: neither the tagged CAS of the buckets nor the
\* blocks read before it need a lock.
THEOREM BlocksHold == Spec => []BlocksAccounted
<1>. Inv => BlocksAccounted  BY DEF Inv
<1>. QED  BY Invariant, PTL

\* release_prev_extents unmaps no extent that another thread of the process works in, though
\* threads enter after it has looked at "accessors", and none twice: the head of a thread that
\* read it too early is one behind, and its exchange fails.
THEOREM UnmapSafe == Spec => []NoUseAfterUnmap
<1>. Inv => NoUseAfterUnmap  BY DEF Inv
<1>. QED  BY Invariant, PTL

\* insure_fit expands the file for new slots only: a block that was freed lies below SIZE.
THEOREM ReuseNeverExpands ==
    Spec => [](\A t \in Threads : pc[t] \in Expanding => loc[t].then = "newCas")
<1>. Inv => \A t \in Threads : pc[t] \in Expanding => loc[t].then = "newCas"
  BY DEF Inv, Places, PlaceOK
<1>. QED  BY Invariant, PTL
=============================================================================
