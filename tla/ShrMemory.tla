----------------------------- MODULE ShrMemory -----------------------------
(***************************************************************************)
(* The memory of a queue, shared_int.c: the file that grows and the        *)
(* mappings (extents) that follow it, and the data slots that an add       *)
(* allocates (alloc_data_slots) and a remove gives back (free_data_slots). *)
(*                                                                         *)
(* A process is a base: its threads share the list of extents, oldest      *)
(* first.  An address is an index of the shared array; an access through   *)
(* an extent that does not reach it, or beyond the end of the file, is a   *)
(* fault that ends the process.  Blocks of a size class that were freed    *)
(* are a stack: bucket[c] is (slot, tag), swapped as a double word, and    *)
(* the first two words of a free block hold what the bucket held before.   *)
(*                                                                         *)
(* A call is the size in slots of an item to add, or 0 to remove the first *)
(* item; the queue itself is only the order of the items (see ShrList).    *)
(* Sizes are in slots; a page has PageSlots of them (512 in the code).     *)
(* A mapping that fails, and the nodes of the lists, which alloc_new_data  *)
(* also provides, are left out.                                            *)
(***************************************************************************)
EXTENDS Integers, Sequences, FiniteSets, FiniteSetsExt

CONSTANTS
    Threads, Bases,
    BaseOf,         \* the process each thread belongs to
    Opener,         \* the thread that makes the prologue's calls
    Programs,       \* the calls each thread makes: a set of functions
    Prologue,       \* calls made by Opener before the others start
    PageSlots,      \* slots of a page
    BASE,           \* slots of the header
    MaxPages        \* the file cannot be made longer than this

SizeOf   == <<4, 8, 16, 32>>    \* slots of a block of each class; MEM_SLOTS of them in the code
Classes  == DOMAIN SizeOf
Sizes    == {SizeOf[c] : c \in Classes}
MaxSlots == MaxPages * PageSlots
\* where a block may start: sizes are multiples of 4; a reference is a slot, or 0 for none
Slots    == {s \in BASE..(MaxSlots - 1) : (s - BASE) % 4 = 0}
Refs     == Slots \cup {0}

ASSUME MemoryAssumption ==
    /\ IsFiniteSet(Threads) /\ BaseOf \in [Threads -> Bases] /\ Opener \in Threads
    /\ Programs \subseteq [Threads -> Seq(0..32)] /\ Prologue \in Seq(0..32)
    /\ PageSlots \in Nat /\ BASE \in 1..(PageSlots - 1) /\ MaxPages \in Nat \ {0}

VARIABLES
    fileSize,               \* the length of the file
    size, expandSize,       \* array[ SIZE ], array[ EXPAND_SIZE ]
    dataAlloc,              \* array[ DATA_ALLOC ]
    bucket, word,           \* array[ MEM_BKT_START.. ], the first two words of the blocks
    extents, current, prev, \* of each process: slots of each extent; base->current, ->prev
    accessors,              \* base->accessors
    queued,                 \* the items added and not yet removed
    pc, loc, todo, prologue,
    \* for the properties only:
    blocks, free,           \* the size of every block ever allocated, each bucket's stack
    shrunk, overtaken       \* whether the file was ever made shorter, an expansion overtaken

fileVars   == <<fileSize, size, expandSize, shrunk, overtaken>>
blockVars  == <<dataAlloc, bucket, word, blocks, free>>
extentVars == <<extents, current, prev, accessors>>
callVars   == <<queued, todo, prologue>>
vars == <<fileVars, blockVars, extentVars, callVars, pc, loc>>

Zero == [lo |-> 0, hi |-> 0]
D(lo, hi) == [lo |-> lo, hi |-> hi]

NoLocals == [ want |-> 0,       \* slots to allocate
              slot |-> 0,       \* the block allocated or freed
              at   |-> 0,       \* what insure_in_range is asked for
              ext  |-> 1,       \* view.extent
              new  |-> 0,       \* size of the file or extent being made
              old  |-> 0,       \* prev of expand
              class |-> 0, before |-> Zero, next |-> 0,
              then |-> "idle" ] \* where a subroutine returns to

Locals == [want : 0..32, slot : Nat, at : Nat, ext : Nat \ {0}, new : Nat, old : Nat,
           class : 0..4, before : [lo : Refs, hi : Nat], next : Nat,
           then : {"idle", "lookNext", "clear", "newCas", "extentOf", "copy"}]

Init ==
    /\ fileSize = PageSlots /\ size = PageSlots /\ expandSize = PageSlots
    /\ dataAlloc = BASE
    /\ bucket = [c \in Classes |-> Zero]
    /\ word = [s \in Slots |-> Zero]
    /\ extents = [b \in Bases |-> <<PageSlots>>]
    /\ current = [b \in Bases |-> 1] /\ prev = [b \in Bases |-> 1]
    /\ accessors = [b \in Bases |-> 0]
    /\ queued = <<>>
    /\ pc = [t \in Threads |-> "idle"] /\ loc = [t \in Threads |-> NoLocals]
    /\ todo \in Programs /\ prologue = Prologue
    /\ blocks = [s \in Slots |-> 0] /\ free = [c \in Classes |-> <<>>]
    /\ shrunk = FALSE /\ overtaken = FALSE

-----------------------------------------------------------------------------

B(t) == BaseOf[t]

\* a fault ends the process
Alive(t) == \A u \in Threads : BaseOf[u] = BaseOf[t] => pc[u] # "fault"

At(t, label) == pc[t] = label /\ Alive(t)
Goto(t, label) == pc' = [pc EXCEPT ![t] = label]
Go(t, from, to) == At(t, from) /\ Goto(t, to)
Set(t, l) == loc' = [loc EXCEPT ![t] = l]

Mapped(t) == extents[B(t)][loc[t].ext]

\* where a thread accesses a block, and which slot through its extent
Accessing == {"lookNext", "lookSize", "clear", "store", "extentOf", "copy",
              "freeSize", "freeHi", "freeLo", "freeCas"}
Touched(t) == CASE pc[t] \in {"lookNext", "copy"} -> loc[t].at
                [] pc[t] \in {"clear", "store"}   -> loc[t].slot + loc[t].want - 1
                [] OTHER                          -> loc[t].slot
Reaches(t) == Touched(t) < Mapped(t) /\ Touched(t) < fileSize

Access(t, from, to) == Go(t, from, to) /\ Reaches(t)

\* alloc_data_slots rounds up to a power of two; the bucket of a power of two
RoundUp(n) == Min({s \in Sizes : s >= n})
ClassOf(n) == CHOOSE c \in Classes : SizeOf[c] = n

Calls(t) == IF prologue # <<>> THEN prologue ELSE todo[t]

MayCall(t) == Calls(t) # <<>> /\ (prologue # <<>> => t = Opener)

\* guard_q_memory
CallAdd(t) ==
    /\ Go(t, "idle", "firstFit")
    /\ MayCall(t) /\ Head(Calls(t)) > 0
    /\ accessors' = [accessors EXCEPT ![B(t)] = @ + 1]
    /\ LET want == RoundUp(Head(Calls(t)))
       IN Set(t, [NoLocals EXCEPT !.want = want, !.class = ClassOf(want), !.ext = current[B(t)]])
    /\ UNCHANGED <<fileVars, blockVars, extents, current, prev, callVars>>

CallRemove(t) ==
    /\ At(t, "idle")
    /\ MayCall(t) /\ Head(Calls(t)) = 0
    /\ IF queued # <<>>
         THEN /\ Goto(t, "range")
              /\ queued' = Tail(queued)
              /\ accessors' = [accessors EXCEPT ![B(t)] = @ + 1]
              /\ Set(t, [NoLocals EXCEPT !.slot = Head(queued), !.at = Head(queued),
                                         !.then = "extentOf", !.ext = current[B(t)]])
              /\ UNCHANGED <<todo, prologue>>
         ELSE /\ IF prologue # <<>>
                   THEN prologue' = Tail(prologue) /\ UNCHANGED todo
                   ELSE todo' = [todo EXCEPT ![t] = Tail(@)] /\ UNCHANGED prologue
              /\ UNCHANGED <<queued, accessors, pc, loc>>
    /\ UNCHANGED <<fileVars, blockVars, extents, current, prev>>

\* unguard_q_memory
Leave(t) ==
    /\ Go(t, "leave", "idle")
    /\ accessors' = [accessors EXCEPT ![B(t)] = @ - 1]
    /\ Set(t, NoLocals)
    /\ IF prologue # <<>>
         THEN prologue' = Tail(prologue) /\ UNCHANGED todo
         ELSE todo' = [todo EXCEPT ![t] = Tail(@)] /\ UNCHANGED prologue
    /\ UNCHANGED <<fileVars, blockVars, extents, current, prev, queued>>

-----------------------------------------------------------------------------
(* the file and its extents *)

\* insure_in_range of loc[t].at, then on to loc[t].then
InRange(t) ==
    /\ At(t, "range")
    /\ Set(t, [loc[t] EXCEPT !.ext = current[B(t)]])
    /\ Goto(t, IF loc[t].at < extents[B(t)][current[B(t)]] THEN loc[t].then ELSE "resize")
    /\ UNCHANGED <<fileVars, blockVars, extentVars, callVars>>

\* insure_fit of loc[t].want slots at loc[t].slot, then on to loc[t].then
Fit(t) ==
    /\ At(t, "fit")
    /\ LET fits == loc[t].slot + loc[t].want < Mapped(t)
       IN /\ Goto(t, IF fits THEN loc[t].then ELSE "expand")
          /\ Set(t, [loc[t] EXCEPT !.ext = IF fits THEN current[B(t)] ELSE @])
    /\ UNCHANGED <<fileVars, blockVars, extentVars, callVars>>

\* the caller of resize_extent was insure_fit or insure_in_range
Resized(t) == IF loc[t].then \in {"clear", "newCas"} THEN "fit" ELSE loc[t].then

Expand(t) ==
    /\ At(t, "expand")
    /\ IF loc[t].ext # current[B(t)]
         THEN Goto(t, "fit") /\ Set(t, [loc[t] EXCEPT !.ext = current[B(t)]])
         ELSE IF Mapped(t) # size
         THEN Goto(t, "resize") /\ UNCHANGED loc
         ELSE Goto(t, "expPrev") /\ UNCHANGED loc
    /\ UNCHANGED <<fileVars, blockVars, extentVars, callVars>>

\* calculate_realloc_size
ReallocSize(t) == (Mapped(t) \div PageSlots + loc[t].want \div PageSlots + 1) * PageSlots

ExpPrev(t) ==
    /\ Go(t, "expPrev", "expCas")
    /\ Set(t, [loc[t] EXCEPT !.old = size])
    /\ UNCHANGED <<fileVars, blockVars, extentVars, callVars>>

ExpCas(t) ==
    /\ Go(t, "expCas", "expRead")
    /\ expandSize' = IF ReallocSize(t) > loc[t].old /\ expandSize = loc[t].old
                       THEN ReallocSize(t) ELSE expandSize
    /\ overtaken' = (overtaken \/ ReallocSize(t) <= loc[t].old)
    /\ UNCHANGED <<fileSize, size, shrunk, blockVars, extentVars, callVars, loc>>

\* the argument of ftruncate is read ...
ExpRead(t) ==
    /\ Go(t, "expRead", "truncate")
    /\ Set(t, [loc[t] EXCEPT !.new = expandSize])
    /\ UNCHANGED <<fileVars, blockVars, extentVars, callVars>>

\* ... before the call is made.  What is cut off is zero when the file grows again.
Truncate(t) ==
    /\ At(t, "truncate")
    /\ IF loc[t].new <= MaxSlots
         THEN /\ fileSize' = loc[t].new
              /\ shrunk' = (shrunk \/ loc[t].new < fileSize)
              /\ word' = [s \in Slots |-> IF s >= loc[t].new THEN Zero ELSE word[s]]
              /\ Goto(t, "sizeCas")
         ELSE /\ Goto(t, IF loc[t].then = "clear" THEN "newRead" ELSE "leave")
              /\ UNCHANGED <<fileSize, shrunk, word>>
    /\ UNCHANGED <<size, expandSize, overtaken, dataAlloc, bucket, blocks, free, extentVars,
                   callVars, loc>>

\* slip: SIZE set to the size asked for, not to the one the file was given
SizeAsked(t) ==
    /\ At(t, "sizeCas")
    /\ size' = IF size = loc[t].old THEN ReallocSize(t) ELSE size
    /\ Goto(t, IF Mapped(t) # size' THEN "resize" ELSE "fit")
    /\ UNCHANGED <<fileSize, expandSize, shrunk, overtaken, blockVars, extentVars, callVars, loc>>

\* EXPAND_SIZE is read and SIZE swapped in one step: as long as SIZE is the one seen, the two
\* differ and nobody changes EXPAND_SIZE (SizesAgree in the proofs), or they are equal and the
\* CAS changes nothing
SizeCas(t) ==
    /\ At(t, "sizeCas")
    /\ size' = IF size = loc[t].old THEN expandSize ELSE size
    /\ Goto(t, IF Mapped(t) # size' THEN "resize" ELSE "fit")
    /\ UNCHANGED <<fileSize, expandSize, shrunk, overtaken, blockVars, extentVars, callVars, loc>>

\* resize_extent: has another thread changed the extent, another process the file?
Resize(t) ==
    /\ At(t, "resize")
    /\ IF loc[t].ext # current[B(t)] \/ Mapped(t) = size
         THEN /\ Set(t, [loc[t] EXCEPT !.ext = current[B(t)]])
              /\ Goto(t, Resized(t))
         ELSE /\ Set(t, [loc[t] EXCEPT !.new = size])
              /\ Goto(t, "link")
    /\ UNCHANGED <<fileVars, blockVars, extentVars, callVars>>

\* the CAS on tail->next; another thread's extent is as good as one's own
Link(t) ==
    /\ Go(t, "link", "advance")
    /\ extents' = IF Len(extents[B(t)]) = loc[t].ext
                    THEN [extents EXCEPT ![B(t)] = Append(@, loc[t].new)] ELSE extents
    /\ UNCHANGED <<fileVars, blockVars, current, prev, accessors, callVars, loc>>

\* slip: moved on, whether another thread has done it or not
AdvanceAnyway(t) ==
    /\ At(t, "advance")
    /\ current' = [current EXCEPT ![B(t)] = @ + 1]
    /\ Set(t, [loc[t] EXCEPT !.ext = current'[B(t)]])
    /\ Goto(t, Resized(t))
    /\ UNCHANGED <<fileVars, blockVars, extents, prev, accessors, callVars>>

Advance(t) ==
    /\ At(t, "advance")
    /\ current' = [current EXCEPT ![B(t)] = IF @ = loc[t].ext THEN @ + 1 ELSE @]
    /\ Set(t, [loc[t] EXCEPT !.ext = current'[B(t)]])
    /\ Goto(t, Resized(t))
    /\ UNCHANGED <<fileVars, blockVars, extents, prev, accessors, callVars>>

(* release_prev_extents: the extents before the current one, oldest first *)

\* the thread that is about to free extent e has not yet done so
Freed(b, e) ==
    /\ e < prev[b]
    /\ \A t \in Threads : B(t) = b /\ pc[t] = "relFree" => loc[t].ext # e

ReleaseHead(t) ==
    /\ Go(t, "release", "relTest")
    /\ Set(t, [NoLocals EXCEPT !.ext = prev[B(t)]])
    /\ UNCHANGED <<fileVars, blockVars, extentVars, callVars>>

\* a head that was freed may have its address again as the current extent
ReleaseTest(t) ==
    /\ At(t, "relTest")
    /\ \/ loc[t].ext # current[B(t)] /\ Goto(t, "relAcc")
       \/ (loc[t].ext = current[B(t)] \/ Freed(B(t), loc[t].ext)) /\ Goto(t, "leave")
    /\ UNCHANGED <<fileVars, blockVars, extentVars, callVars, loc>>

\* slip: the other threads of the process are not looked for
ReleaseAnyway(t) ==
    /\ Go(t, "relAcc", "relNext")
    /\ UNCHANGED <<fileVars, blockVars, extentVars, callVars, loc>>

\* only when no other thread is in a call
ReleaseAlone(t) ==
    /\ At(t, "relAcc")
    /\ Goto(t, IF accessors[B(t)] > 1 THEN "leave" ELSE "relNext")
    /\ UNCHANGED <<fileVars, blockVars, extentVars, callVars, loc>>

\* head->next; of a head that was freed it is anything, or the read is a fault
ReleaseNext(t) ==
    /\ At(t, "relNext")
    /\ IF Freed(B(t), loc[t].ext)
         THEN (Goto(t, "relCas") \/ Goto(t, "fault")) /\ UNCHANGED loc
         ELSE Goto(t, "relCas") /\ Set(t, [loc[t] EXCEPT !.next = loc[t].ext + 1])
    /\ UNCHANGED <<fileVars, blockVars, extentVars, callVars>>

ReleaseCas(t) ==
    /\ At(t, "relCas")
    /\ IF prev[B(t)] = loc[t].ext
         THEN prev' = [prev EXCEPT ![B(t)] = loc[t].next] /\ Goto(t, "relFree")
         ELSE Goto(t, "leave") /\ UNCHANGED prev
    /\ UNCHANGED <<fileVars, blockVars, extents, current, accessors, callVars, loc>>

\* munmap and free; the next head is not read again
ReleaseFree(t) ==
    /\ Go(t, "relFree", "relTest")
    /\ Set(t, [NoLocals EXCEPT !.ext = loc[t].next])
    /\ UNCHANGED <<fileVars, blockVars, extentVars, callVars>>

Release(t) ==
    \/ ReleaseHead(t) \/ ReleaseTest(t) \/ ReleaseAlone(t)
    \/ ReleaseNext(t) \/ ReleaseCas(t) \/ ReleaseFree(t)

-----------------------------------------------------------------------------
(* alloc_data_slots: a free block of the class or of the next two, or new slots *)

FirstFit(t) ==
    /\ At(t, "firstFit")
    /\ LET c == loc[t].class
       IN IF bucket[c].lo # 0 THEN Goto(t, "lookLo") /\ UNCHANGED loc
          ELSE IF c + 1 \in Classes /\ c < ClassOf(loc[t].want) + 2
          THEN Set(t, [loc[t] EXCEPT !.class = c + 1]) /\ UNCHANGED pc
          ELSE Goto(t, "newRead") /\ UNCHANGED loc
    /\ UNCHANGED <<fileVars, blockVars, extentVars, callVars>>

LookLo(t) ==
    /\ Go(t, "lookLo", "lookHi")
    /\ Set(t, [loc[t] EXCEPT !.before.lo = bucket[loc[t].class].lo])
    /\ UNCHANGED <<fileVars, blockVars, extentVars, callVars>>

LookHi(t) ==
    /\ Go(t, "lookHi", IF loc[t].before.lo = 0 THEN "newRead" ELSE "range")
    /\ Set(t, [loc[t] EXCEPT !.before.hi = bucket[loc[t].class].hi,
                             !.at = loc[t].before.lo, !.then = "lookNext"])
    /\ UNCHANGED <<fileVars, blockVars, extentVars, callVars>>

LookNext(t) ==
    /\ Access(t, "lookNext", "lookCas")
    /\ Set(t, [loc[t] EXCEPT !.next = word[loc[t].before.lo].lo])
    /\ UNCHANGED <<fileVars, blockVars, extentVars, callVars>>

\* slip: the tag is not compared
SameSlot(t) == bucket[loc[t].class].lo = loc[t].before.lo

Unchanged(t) == bucket[loc[t].class] = loc[t].before

LookCas(t) ==
    /\ At(t, "lookCas")
    /\ IF Unchanged(t)
         THEN /\ bucket' = [bucket EXCEPT ![loc[t].class] = D(loc[t].next, loc[t].before.hi + 1)]
              /\ free' = [free EXCEPT ![loc[t].class] = SubSeq(@, 2, Len(@))]
              /\ Set(t, [loc[t] EXCEPT !.slot = loc[t].before.lo])
              /\ Goto(t, "lookSize")
         ELSE Goto(t, "lookLo") /\ UNCHANGED <<bucket, free, loc>>
    /\ UNCHANGED <<fileVars, dataAlloc, word, blocks, extentVars, callVars>>

\* the block is of the bucket's size; insure_fit follows
LookSize(t) ==
    /\ Access(t, "lookSize", "fit")
    /\ word' = [word EXCEPT ![loc[t].slot].lo = SizeOf[loc[t].class]]
    /\ Set(t, [loc[t] EXCEPT !.ext = current[B(t)], !.then = "clear"])
    /\ UNCHANGED <<fileVars, dataAlloc, bucket, blocks, free, extentVars, callVars>>

\* the rest of the block is zeroed, and the item is stored and queued
Clear(t) ==
    /\ Access(t, "clear", "release")
    /\ word' = [word EXCEPT ![loc[t].slot].hi = 0]
    /\ queued' = Append(queued, loc[t].slot)
    /\ UNCHANGED <<fileVars, dataAlloc, bucket, blocks, free, extentVars, todo, prologue, loc>>

\* alloc_new_data
NewRead(t) ==
    /\ Go(t, "newRead", "fit")
    /\ Set(t, [loc[t] EXCEPT !.slot = dataAlloc, !.ext = current[B(t)], !.then = "newCas"])
    /\ UNCHANGED <<fileVars, blockVars, extentVars, callVars>>

\* SH_ERR_NOMEM unless the block ends before SIZE
NewCas(t) ==
    /\ At(t, "newCas")
    /\ IF loc[t].slot + loc[t].want >= size
         THEN Goto(t, "leave") /\ UNCHANGED <<dataAlloc, blocks>>
         ELSE IF dataAlloc = loc[t].slot
         THEN /\ dataAlloc' = loc[t].slot + loc[t].want
              /\ blocks' = [blocks EXCEPT ![loc[t].slot] = loc[t].want]
              /\ Goto(t, "store")
         ELSE Goto(t, "newRead") /\ UNCHANGED <<dataAlloc, blocks>>
    /\ UNCHANGED <<fileVars, bucket, word, free, extentVars, callVars, loc>>

\* the block's size and the item are stored, and the item is queued
Store(t) ==
    /\ Access(t, "store", "release")
    /\ word' = [word EXCEPT ![loc[t].slot] = D(loc[t].want, 0)]
    /\ queued' = Append(queued, loc[t].slot)
    /\ UNCHANGED <<fileVars, dataAlloc, bucket, blocks, free, extentVars, todo, prologue, loc>>

-----------------------------------------------------------------------------
(* safely_copy_data and free_data_slots *)

\* the last slot of the item, from its first
ExtentOf(t) ==
    /\ Access(t, "extentOf", "range")
    /\ Set(t, [loc[t] EXCEPT !.at = loc[t].slot + word[loc[t].slot].lo - 1, !.then = "copy"])
    /\ UNCHANGED <<fileVars, blockVars, extentVars, callVars>>

Copy(t) ==
    /\ Access(t, "copy", "freeSize")
    /\ UNCHANGED <<fileVars, blockVars, extentVars, callVars, loc>>

FreeSize(t) ==
    /\ Access(t, "freeSize", "freeHi")
    /\ word[loc[t].slot].lo \in Sizes
    /\ Set(t, [loc[t] EXCEPT !.class = ClassOf(word[loc[t].slot].lo)])
    /\ UNCHANGED <<fileVars, blockVars, extentVars, callVars>>

FreeHi(t) ==
    /\ Access(t, "freeHi", "freeLo")
    /\ word' = [word EXCEPT ![loc[t].slot].hi = bucket[loc[t].class].hi]
    /\ UNCHANGED <<fileVars, dataAlloc, bucket, blocks, free, extentVars, callVars, loc>>

FreeLo(t) ==
    /\ Access(t, "freeLo", "freeCas")
    /\ word' = [word EXCEPT ![loc[t].slot].lo = bucket[loc[t].class].lo]
    /\ UNCHANGED <<fileVars, dataAlloc, bucket, blocks, free, extentVars, callVars, loc>>

\* slip: the tag is not read again
FreeCasOldTag(t) ==
    /\ At(t, "freeCas") /\ Reaches(t)
    /\ LET before == word[loc[t].slot]
       IN IF bucket[loc[t].class] = before
            THEN /\ bucket' = [bucket EXCEPT ![loc[t].class] = D(loc[t].slot, before.hi + 1)]
                 /\ free' = [free EXCEPT ![loc[t].class] = <<loc[t].slot>> \o @]
                 /\ Goto(t, "release")
            ELSE Goto(t, "freeLo") /\ UNCHANGED <<bucket, free>>
    /\ UNCHANGED <<fileVars, dataAlloc, word, blocks, extentVars, callVars, loc>>

FreeCas(t) ==
    /\ At(t, "freeCas") /\ Reaches(t)
    /\ LET before == word[loc[t].slot]
       IN IF bucket[loc[t].class] = before
            THEN /\ bucket' = [bucket EXCEPT ![loc[t].class] = D(loc[t].slot, before.hi + 1)]
                 /\ free' = [free EXCEPT ![loc[t].class] = <<loc[t].slot>> \o @]
                 /\ Goto(t, "release")
            ELSE Goto(t, "freeHi") /\ UNCHANGED <<bucket, free>>
    /\ UNCHANGED <<fileVars, dataAlloc, word, blocks, extentVars, callVars, loc>>

\* an access beyond the mapping or the end of the file; and after a size lost with the end of
\* the file anything may happen
Fault(t) ==
    /\ pc[t] \in Accessing /\ Alive(t)
    /\ ~Reaches(t) \/ (pc[t] = "freeSize" /\ word[loc[t].slot].lo \notin Sizes)
    /\ Goto(t, "fault")
    /\ UNCHANGED <<fileVars, blockVars, extentVars, callVars, loc>>

-----------------------------------------------------------------------------

Extent(t) ==
    \/ InRange(t) \/ Fit(t) \/ Expand(t) \/ ExpPrev(t) \/ ExpCas(t) \/ ExpRead(t)
    \/ Truncate(t) \/ SizeCas(t) \/ Resize(t) \/ Link(t) \/ Advance(t)
    \/ Release(t)

Alloc(t) ==
    \/ FirstFit(t) \/ LookLo(t) \/ LookHi(t) \/ LookNext(t) \/ LookCas(t) \/ LookSize(t)
    \/ Clear(t) \/ NewRead(t) \/ NewCas(t) \/ Store(t)

Free(t) ==
    \/ ExtentOf(t) \/ Copy(t) \/ FreeSize(t) \/ FreeHi(t) \/ FreeLo(t) \/ FreeCas(t)

Step(t) == CallAdd(t) \/ CallRemove(t) \/ Leave(t) \/ Extent(t) \/ Alloc(t) \/ Free(t) \/ Fault(t)

Over(t) == ~Alive(t) \/ (pc[t] = "idle" /\ prologue = <<>> /\ todo[t] = <<>>)

Done == (\A t \in Threads : Over(t)) /\ UNCHANGED vars

Next == (\E t \in Threads : Step(t)) \/ Done

Spec == Init /\ [][Next]_vars /\ \A t \in Threads : WF_vars(Step(t))

-----------------------------------------------------------------------------

Releasing == {"release", "relTest", "relAcc", "relNext", "relCas", "relFree"}

Labels == Accessing \cup Releasing \cup
    {"idle", "leave", "fault", "range", "fit", "expand", "expPrev", "expCas", "expRead",
     "truncate", "sizeCas", "resize", "link", "advance", "firstFit",
     "lookLo", "lookHi", "lookCas", "newRead", "newCas"}

TypeOK ==
    /\ fileSize \in 1..MaxSlots /\ size \in Nat /\ expandSize \in Nat /\ dataAlloc \in Nat
    /\ bucket \in [Classes -> [lo : Refs, hi : Nat]] /\ word \in [Slots -> [lo : Nat, hi : Nat]]
    /\ extents \in [Bases -> Seq(Nat \ {0})]
    /\ current \in [Bases -> Nat] /\ prev \in [Bases -> Nat] /\ accessors \in [Bases -> Nat]
    /\ \A b \in Bases :
          /\ prev[b] \in 1..current[b] /\ current[b] \in 1..Len(extents[b])
          /\ accessors[b] = Cardinality({t \in Threads : B(t) = b /\ pc[t] # "idle"})
    /\ queued \in Seq(Slots) /\ prologue \in Seq(0..32) /\ todo \in [Threads -> Seq(0..32)]
    /\ blocks \in [Slots -> 0..32] /\ free \in [Classes -> Seq(Slots)]
    /\ shrunk \in BOOLEAN /\ overtaken \in BOOLEAN
    /\ pc \in [Threads -> Labels] /\ loc \in [Threads -> Locals]

(***************************************************************************)
(* The sizes follow each other: EXPAND_SIZE announces a size before SIZE   *)
(* has it, no slot is given beyond SIZE, no process maps more than SIZE,   *)
(* each new extent of a process is larger.  And the file is lengthened     *)
(* before SIZE says so, whoever does which of the three - unless the file  *)
(* was made shorter (see FileHoldsSize), or an expand was overtaken by     *)
(* another after it compared its extent with SIZE: it announces nothing    *)
(* then, but sets SIZE to what a third one has announced.                  *)
(***************************************************************************)
SizesFollow ==
    /\ dataAlloc < size /\ size <= expandSize
    /\ shrunk \/ overtaken \/ size <= fileSize
    /\ \A b \in Bases : \A i \in 1..Len(extents[b]) :
          /\ extents[b][i] <= size
          /\ i > 1 => extents[b][i - 1] < extents[b][i]

Subroutines == {"range", "fit", "expand", "expPrev", "expCas", "expRead", "truncate",
                "sizeCas", "resize", "link", "advance"}
HoldsBlock(t) ==
    \/ pc[t] \in Accessing \ {"lookNext"}
    \/ pc[t] \in Subroutines /\ loc[t].then \in {"clear", "extentOf", "copy"}

Injective(f) == \A i, j \in DOMAIN f : f[i] = f[j] => i = j

\* each block is in one place, and no two have a slot in common
BlocksApart ==
    /\ Injective(queued) /\ \A c \in Classes : Injective(free[c])
    /\ \A t, u \in Threads :
          HoldsBlock(t) /\ HoldsBlock(u) /\ loc[t].slot = loc[u].slot => t = u
    /\ \A i \in DOMAIN queued : \A t \in Threads : HoldsBlock(t) => loc[t].slot # queued[i]
    /\ \A c \in Classes : \A i \in DOMAIN free[c] :
          /\ blocks[free[c][i]] = SizeOf[c]
          /\ \A j \in DOMAIN queued : queued[j] # free[c][i]
          /\ \A t \in Threads : HoldsBlock(t) => loc[t].slot # free[c][i]
    /\ \A s, r \in Slots :
          blocks[s] # 0 /\ blocks[r] # 0 /\ s < r => s + blocks[s] <= r

\* the bucket and the first words of the free blocks are the stack of the class
Linked(c) ==
    /\ bucket[c].lo = IF free[c] = <<>> THEN 0 ELSE free[c][1]
    /\ \A i \in DOMAIN free[c] :
          word[free[c][i]].lo = IF i = Len(free[c]) THEN 0 ELSE free[c][i + 1]

\* every block ever allocated holds a queued item, or is free, or one call has it
NoneLost ==
    \A s \in Slots : blocks[s] # 0 =>
        \/ \E i \in DOMAIN queued : queued[i] = s
        \/ \E c \in Classes : \E i \in DOMAIN free[c] : free[c][i] = s
        \/ \E t \in Threads : HoldsBlock(t) /\ loc[t].slot = s

Faulted == \E t \in Threads : pc[t] = "fault"

(***************************************************************************)
(* No add is given slots that are in use, whatever happens to the file:    *)
(* a block holds a queued item, or is free in the bucket of its size, or   *)
(* one call has it.  As long as the file holds what SIZE says, the stacks  *)
(* are linked, and no block is lost before a process ends in a fault.      *)
(***************************************************************************)
BlocksAccounted ==
    /\ BlocksApart
    /\ ~shrunk /\ ~overtaken => (\A c \in Classes : Linked(c)) /\ (~Faulted => NoneLost)

(***************************************************************************)
(* No thread works in an extent that another thread of its process has     *)
(* unmapped, though threads enter between the test of "accessors" and the  *)
(* exchange: it is at prev or after it.  Inside release_prev_extents a     *)
(* head that was read before another thread released it is at most one     *)
(* behind, so that its own exchange fails, and no extent is unmapped and   *)
(* freed twice.  (head->next of that head is read all the same.)           *)
(***************************************************************************)
NoUseAfterUnmap ==
    \A t \in Threads :
        /\ pc[t] \notin {"idle", "leave", "fault"} \cup Releasing => loc[t].ext >= prev[B(t)]
        /\ pc[t] \in Releasing \ {"release"} => loc[t].ext + 1 >= prev[B(t)]
        /\ pc[t] = "relFree" =>
              /\ loc[t].ext < prev[B(t)]
              /\ \A u \in Threads \ {t} : B(u) = B(t) => pc[u] # "relFree"

(***************************************************************************)
(* Every call returns: none of the loops waits for another process.        *)
(***************************************************************************)
EveryCallReturns == <>(\A t \in Threads : Over(t))

(***************************************************************************)
(* "expand the shared memory object without locking" (expand): the file is *)
(* never shorter than SIZE says.                                           *)
(***************************************************************************)
FileHoldsSize == size <= fileSize

(***************************************************************************)
(* "SH_OK slot is in current extent" (insure_in_range).                    *)
(***************************************************************************)
SlotInExtent ==
    \A t \in Threads :
        pc[t] \in {"lookNext", "extentOf", "copy"} => loc[t].at < Mapped(t)

=============================================================================
