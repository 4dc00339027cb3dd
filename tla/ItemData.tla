------------------------------ MODULE ItemData ------------------------------
(***************************************************************************)
(* The layout of an item in the file and in the buffer of its reader, and  *)
(* the arithmetic on it: lengths are bytes, everything else is counted in  *)
(* slots of 8 bytes (SZ_SHIFT, REM).                                       *)
(*                                                                         *)
(* An item is given by the lengths of its entries: one for shr_q_add, more *)
(* for shr_q_addv.  Its block begins with DATA_HDR words (slots, time,     *)
(* unique id, type, count of entries, length); a value follows as it is, a *)
(* vector as type, length and data of each entry in turn.                  *)
(***************************************************************************)
EXTENDS Integers, Sequences

SLOT     == 8
DATA_HDR == 7
VEC      == 24      \* sizeof( sq_vec_s )

Slots(len) == len \div SLOT + (IF len % SLOT = 0 THEN 0 ELSE 1)

\* slip: no room for the type and the length
EntryRoomBare(len) == len \div SLOT + (IF len % SLOT = 0 THEN 0 ELSE 2)

\* what calc_vector_slots sets aside for an entry: type and length, its data, and two more
\* slots for a remainder
EntryRoom(len) == 2 + len \div SLOT + (IF len % SLOT = 0 THEN 0 ELSE 2)

\* how far copy_vector goes on to store the next entry, initialize_item_vector to read it
WriterStride(len) == 2 + Slots(len)
ReaderStride(len) == 2 + (IF len <= SLOT THEN 1 ELSE Slots(len))

RoomFor(lens) ==
    LET sum[i \in 0..Len(lens)] == IF i = 0 THEN 0 ELSE sum[i - 1] + EntryRoom(lens[i])
    IN sum[Len(lens)]

\* calc_data_slots and calc_vector_slots
Space(lens) == DATA_HDR + (IF Len(lens) = 1 THEN Slots(lens[1]) ELSE RoomFor(lens))

\* update_buffer_size: what is asked of BUFFER
Asked(lens) == SLOT * Space(lens) + VEC * Len(lens)

\* the slot of the block in which the writer stores entry i; a value has no words of its own
WrittenAt(lens) ==
    LET at[i \in 1..Len(lens)] ==
            IF i = 1 THEN DATA_HDR ELSE at[i - 1] + WriterStride(lens[i - 1])
    IN at

\* the length stored in the word after slot s
LengthAt(lens, s) ==
    LET found == {i \in 1..Len(lens) : WrittenAt(lens)[i] = s}
    IN IF found = {} THEN 0 ELSE lens[CHOOSE i \in found : TRUE]

\* what copy_to_buffer copies of a block, and what it needs together with the table of entries
Copied(slots) == SLOT * slots - SLOT
Needed(slots, lens) == Copied(slots) + VEC * Len(lens)

\* the entries a reader finds in its buffer, where the block's first word is missing: the
\* place of each one's data and its length
Entries(lens) ==
    LET value == DATA_HDR - 1
        at[i \in 1..Len(lens)] ==
            IF i = 1 THEN value ELSE at[i - 1] + ReaderStride(LengthAt(lens, at[i - 1] + 1))
    IN IF Len(lens) = 1
         THEN << [base |-> value, len |-> lens[1]] >>
         ELSE [i \in 1..Len(lens) |-> [base |-> at[i] + 2, len |-> LengthAt(lens, at[i] + 1)]]

-----------------------------------------------------------------------------
(* shr_q_exceeds_idle_time, on times of seconds and parts of a second *)

ExceedsIdleTime(now, last, limit) ==
    \/ now.sec - last.sec > limit.sec
    \/ now.sec - last.sec = limit.sec /\ now.nsec - last.nsec >= limit.nsec

=============================================================================
