---------------------------- MODULE MCShrMemory ----------------------------
(* Instances of ShrMemory for TLC. *)
EXTENDS ShrMemory, TLC

Two == 1..2
Three == 1..3
TwoProcesses == <<"p", "q">>
TwoThreadsAndAProcess == <<"p", "p", "q">>
PAndQ == {"p", "q"}

\* two blocks of the smallest class are free
TwoFree == <<4, 4, 0, 0>>
Nothing == <<>>

\* with the two free blocks: a slow allocation while both are taken and one is freed again;
\* allocations from a larger class and from new slots, by threads of one process and of two;
\* an expansion that the other process overtakes with two of its own
Mixed == { << <<4>>, <<>>, <<4, 4, 0>> >>,
           << <<4>>, <<>>, <<4, 0>> >>,
           << <<16>>, <<4>>, <<16>> >>,
           << <<5>>, <<16>>, <<0>> >>,
           << <<16>>, <<>>, <<32, 32>> >> }

\* the first add makes the file longer, and so does the other's third one
OneAgainstThree == {<< <<16>>, <<16, 16, 16>> >>}

\* two threads of a process remove what another process adds, beyond what they have mapped
RemovesAgainstAdds == {<< <<0>>, <<0>>, <<32, 32, 4, 0>> >>}
=============================================================================
