--------------------------- MODULE MCQueueItems ---------------------------
(* Instances of QueueItems for TLC. *)
EXTENDS QueueItems

Three == 1..3
Blocks == {8, 16, 32}

A(lens) == [op |-> "add", lens |-> lens]
R == [op |-> "remove"]
To(op, n) == [op |-> op, to |-> n]

Scene(limits, last, program) ==
    [limit |-> limits[1], target |-> limits[2], discard |-> limits # <<0, 0>>, end |-> last,
     program |-> program]

\* of values and vectors, and of vectors with an entry that is refused
Pairs == { << <<1>>, <<9>> >>, << <<8>>, <<1, 8>> >>, << <<9, 16>>, <<7, 17, 3>> >>,
           << <<0>>, <<8, 25, 9>> >>, << <<4, 0>>, <<16, 1>> >> }

Scenes ==
    { Scene(<<0, 0>>, 1, << <<A(s[1])>>, <<A(s[2])>>, <<R, R>> >>) : s \in Pairs }
        \cup
    { \* CoDel, with two items, and with three that stamp and clear
      Scene(<<2, 1>>, 4, << <<A(<<1>>), A(<<1>>)>>, <<R, R>>, <<>> >>),
      Scene(<<1, 1>>, 2, << <<A(<<1>>)>>, <<A(<<1>>)>>, <<R>> >>),
      \* the settings change below a remove
      Scene(<<1, 0>>, 3, << <<A(<<1>>)>>, <<R>>, <<To("timelimit", 0)>> >>),
      Scene(<<1, 0>>, 4, << <<A(<<1>>)>>, <<R>>, <<To("timelimit", 2), To("target", 1)>> >>),
      Scene(<<2, 1>>, 4, << <<A(<<1>>)>>, <<R>>, <<[op |-> "keep"], To("target", 2)>> >>) }
=============================================================================
