----------------------------- MODULE MCShrList -----------------------------
(* Instances of ShrList for TLC. *)
EXTENDS ShrList

Two == 1..2
Three == 1..3
Third == {3}

\* one call by each of three processes, up to their exchange, and two calls by each of two;
\* the third may be killed
FewCalls ==
    { << <<"add">>, <<"add">>, <<"add">> >>,
      << <<"add">>, <<"add">>, <<"remove">> >>,
      << <<"add">>, <<"remove">>, <<"add">> >>,
      << <<"add">>, <<"remove">>, <<"remove">> >>,
      << <<"remove">>, <<"remove">>, <<"add">> >>,
      << <<"remove">>, <<"remove">>, <<"remove">> >>,
      << <<"add", "remove">>, <<>>, <<"remove", "add">> >> }

\* a remove by one process, and by another the rounds after which the queue's first
\* node has been through the pool and is the first again
Rounds == <<"add", "remove", "add", "remove", "add", "remove", "add", "remove">>
FewCallsAndRounds == FewCalls \cup { << <<"remove">>, Rounds, <<>> >> }

\* the shortest calls that make a process append to the pool while another
\* takes the pool's first node
RemoveAgainstRemoveAdd == {<< <<"remove">>, <<"remove", "add">> >>}
TwoItems == <<"add", "add">>

\* add, remove, add, remove: the pool's first node, primed with generation 0,
\* has been used again
OneRound == <<"add", "remove", "add", "remove">>
OneRoundAndAnItem == OneRound \o <<"add">>
=============================================================================
