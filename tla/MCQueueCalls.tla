--------------------------- MODULE MCQueueCalls ---------------------------
(* Instances of QueueCalls for TLC. *)
EXTENDS QueueCalls

AllCalls == {"create", "attach", "open", "close", "destroy", "add", "remove", "timed", "try",
             "pull", "unregister"}
Three == 1..3
OneFile == 1..1
TwoFiles == 1..2

Starting(program) == [exists |-> FALSE, program |-> program]
Running(program)  == [exists |-> TRUE, program |-> program]

Scenes ==
    { \* two processes create the queue or open it, whichever is first there
      Starting(<< <<"attach", "add">>, <<"attach", "try">>, <<"open", "add">> >>),
      \* the queue is destroyed and created again below one that opens it or creates it
      Running(<< <<"destroy", "create">>, <<"close", "attach", "remove">>, <<"destroy", "add">> >>),
      \* two processes pull, one waits
      Running(<< <<"pull">>, <<"pull">>, <<"remove">> >>),
      \* one registers and goes, one waits
      Running(<< <<"pull">>, <<"unregister">>, <<"remove">> >>),
      \* two wait
      Running(<< <<"pull">>, <<"timed", "try">>, <<"remove">> >>) }
=============================================================================
