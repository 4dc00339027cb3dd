----------------------------- MODULE QueueLife -----------------------------
(***************************************************************************)
(* The life of a queue (shr_q_create, shr_q_open, shr_q_close,             *)
(* shr_q_destroy): a name under /dev/shm, the files it has referred to,    *)
(* and the processes that have one of them mapped.                         *)
(*                                                                         *)
(* A file is filled store by store by the process that created it, and can *)
(* be opened as soon as its tag and version are there.  It goes on living  *)
(* for those who have it mapped when the name is taken from it.  A call is *)
(* what Scenarios say: each process makes its calls in order, and makes no *)
(* other after one that leaves it without a queue.  Up to MaxCrashes       *)
(* processes stop for good in the middle of a call.                        *)
(*                                                                         *)
(* The calls on an open queue are in QueueCalls; the semaphores are here   *)
(* because format_as_queue initializes them.  Out of scope: the size of    *)
(* the file (ShrMemory) and the errors of shm_open, ftruncate and mmap.    *)
(***************************************************************************)
EXTENDS Integers, Sequences, FiniteSets

CONSTANTS
    Procs,
    Files,      \* the files that may exist: 1, 2, ...
    NoFile,
    Calls,      \* the names of the calls
    Scenarios,  \* whether the queue exists at first, and the calls each process makes
    MaxDepth,   \* the initial value of ENQ_SEM
    MaxCrashes

ASSUME LifeAssumption ==
    /\ IsFiniteSet(Procs)
    /\ IsFiniteSet(Files) /\ Files = 1..Cardinality(Files) /\ Files # {}
    /\ NoFile \notin Files
    /\ Scenarios \subseteq [exists : BOOLEAN, program : [Procs -> Seq(Calls)]]
    /\ MaxDepth \in Nat \ {0}
    /\ MaxCrashes \in Nat

VARIABLES
    name,       \* the file the name refers to
    made,       \* the files created so far: 1..made
    has,        \* what has been stored in each file
    deqSem, enqSem,
    pc, todo,
    file, step, \* locals of create and open: the file, the next store of create
    handle,     \* the file a process has the queue open on
    dead

fileVars == <<name, made, has, deqSem, enqSem>>
procVars == <<pc, todo, file, step, handle, dead>>
lifeVars == <<fileVars, procVars>>

\* slip: the tag is there before the header is
TagEarly == <<"length", "SIZE", "VERSION", "TAG", "EXPAND_SIZE", "DATA_ALLOC",
              "pool", "DEQ_SEM", "ENQ_SEM", "EVNT_SEM", "events", "items">>

\* the stores of create_base_object and format_as_queue: the file's length, the words of
\* the header, the lists that are primed and the semaphores that are initialized
CreateOrder == <<"length", "SIZE", "EXPAND_SIZE", "DATA_ALLOC", "VERSION", "TAG",
                 "pool", "DEQ_SEM", "ENQ_SEM", "EVNT_SEM", "events", "items">>

Fields == {CreateOrder[i] : i \in 1..Len(CreateOrder)}

InitLife(scenario) ==
    /\ name = IF scenario.exists THEN 1 ELSE NoFile
    /\ made = IF scenario.exists THEN 1 ELSE 0
    /\ has = [f \in Files |-> IF f <= made THEN Fields ELSE {}]
    /\ deqSem = [f \in Files |-> 0]
    /\ enqSem = [f \in Files |-> IF f <= made THEN MaxDepth ELSE 0]
    /\ pc = [p \in Procs |-> "idle"]
    /\ todo = scenario.program
    /\ file = [p \in Procs |-> NoFile]
    /\ step = [p \in Procs |-> 1]
    /\ handle = [p \in Procs |-> name]
    /\ dead = {}

-----------------------------------------------------------------------------

At(p, label) == p \notin dead /\ pc[p] = label

Goto(p, label) == pc' = [pc EXCEPT ![p] = label]

Call(p) == Head(todo[p])

Calling(p, call) == At(p, "idle") /\ todo[p] # <<>> /\ Call(p) = call

\* a call on the queue the process has open
Using(p, call) == Calling(p, call) /\ handle[p] # NoFile

\* the call returns
Finish(p) == Goto(p, "idle") /\ todo' = [todo EXCEPT ![p] = Tail(@)]

\* the call returns an error, and the process gives up
Quit(p) == Goto(p, "idle") /\ todo' = [todo EXCEPT ![p] = <<>>]

\* SH_ERR_ARG from every call on a queue that is not open
NoQueue(p) ==
    /\ \E call \in Calls \ {"create", "attach", "open"} : Calling(p, call)
    /\ handle[p] = NoFile
    /\ Quit(p)
    /\ UNCHANGED <<fileVars, file, step, handle, dead>>

(* shr_q_create *)

\* SH_ERR_EXIST when stat finds the name
CreateStat(p) ==
    /\ Calling(p, "create") \/ At(p, "createStat")
    /\ IF name # NoFile THEN Quit(p) ELSE Goto(p, "createShm") /\ UNCHANGED todo
    /\ UNCHANGED <<fileVars, file, step, handle, dead>>

NewFile == IF name = NoFile THEN made + 1 ELSE name

\* slip: shm_open without O_EXCL
CreateShmShared(p) ==
    /\ At(p, "createShm")
    /\ NewFile \in Files
    /\ Goto(p, "format")
    /\ name' = NewFile
    /\ made' = IF name = NoFile THEN made + 1 ELSE made
    /\ file' = [file EXCEPT ![p] = NewFile]
    /\ UNCHANGED <<has, deqSem, enqSem, todo, step, handle, dead>>

\* shm_open with O_CREAT and O_EXCL: SH_ERR_EXIST when somebody was faster
CreateShm(p) ==
    /\ At(p, "createShm")
    /\ IF name # NoFile
         THEN Quit(p) /\ UNCHANGED <<name, made, file>>
         ELSE /\ NewFile \in Files
              /\ Goto(p, "format")
              /\ name' = NewFile
              /\ made' = made + 1
              /\ file' = [file EXCEPT ![p] = NewFile]
              /\ UNCHANGED todo
    /\ UNCHANGED <<has, deqSem, enqSem, step, handle, dead>>

\* who sleeps in sem_wait on DEQ_SEM of file f
Sleepers(f) == {q \in Procs : At(q, "deqWait") /\ handle[q] = f}

\* one store; sem_init below somebody who sleeps is undefined: he may never wake up
Format(p) ==
    LET f     == file[p]
        field == CreateOrder[step[p]]
        over  == step[p] = Len(CreateOrder)
    IN /\ At(p, "format")
       /\ has' = [has EXCEPT ![f] = @ \cup {field}]
       /\ deqSem' = IF field = "DEQ_SEM" THEN [deqSem EXCEPT ![f] = 0] ELSE deqSem
       /\ enqSem' = IF field = "ENQ_SEM" THEN [enqSem EXCEPT ![f] = MaxDepth] ELSE enqSem
       /\ \E lost \in SUBSET Sleepers(f) :
             /\ field # "DEQ_SEM" => lost = {}
             /\ pc' = [q \in Procs |-> IF q \in lost THEN "lost"
                                       ELSE IF q = p /\ over THEN "idle" ELSE pc[q]]
       /\ IF over
            THEN /\ handle' = [handle EXCEPT ![p] = f]
                 /\ todo' = [todo EXCEPT ![p] = Tail(@)]
                 /\ step' = [step EXCEPT ![p] = 1]
            ELSE /\ step' = [step EXCEPT ![p] = @ + 1]
                 /\ UNCHANGED <<handle, todo>>
       /\ UNCHANGED <<name, made, file, dead>>

(* shr_q_open *)

\* SH_ERR_EXIST; the splitter of the examples creates the queue then
NotThere(p) ==
    IF Call(p) = "attach" THEN Goto(p, "createStat") /\ UNCHANGED todo ELSE Quit(p)

\* SH_ERR_STATE when the file has no length yet
OpenStat(p) ==
    /\ Calling(p, "open") \/ Calling(p, "attach")
    /\ IF name = NoFile THEN NotThere(p)
       ELSE IF "length" \notin has[name] THEN Quit(p)
       ELSE Goto(p, "openShm") /\ UNCHANGED todo
    /\ UNCHANGED <<fileVars, file, step, handle, dead>>

OpenShm(p) ==
    /\ At(p, "openShm")
    /\ IF name = NoFile
         THEN NotThere(p) /\ UNCHANGED file
         ELSE Goto(p, "openMap") /\ file' = [file EXCEPT ![p] = name] /\ UNCHANGED todo
    /\ UNCHANGED <<fileVars, step, handle, dead>>

\* SIZE is read: SIGBUS when the name has been given to a file without length meanwhile,
\* SH_ERR_ARG from mapping a length of 0 when SIZE is not set
OpenMap(p) ==
    /\ At(p, "openMap")
    /\ IF "length" \notin has[file[p]] THEN Goto(p, "fault") /\ UNCHANGED todo
       ELSE IF "SIZE" \notin has[file[p]] THEN Quit(p)
       ELSE Goto(p, "openCheck") /\ UNCHANGED todo
    /\ UNCHANGED <<fileVars, file, step, handle, dead>>

\* is_valid_queue; SH_ERR_STATE
OpenCheck(p) ==
    /\ At(p, "openCheck")
    /\ IF {"TAG", "VERSION"} \subseteq has[file[p]]
         THEN Finish(p) /\ handle' = [handle EXCEPT ![p] = file[p]]
         ELSE Quit(p) /\ UNCHANGED handle
    /\ UNCHANGED <<fileVars, file, step, dead>>

(* shr_q_close and shr_q_destroy *)

Close(p) ==
    /\ Using(p, "close")
    /\ handle' = [handle EXCEPT ![p] = NoFile]
    /\ Finish(p)
    /\ UNCHANGED <<fileVars, file, step, dead>>

\* shm_unlink of the name, whatever file it refers to by now; SH_ERR_SYS when it is gone.
\* sem_destroy changes nothing
Destroy(p) ==
    /\ Using(p, "destroy")
    /\ name' = NoFile
    /\ handle' = [handle EXCEPT ![p] = NoFile]
    /\ Finish(p)
    /\ UNCHANGED <<made, has, deqSem, enqSem, file, step, dead>>

Life(p) ==
    \/ CreateStat(p) \/ CreateShm(p) \/ Format(p)
    \/ OpenStat(p) \/ OpenShm(p) \/ OpenMap(p) \/ OpenCheck(p)
    \/ Close(p) \/ Destroy(p) \/ NoQueue(p)

Crash(p) ==
    /\ p \notin dead /\ pc[p] \notin {"idle", "abort", "fault"}
    /\ Cardinality(dead) < MaxCrashes
    /\ dead' = dead \cup {p}
    /\ UNCHANGED <<fileVars, pc, todo, file, step, handle>>

-----------------------------------------------------------------------------

LifeLabels == {"idle", "createStat", "createShm", "format", "openShm", "openMap",
               "openCheck", "fault", "lost", "deqWait"}

LifeTypeOK ==
    /\ name \in Files \cup {NoFile}
    /\ made \in {0} \cup Files
    /\ has \in [Files -> SUBSET Fields]
    /\ deqSem \in [Files -> Nat] /\ enqSem \in [Files -> Nat]
    /\ todo \in [Procs -> Seq(Calls)]
    /\ file \in [Procs -> Files \cup {NoFile}]
    /\ step \in [Procs -> 1..Len(CreateOrder)]
    /\ handle \in [Procs -> Files \cup {NoFile}]
    /\ dead \subseteq Procs

(***************************************************************************)
(* A file is formatted by one process and once: of several calls of        *)
(* shr_q_create the others return SH_ERR_EXIST.  A second one would reset  *)
(* the semaphores and lists of a queue that is in use.                     *)
(***************************************************************************)
Formatting(p, f) == pc[p] = "format" /\ file[p] = f

OneFormatter ==
    \A f \in Files, p \in Procs :
        Formatting(p, f) =>
            /\ \A q \in Procs : Formatting(q, f) => q = p
            /\ has[f] # Fields

(***************************************************************************)
(* A process that opened the queue has a whole header in front of it ("if  *)
(* incompatible implementation": SH_ERR_STATE), though the lists and the   *)
(* semaphores may still be missing; the semaphores hold it back until the  *)
(* pool of nodes is there.                                                 *)
(***************************************************************************)
Header == {"length", "SIZE", "EXPAND_SIZE", "DATA_ALLOC", "VERSION", "TAG"}

ReadyWhenUsed ==
    \A p \in Procs :
        handle[p] # NoFile =>
            /\ Header \subseteq has[handle[p]]
            /\ enqSem[handle[p]] > 0 => "pool" \in has[handle[p]]

=============================================================================
