------------------------------ MODULE KeyFile -------------------------------
(***************************************************************************)
(* What a save of KeyStore promises: keys.json is a register that is       *)
(* replaced whole, in one step, by what its writer has in memory.  There   *)
(* is no lock and no temporary file, and no step at which a failure or a   *)
(* crash could be seen in the file: a save is put, or given up.            *)
(***************************************************************************)
EXTENDS KeyChanges

VARIABLES
    file,      \* keys.json
    memory,    \* what each process has loaded and changed
    doing      \* the change it has not put yet

fileVars == <<file, memory, doing>>

Init ==
    /\ file \in Stores
    /\ memory = [p \in Writers |-> IF p = Policy THEN file ELSE NoCopy]
    /\ doing = [p \in Writers |-> NoChange]

\* The policy service changes what it loaded long ago, a command what the file
\* holds now.
Edit(p, c) ==
    LET users == IF p = Policy THEN memory[p] ELSE file
    IN  /\ doing[p] = NoChange
        /\ memory[p] = NoCopy <=> p # Policy
        /\ ~Refused(c, users)
        /\ ~Unneeded(p, c, users)
        /\ memory' = [memory EXCEPT ![p] = Changed(p, c, users)]
        /\ doing' = [doing EXCEPT ![p] = c]
        /\ UNCHANGED file

Put(p) ==
    /\ doing[p] # NoChange
    /\ file' = memory[p]
    /\ doing' = [doing EXCEPT ![p] = NoChange]
    /\ UNCHANGED memory

\* The save fails, or its process dies: only the policy service's memory keeps
\* the change, if it lives.
GiveUp(p) ==
    /\ doing[p] # NoChange
    /\ doing' = [doing EXCEPT ![p] = NoChange]
    /\ \/ p = Policy /\ UNCHANGED memory
       \/ memory' = [memory EXCEPT ![p] = NoCopy]
    /\ UNCHANGED file

\* A process ends that has nothing to save.
Forget(p) ==
    /\ doing[p] = NoChange
    /\ memory' = [memory EXCEPT ![p] = NoCopy]
    /\ UNCHANGED <<file, doing>>

Load ==
    /\ memory[Policy] = NoCopy
    /\ memory' = [memory EXCEPT ![Policy] = file]
    /\ UNCHANGED <<file, doing>>

Next ==
    \/ \E c \in PolicyChanges : Edit(Policy, c)
    \/ \E p \in Clis, c \in CliChanges : Edit(p, c)
    \/ \E p \in Writers : Put(p) \/ GiveUp(p) \/ Forget(p)
    \/ Load

FileSpec == Init /\ [][Next]_fileVars
=============================================================================
