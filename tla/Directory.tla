----------------------------- MODULE Directory ------------------------------
(***************************************************************************)
(* What ModelRouter promises of its ports: the registry is the whole of    *)
(* one answer of the management service, the latest that a finished        *)
(* refresh asked for, and never a mixture of two.                          *)
(***************************************************************************)
EXTENDS Integers

CONSTANTS Models, Ports, NoPort   \* as in ModelRouter

VARIABLES
    running,   \* the port of each model
    known,     \* the port the request handlers know of it
    listed     \* the answer a refresh has got and not installed, as a set

directoryVars == <<running, known, listed>>

Apart(ports) ==
    \A m, n \in Models : ports[m] = ports[n] => m = n \/ ports[m] = NoPort

Init ==
    /\ running \in {f \in [Models -> Ports \cup {NoPort}] : Apart(f)}
    /\ known = [m \in Models |-> NoPort]
    /\ listed = {}

\* A model starts on a port nobody has, or stops.
Redeploy(m) ==
    /\ \E p \in Ports \cup {NoPort} :
         /\ p = NoPort \/ \A n \in Models : running[n] # p
         /\ running' = [running EXCEPT ![m] = p]
    /\ UNCHANGED <<known, listed>>

List ==
    /\ listed = {}
    /\ listed' = {running}
    /\ UNCHANGED <<running, known>>

Install ==
    /\ known' \in listed
    /\ listed' = {}
    /\ UNCHANGED running

Next == (\E m \in Models : Redeploy(m)) \/ List \/ Install

DirectorySpec == Init /\ [][Next]_directoryVars
=============================================================================
