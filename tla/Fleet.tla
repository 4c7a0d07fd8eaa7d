-------------------------------- MODULE Fleet --------------------------------
(***************************************************************************)
(* What the deploy and stop commands promise about the fleet of model      *)
(* containers, whatever they read and in whatever order: which names are   *)
(* up, and for each command what it still owes before it may answer that   *)
(* it succeeded.  A deployment owes that its name came up at some moment   *)
(* between its question and its answer; a stop, that the name was seen     *)
(* down; a stop of all, that every name that was up at one moment was seen *)
(* down since.                                                             *)
(*                                                                         *)
(* A deployment takes a name down to bring it up again, but never one that *)
(* has been up without a break since before the deployment was asked for:  *)
(* its elders.  Loose are the commands that promise no such thing, as they *)
(* were told to force it, or had no answer from docker when they asked.    *)
(***************************************************************************)
EXTENDS Naturals, FiniteSets

CONSTANTS Procs, Names

VARIABLES
    state,   \* of each name: up, faltering, which docker mends, or down
    ask      \* what each command was asked, and owes

Up == {n \in Names : state[n] = "up"}

Unasked == [kind |-> "none", name |-> "none", owed |-> {}, elders |-> {},
            loose |-> FALSE, answer |-> "none"]

Pending(p, kind) == ask[p].kind = kind /\ ask[p].answer = "none"

\* Names leave the elders of every command when they go down.
Sunk(ns, a) == [q \in Procs |-> [a[q] EXCEPT !.elders = @ \ ns]]

Init ==
    /\ state \in [Names -> {"up", "faltering", "down"}]
    /\ ask = [p \in Procs |-> Unasked]

Ask(p) ==
    /\ ask[p].kind = "none"
    /\ \E kind \in {"deploy", "stop", "stop all"}, n \in Names,
          loose \in BOOLEAN :
          ask' = [ask EXCEPT ![p] =
                    [kind |-> kind, name |-> n, loose |-> loose, answer |-> "none",
                     owed |-> IF kind = "stop all" THEN Names ELSE {n},
                     elders |-> IF kind = "deploy" THEN Up ELSE {}]]
    /\ UNCHANGED state

\* Docker does not answer.
Loosen(p) ==
    /\ Pending(p, "deploy")
    /\ ask' = [ask EXCEPT ![p].loose = TRUE]
    /\ UNCHANGED state

BringUp(p) ==
    /\ Pending(p, "deploy")
    /\ state[ask[p].name] = "down"
    /\ state' = [state EXCEPT ![ask[p].name] = "up"]
    /\ ask' = [ask EXCEPT ![p].owed = {}]

Displace(p, n) ==
    /\ Pending(p, "deploy")
    /\ \/ ask[p].loose
       \/ n = ask[p].name /\ n \notin ask[p].elders
    /\ state' = [state EXCEPT ![n] = "down"]
    /\ ask' = Sunk({n}, ask)

\* What a stop of all owes is settled when it looks; if docker does not
\* answer it owes only the names it remembers.
Survey(p) ==
    /\ Pending(p, "stop all")
    /\ \/ ask' = [ask EXCEPT ![p].owed = Up]
       \/ \E ns \in SUBSET Names :
             ask' = [ask EXCEPT ![p].owed = ns, ![p].loose = TRUE]
    /\ UNCHANGED state

TakeDown(p, n) ==
    /\ \/ Pending(p, "stop") /\ n = ask[p].name
       \/ Pending(p, "stop all")
    /\ state' = [state EXCEPT ![n] = "down"]
    /\ ask' = Sunk({n}, [ask EXCEPT ![p].owed = @ \ {n}])

\* A model that does not suit the machine is declined, which is no failure.
\* A command may fail because docker does not answer.
Answer(p) ==
    /\ ask[p].kind # "none" /\ ask[p].answer = "none"
    /\ \E a \in {"ok", "failed", "unfit", "killed"}, mute \in BOOLEAN :
          /\ a = "ok" => ask[p].owed = {}
          /\ a = "unfit" => ask[p].kind = "deploy"
          /\ mute => a = "failed"
          /\ ask' = [ask EXCEPT ![p].answer = a, ![p].elders = {},
                                ![p].loose = @ \/ mute]
    /\ UNCHANGED state

\* A model falls over by itself, and docker restarts it.
Falter(n) ==
    /\ state[n] = "up"
    /\ state' = [state EXCEPT ![n] = "faltering"]
    /\ ask' = Sunk({n}, ask)

Recover(n) ==
    /\ state[n] = "faltering"
    /\ state' = [state EXCEPT ![n] = "up"]
    /\ UNCHANGED ask

Next ==
    \/ \E p \in Procs :
          \/ Ask(p) \/ Loosen(p) \/ BringUp(p) \/ Survey(p) \/ Answer(p)
          \/ \E n \in Names : Displace(p, n) \/ TakeDown(p, n)
    \/ \E n \in Names : Falter(n) \/ Recover(n)

FleetSpec == Init /\ [][Next]_<<state, ask>>
=============================================================================
