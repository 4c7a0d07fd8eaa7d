----------------------------- MODULE MCGateway ------------------------------
(***************************************************************************)
(* Two slots, one user with a key beside anonymous callers, two models     *)
(* that compete for one host port (m1 generates, m2 embeds), a bucket of   *)
(* one token.                                                              *)
(***************************************************************************)
EXTENDS Gateway, Wire

CONSTANTS u1, m1, m2

MCCallers == {u1, "anonymous"}
MCServes == [m \in Models |-> IF m = m1 THEN {"chat"} ELSE {"embed"}]
MCAccess == [u \in Users |-> {m1}]
MCPaths == {[model |-> m1, endpoint |-> "chat"],
            [model |-> m2, endpoint |-> "chat"],
            [model |-> m2, endpoint |-> "models"],
            [model |-> "unnamed", endpoint |-> "chat"]}

-----------------------------------------------------------------------------
(* The functions of Wire against what they are for, over all short paths,  *)
(* bodies around the limit, and short streams.                             *)

MCStarts == {<<"llama-3", "llama">>} \cup {<<s, "">> : s \in {"llama-3", "llama", "v1"}}

SomePaths ==
    UNION {[1..n -> {"models", "", "llama", "llama-3", "v1"}] : n \in 0..5}

\* A request is forwarded with exactly the name it was checked by taken out.
RoutesAgree ==
    \A path \in SomePaths :
        LET name == ExtractModelNameFromPath(path)
            at == {i \in 1..(Len(path) - 2) :
                      SubSeq(path, i, i + 1) = <<"models", name>>}
        IN  IF name = ""
            THEN \A i \in 1..(Len(path) - 2) : path[i] = "models" => path[i + 1] = ""
            ELSE \E i \in at :
                    /\ \A k \in at : i <= k
                    /\ Len(Forwarded(path)) = Len(path) - 2
                    /\ path = SubSeq(Forwarded(path), 1, i - 1) \o <<"models", name>>
                              \o SubSeq(Forwarded(path), i, Len(path) - 2)

\* A body is understood if it is read in one piece and is not too long.
BodiesAgree ==
    \A path \in {<<"v1", "chat">>, <<"models", "llama", "v1">>},
       size \in {0, 1, 512, 513}, valid \in BOOLEAN, method \in {"GET", "POST"} :
        LET body == [size |-> size, valid |-> valid, model |-> "llama"]
            Name(read) == ExtractModelName(path, method, body, read)
        IN  \A read \in Reads(body) :
                Name(read) = "llama" <=>
                    \/ path[1] = "models"
                    \/ method = "POST" /\ valid /\ size <= 512 /\ read = size

SomeLines ==
    [data : BOOLEAN, valid : BOOLEAN,
     usage : [prompt : {0, 3}, completion : {0, 5}]]

\* What a stream reports does not depend on what follows the last report.
StreamsAgree ==
    \A n \in 1..2 : \A lines \in [1..n -> SomeLines], last \in SomeLines :
        ParseTokenUsage(Append(lines, last), TRUE) =
            IF last.data /\ Usage(last) # NoUsage
            THEN last.usage ELSE ParseTokenUsage(lines, TRUE)

\* The lists tell a user what the checks would let through.
ListsAgree ==
    \A held \in SUBSET Models :
        LET models == [name \in held |-> [port |-> IF name = m1 THEN 0 ELSE 1]]
        IN  /\ ServeModelList(models, TRUE, u1, MCAccess) = held \cap MCAccess[u1]
            /\ ServeModelList(models, TRUE, "", MCAccess) = held
            /\ ServePrometheusTargets(models) = {<<1, name>> : name \in held \ {m1}}

ASSUME WireAgrees == RoutesAgree /\ BodiesAgree /\ StreamsAgree /\ ListsAgree
=============================================================================
