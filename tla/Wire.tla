--------------------------------- MODULE Wire ---------------------------------
(***************************************************************************)
(* What the gateway reads off a request and off a model's response, as     *)
(* functions (core/gateway/proxy.go): the model a request is for, the path *)
(* it is forwarded with, the address it comes from, the tokens a response  *)
(* reports, and the two lists the gateway answers by itself.  Module       *)
(* Gateway takes their results as the fields of a request.                 *)
(*                                                                         *)
(* A path is the sequence of what stands between its slashes, the leading  *)
(* one left out; a body is known by its size and by what it parses to.     *)
(***************************************************************************)
EXTENDS Naturals, Sequences

CONSTANT Starts   \* pairs of a segment and one that it starts with

ASSUME WireAssumption ==
    \A pair \in Starts : Len(pair) = 2 /\ (pair[2] # "" => pair[1] # "")

First(S) == CHOOSE i \in S : \A k \in S : i <= k

-----------------------------------------------------------------------------
(* The model in the path.                                                  *)

\* Where "models" is followed by a name, and that by something else.
Routing(path) ==
    {i \in 1..Len(path) :
        i + 2 <= Len(path) /\ path[i] = "models" /\ path[i + 1] # ""}

ExtractModelNameFromPath(path) ==
    IF Routing(path) = {} THEN "" ELSE path[First(Routing(path)) + 1]

\* strings.Index, of "/models/" and the name: where the name is one, or is
\* what another name starts with.
Found(path, name) ==
    {i \in 1..Len(path) :
        i + 1 <= Len(path) /\ path[i] = "models"
        /\ (path[i + 1] = name \/ <<path[i + 1], name>> \in Starts)}

Without(path, i) == SubSeq(path, 1, i - 1) \o SubSeq(path, i + 2, Len(path))

\* Only the first place found is looked at; a longer name is left alone.
StripModelPrefixFromPath(path, name) ==
    LET i == First(Found(path, name))
    IN  IF Found(path, name) = {} \/ path[i + 1] # name THEN path
        ELSE IF Without(path, i) = <<>> THEN <<"">>
        ELSE Without(path, i)

\* director: the path a request is forwarded with.
Forwarded(path) ==
    LET name == ExtractModelNameFromPath(path)
    IN  IF name = "" THEN path ELSE StripModelPrefixFromPath(path, name)

-----------------------------------------------------------------------------
(* The model in the body.                                                  *)

Peek == 512

\* The start of a body parses only if it is the whole body; what one Read
\* returns may be less than it could.
Parses(body, read) == body.valid /\ body.size = read

\* extractModelName, when the first Read of the body returned read bytes.
ExtractModelName(path, method, body, read) ==
    LET routed == ExtractModelNameFromPath(path)
    IN  IF routed # "" THEN routed
        ELSE IF /\ method \in {"POST", "PUT"}
                /\ Parses(body, read)
                /\ body.model # ""
        THEN body.model
        ELSE "unknown"

\* What one Read may return of a body.
Reads(body) == 0..(IF body.size < Peek THEN body.size ELSE Peek)

-----------------------------------------------------------------------------
(* The caller's address; remote is the connection's, split at its colons,  *)
(* which are not only before the port if it is one of IPv6.                *)

GetClientIP(forwardedFor, realIP, remote) ==
    IF forwardedFor # <<>> THEN forwardedFor[1]
    ELSE IF realIP # "" THEN realIP
    ELSE remote[1]

-----------------------------------------------------------------------------
(* The tokens a response reports: a plain body is one payload, a stream a  *)
(* sequence of lines, of which those of data have a payload.               *)

NoUsage == [prompt |-> 0, completion |-> 0]

\* A payload that cannot be parsed, the end mark among them, reports nothing.
Usage(payload) == IF payload.valid THEN payload.usage ELSE NoUsage

Reporting(lines) ==
    {i \in 1..Len(lines) : lines[i].data /\ Usage(lines[i]) # NoUsage}

\* The stream is searched from its end.
ParseTokenUsage(lines, streaming) ==
    IF ~streaming THEN Usage(lines[1])
    ELSE IF Reporting(lines) = {} THEN NoUsage
    ELSE Usage(lines[CHOOSE i \in Reporting(lines) :
                        \A k \in Reporting(lines) : k <= i])

-----------------------------------------------------------------------------
(* The lists: models is what the registry has, by name.                    *)

\* Without a user, or without a controller of access, all are shown.
ServeModelList(models, checked, user, access) ==
    {name \in DOMAIN models : checked /\ user # "" => name \in access[user]}

\* A model whose port is not known is no target.
ServePrometheusTargets(models) ==
    {<<models[name].port, name>> : name \in {n \in DOMAIN models : models[n].port # 0}}
=============================================================================
