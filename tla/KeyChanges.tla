----------------------------- MODULE KeyChanges ------------------------------
(***************************************************************************)
(* Users, their profiles, and what the policy service and the CLI change   *)
(* about them: for KeyStore, which saves the changes, and for KeyFile,     *)
(* which says what a save promises.                                        *)
(***************************************************************************)
CONSTANTS
    Users,
    Models,      \* may include Wildcard
    Wildcard,    \* "*" in a user's list of models
    Quotas,
    Clis,        \* terminals a CLI command may be typed at
    Policy,      \* the policy service
    Absent,      \* stands for a user that is not in the map
    NoCopy       \* what a process holds that has loaded nothing

Writers == Clis \cup {Policy}

Profiles == [models : SUBSET Models, quota : Quotas, hashed : BOOLEAN]

\* What a map of users, in memory or in keys.json, may hold.
Stores == [Users -> Profiles \cup {Absent}]

PolicyChanges ==
    [op : {"grant", "revoke"}, user : Users, model : Models]
        \cup [op : {"quota"}, user : Users, quota : Quotas]

CliChanges ==
    PolicyChanges \cup [op : {"add", "remove"}, user : Users]
        \cup [op : {"migrate"}]

NoChange == [op |-> "none"]

\* The writers answer with an error: no such user, or, for add, it exists.
Refused(c, users) ==
    \/ c.op = "add" /\ users[c.user] # Absent
    \/ c.op \in {"remove", "grant", "revoke", "quota"} /\ users[c.user] = Absent

\* They answer that all is done already, and save nothing.
Unneeded(p, c, users) ==
    \/ /\ c.op = "grant"
       /\ \/ c.model \in users[c.user].models
          \/ p = Policy /\ Wildcard \in users[c.user].models
    \/ c.op = "revoke" /\ p # Policy /\ c.model \notin users[c.user].models
    \/ c.op = "migrate" /\ \A u \in Users : users[u] = Absent \/ users[u].hashed

\* The CLI puts a profile it has changed back with AddUser, which hashes a
\* plaintext key; the policy service changes the profile in place.
PutBack(p, profile) == [profile EXCEPT !.hashed = @ \/ p # Policy]

\* The users after p makes change c.
Changed(p, c, users) ==
    CASE c.op = "grant" ->
            [users EXCEPT ![c.user] =
                PutBack(p, [users[c.user] EXCEPT !.models = @ \cup {c.model}])]
      [] c.op = "revoke" ->
            [users EXCEPT ![c.user] =
                PutBack(p, [users[c.user] EXCEPT !.models = @ \ {c.model}])]
      [] c.op = "quota" ->
            [users EXCEPT ![c.user] =
                PutBack(p, [users[c.user] EXCEPT !.quota = c.quota])]
      [] c.op = "add" ->
            [users EXCEPT ![c.user] =
                [models |-> {}, quota |-> 0, hashed |-> TRUE]]
      [] c.op = "remove" -> [users EXCEPT ![c.user] = Absent]
      [] c.op = "migrate" ->
            [u \in Users |-> IF users[u] = Absent THEN Absent
                             ELSE [users[u] EXCEPT !.hashed = TRUE]]
=============================================================================
