------------------------------ MODULE KeyStore ------------------------------
(***************************************************************************)
(* The key store, keys.json (core/keys/store.go), and its two kinds of     *)
(* writer: the policy service (core/management/policy/policy.go), which    *)
(* loads the file once and then answers from, changes and saves the copy   *)
(* in its memory, and the CLI (cmd/keys.go), each of whose invocations     *)
(* loads the file, changes it and saves it.  Every save is the code's      *)
(* saveLocked: marshal, flock, temporary file, fsync, rename, unlock.      *)
(*                                                                         *)
(* A save may fail at any step and a process may crash at any step; the    *)
(* kernel releases the flock of a dead process.  Requests the writers      *)
(* refuse, or answer without saving, change nothing and are left out; the  *)
(* conditions under which they do are Refused and Unneeded.                *)
(***************************************************************************)
EXTENDS KeyChanges, Naturals, FiniteSets

CONSTANTS
    Nobody,      \* no process
    Torn,        \* what is in a file a writer was still writing
    Files,       \* what keys.json may hold at first
    MaxChanges   \* bound: changes the writers begin

ASSUME KeyStoreAssumption ==
    /\ IsFiniteSet(Clis)
    /\ Policy \notin Clis
    /\ Nobody \notin Writers
    /\ Absent \notin Profiles
    /\ Torn \notin Stores
    /\ NoCopy \notin Stores
    /\ 0 \in Quotas
    /\ Files \subseteq Stores
    /\ MaxChanges \in Nat

VARIABLES
    file,      \* keys.json
    temps,     \* temporary files beside it
    lock,      \* who holds the flock of keys.json.lock
    copy,      \* each process's KeyStore.Users
    pc,        \* how far each process is in saveLocked
    change,    \* the change it is saving
    begun,     \* changes begun, counted for the bound
    fresh,     \* history: file and copy were the same and no other writer
               \* has replaced the file since, nor has a save failed
    orphans    \* history: temporary files whose writers died

vars == <<file, temps, lock, copy, pc, change, begun, fresh, orphans>>

\* Where the flock is held, and where a temporary file exists.
Holding == {"locked", "writing", "written", "renamed"}
WithTemp == {"writing", "written"}

Saving == {"marshalled"} \cup Holding

\* A process is in the middle of a save, or its memory holds a copy only if
\* it is the policy service, and that one only while it runs.
TypeOK ==
    /\ file \in Stores \cup {Torn}
    /\ temps \in Nat
    /\ lock \in Writers \cup {Nobody}
    /\ pc \in [Writers -> Saving \cup {"idle", "down"}]
    /\ copy \in [Writers -> Stores \cup {NoCopy}]
    /\ change \in [Writers -> CliChanges \cup {NoChange}]
    /\ \A p \in Clis : pc[p] # "down"
    /\ \A p \in Writers :
          /\ copy[p] # NoCopy <=> pc[p] \in Saving \/ (p = Policy /\ pc[p] = "idle")
          /\ change[p] # NoChange <=> pc[p] \in Saving
    /\ begun \in 0 .. MaxChanges
    /\ fresh \in [Writers -> BOOLEAN]
    /\ orphans \in Nat

Init ==
    /\ file \in Files
    /\ temps = 0
    /\ lock = Nobody
    /\ copy = [p \in Writers |-> IF p = Policy THEN file ELSE NoCopy]
    /\ pc = [p \in Writers |-> "idle"]
    /\ change = [p \in Writers |-> NoChange]
    /\ begun = 0
    /\ fresh = [p \in Writers |-> p = Policy]
    /\ orphans = 0

----
(* A change, up to the save                                                 *)

\* p changes users in its memory and marshals the result.
Begin(p, c, users) ==
    /\ ~Refused(c, users)
    /\ ~Unneeded(p, c, users)
    /\ begun < MaxChanges
    /\ begun' = begun + 1
    /\ copy' = [copy EXCEPT ![p] = Changed(p, c, users)]
    /\ pc' = [pc EXCEPT ![p] = "marshalled"]
    /\ change' = [change EXCEPT ![p] = c]
    /\ UNCHANGED <<file, temps, lock, orphans>>

\* Faulty variant: the store's mutex is not held during the save.
HandleUsersUnserialised(c) ==
    /\ pc[Policy] \in {"idle", "marshalled"}
    /\ Begin(Policy, c, copy[Policy])
    /\ UNCHANGED fresh

\* Faulty variant: a quota is set in memory only.
HandleUsersUnsaved(c) ==
    /\ pc[Policy] = "idle"
    /\ ~Refused(c, copy[Policy])
    /\ ~Unneeded(Policy, c, copy[Policy])
    /\ IF c.op = "quota"
       THEN /\ copy' = [copy EXCEPT ![Policy] = Changed(Policy, c, @)]
            /\ UNCHANGED <<file, temps, lock, pc, change, begun, orphans>>
       ELSE Begin(Policy, c, copy[Policy])
    /\ UNCHANGED fresh

\* handleUsers: an administrator changes a user in the policy service.
HandleUsers(c) ==
    /\ pc[Policy] = "idle"
    /\ Begin(Policy, c, copy[Policy])
    /\ UNCHANGED fresh

\* A command of `sovstack keys` loads the file and changes what it loaded.
KeysCommand(p) ==
    /\ pc[p] = "idle"
    /\ file # Torn
    /\ \E c \in CliChanges : Begin(p, c, file)
    /\ fresh' = [fresh EXCEPT ![p] = TRUE]

----
(* saveLocked                                                               *)

Lock(p) ==
    /\ pc[p] = "marshalled"
    /\ lock = Nobody
    /\ lock' = p
    /\ pc' = [pc EXCEPT ![p] = "locked"]
    /\ UNCHANGED <<file, temps, copy, change, begun, fresh, orphans>>

\* Faulty variant: keys.json is truncated and written in place, as Save does.
CreateTempInPlace(p) ==
    /\ pc[p] = "locked"
    /\ file' = Torn
    /\ pc' = [pc EXCEPT ![p] = "writing"]
    /\ temps' = temps + 1
    /\ UNCHANGED <<lock, copy, change, begun, fresh, orphans>>

\* A temporary file is created and its first bytes are written.
CreateTemp(p) ==
    /\ pc[p] = "locked"
    /\ temps' = temps + 1
    /\ pc' = [pc EXCEPT ![p] = "writing"]
    /\ UNCHANGED <<file, lock, copy, change, begun, fresh, orphans>>

\* It is complete, synced and closed.
WriteTemp(p) ==
    /\ pc[p] = "writing"
    /\ pc' = [pc EXCEPT ![p] = "written"]
    /\ UNCHANGED <<file, temps, lock, copy, change, begun, fresh, orphans>>

Rename(p) ==
    /\ pc[p] = "written"
    /\ file' = copy[p]
    /\ temps' = temps - 1
    /\ pc' = [pc EXCEPT ![p] = "renamed"]
    /\ fresh' = [q \in Writers |-> q = p]
    /\ UNCHANGED <<lock, copy, change, begun, orphans>>

\* p leaves saveLocked for pc l; a CLI process ends and forgets its copy.
Leave(p, l) ==
    /\ pc' = [pc EXCEPT ![p] = l]
    /\ change' = [change EXCEPT ![p] = NoChange]
    /\ copy' = [copy EXCEPT ![p] = IF p = Policy /\ l = "idle" THEN @ ELSE NoCopy]

Release(p) == lock' = IF lock = p THEN Nobody ELSE lock

\* The deferred unlock and close.
Unlock(p) ==
    /\ pc[p] = "renamed"
    /\ Release(p)
    /\ Leave(p, "idle")
    /\ fresh' = [fresh EXCEPT ![p] = p = Policy]
    /\ UNCHANGED <<file, temps, begun, orphans>>

\* Faulty variant: the error returns skip the unlock.
FailHoldsLock(p) ==
    /\ pc[p] \in {"marshalled", "locked"} \cup WithTemp
    /\ temps' = IF pc[p] \in WithTemp THEN temps - 1 ELSE temps
    /\ Leave(p, "idle")
    /\ fresh' = [fresh EXCEPT ![p] = FALSE]
    /\ UNCHANGED <<file, lock, begun, orphans>>

\* A step of the save fails: the temporary file is removed, the flock is
\* released, the caller gets an error.  The change stays in the memory.
Fail(p) ==
    /\ pc[p] \in {"marshalled", "locked"} \cup WithTemp
    /\ temps' = IF pc[p] \in WithTemp THEN temps - 1 ELSE temps
    /\ Release(p)
    /\ Leave(p, "idle")
    /\ fresh' = [fresh EXCEPT ![p] = FALSE]
    /\ UNCHANGED <<file, begun, orphans>>

SaveStep(p) ==
    \/ Lock(p)
    \/ CreateTemp(p)
    \/ WriteTemp(p)
    \/ Rename(p)
    \/ Unlock(p)

----
(* Crashes                                                                  *)

\* A process dies, the policy service at any time, the CLI during a save.
Crash(p) ==
    /\ pc[p] \in Saving \/ (p = Policy /\ pc[p] = "idle")
    /\ Release(p)
    /\ Leave(p, IF p = Policy THEN "down" ELSE "idle")
    /\ orphans' = IF pc[p] \in WithTemp THEN orphans + 1 ELSE orphans
    /\ fresh' = [fresh EXCEPT ![p] = FALSE]
    /\ UNCHANGED <<file, temps, begun>>

\* Faulty variant: the map of users is left nil after loading.
RestartNil ==
    /\ pc[Policy] = "down"
    /\ file # Torn
    /\ pc' = [pc EXCEPT ![Policy] = "idle"]
    /\ fresh' = [fresh EXCEPT ![Policy] = TRUE]
    /\ UNCHANGED <<file, temps, lock, copy, change, begun, orphans>>

\* The policy service starts and loads the file.
Restart ==
    /\ pc[Policy] = "down"
    /\ file # Torn
    /\ copy' = [copy EXCEPT ![Policy] = file]
    /\ pc' = [pc EXCEPT ![Policy] = "idle"]
    /\ fresh' = [fresh EXCEPT ![Policy] = TRUE]
    /\ UNCHANGED <<file, temps, lock, change, begun, orphans>>

Next ==
    \/ \E c \in PolicyChanges : HandleUsers(c)
    \/ \E p \in Clis : KeysCommand(p)
    \/ \E p \in Writers : SaveStep(p) \/ Fail(p) \/ Crash(p)
    \/ Restart

\* A save that is not failed goes on; flock gives the lock to each process
\* that waits for it, in its turn.
Spec ==
    /\ Init
    /\ [][Next]_vars
    /\ \A p \in Writers : WF_vars(SaveStep(p)) /\ SF_vars(Lock(p))

----
(* Properties                                                               *)

\* Whatever fails or crashes, and when, keys.json can be loaded: it is an old
\* store or a new one, never a half-written one (saveLocked's comment).
FileIsWhole == file # Torn

\* Temporary files do not pile up: each belongs to a save in progress or was
\* left by a crash, whatever error paths the other saves took.
TempsAccounted ==
    temps = orphans + Cardinality({p \in Writers : pc[p] \in WithTemp})

\* What the policy service answers from is what keys.json holds, and what a
\* restart would load, as long as no other process has written the file and
\* no save has failed since they last were the same.
CopyAgrees ==
    pc[Policy] = "idle" /\ fresh[Policy] => copy[Policy] = file

\* A writer whose copy was current replaces the file by that file with its own
\* change made, and nothing else: concurrent handlers do not save each other's
\* halves, and nothing of an earlier, failed save comes along.
OneChangeAtATime ==
    [][\A p \in Writers :
          fresh[p] /\ pc[p] = "written" /\ pc'[p] = "renamed"
             => file' = Changed(p, change[p], file)]_vars

\* The flock, the temporary file, the sync and the rename, with a failure or a
\* crash anywhere between them, are one step to whoever reads keys.json (which
\* nobody locks to read, store.go:407): the file is replaced by the whole of
\* what its writer has in memory, once for a change, or not at all.
Atomic == INSTANCE KeyFile
  WITH memory <- copy,
       doing <- [p \in Writers |-> IF pc[p] = "renamed" THEN NoChange ELSE change[p]]

SavesAreAtomic == Atomic!FileSpec

\* A writer does not wait for the flock for ever: every save ends, whichever
\* steps of the others fail and whoever crashes with the lock.
SavesEnd == \A p \in Writers : pc[p] \in Saving ~> pc[p] \notin Saving

\* `keys remove` ("Remove a user and revoke their API key"): a user who is not
\* in the file comes into it only by being added.  The policy service breaks
\* this: it saves its own copy, loaded before the removal.
RemovedStaysRemoved ==
    [][\A u \in Users, p \in Writers :
          file[u] = Absent /\ file'[u] # Absent /\ pc[p] # pc'[p]
             => change[p] = [op |-> "add", user |-> u]]_vars
=============================================================================
