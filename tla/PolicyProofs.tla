---------------------------- MODULE PolicyProofs -----------------------------
(***************************************************************************)
(* What holds of the key store and of the policy service around it for     *)
(* every set of users, models, terminals, administrators and handlers.     *)
(***************************************************************************)
EXTENDS PolicyService, FiniteSetTheorems, TLAPS

Unrenamed == {"marshalled", "locked", "writing", "written"}

(* A copy that is fresh is what keys.json holds, or that with the change    *)
(* that is being saved.                                                     *)
FreshInv ==
    \A p \in Writers :
        fresh[p] =>
            /\ pc[p] \in Unrenamed => copy[p] = Changed(p, change[p], file)
            /\ p = Policy /\ pc[p] = "idle" => copy[p] = file

(* The flock is held by one writer at a time, and what one has renamed is   *)
(* what keys.json holds until it gives the flock back.                      *)
LockInv ==
    \A p \in Writers :
        /\ pc[p] \in Holding => lock = p
        /\ pc[p] = "renamed" => copy[p] = file

StoreInv == TypeOK /\ FileIsWhole /\ TempsAccounted /\ FreshInv /\ LockInv

----
(* The changes                                                              *)

(* A change that is not refused turns a store into a store.                 *)
LEMMA ChangedIsStore ==
    ASSUME NEW p \in Writers, NEW c \in CliChanges, NEW users \in Stores,
           ~Refused(c, users)
    PROVE  Changed(p, c, users) \in Stores
<1>1. CASE c.op = "grant"
  <2>1. c.user \in Users /\ c.model \in Models /\ users[c.user] \in Profiles
    BY <1>1 DEF Refused, CliChanges, PolicyChanges, Stores
  <2>2. PutBack(p, [users[c.user] EXCEPT !.models = @ \cup {c.model}]) \in Profiles
    BY <2>1 DEF PutBack, Profiles
  <2>3. Changed(p, c, users) =
          [users EXCEPT ![c.user] =
             PutBack(p, [users[c.user] EXCEPT !.models = @ \cup {c.model}])]
    BY <1>1 DEF Changed
  <2>. QED BY <2>1, <2>2, <2>3 DEF Stores
<1>2. CASE c.op = "revoke"
  <2>1. c.user \in Users /\ c.model \in Models /\ users[c.user] \in Profiles
    BY <1>2 DEF Refused, CliChanges, PolicyChanges, Stores
  <2>2. PutBack(p, [users[c.user] EXCEPT !.models = @ \ {c.model}]) \in Profiles
    BY <2>1 DEF PutBack, Profiles
  <2>3. Changed(p, c, users) =
          [users EXCEPT ![c.user] =
             PutBack(p, [users[c.user] EXCEPT !.models = @ \ {c.model}])]
    BY <1>2 DEF Changed
  <2>. QED BY <2>1, <2>2, <2>3 DEF Stores
<1>3. CASE c.op = "quota"
  <2>1. c.user \in Users /\ c.quota \in Quotas /\ users[c.user] \in Profiles
    BY <1>3 DEF Refused, CliChanges, PolicyChanges, Stores
  <2>2. PutBack(p, [users[c.user] EXCEPT !.quota = c.quota]) \in Profiles
    BY <2>1 DEF PutBack, Profiles
  <2>3. Changed(p, c, users) =
          [users EXCEPT ![c.user] =
             PutBack(p, [users[c.user] EXCEPT !.quota = c.quota])]
    BY <1>3, <2>1 DEF Changed, Stores
  <2>. QED BY <2>1, <2>2, <2>3 DEF Stores
<1>4. CASE c.op = "add"
  <2>1. [models |-> {}, quota |-> 0, hashed |-> TRUE] \in Profiles
    BY KeyStoreAssumption DEF Profiles
  <2>2. Changed(p, c, users) =
          [users EXCEPT ![c.user] =
             [models |-> {}, quota |-> 0, hashed |-> TRUE]]
    BY <1>4 DEF Changed
  <2>. QED BY <2>1, <2>2 DEF Stores
<1>5. CASE c.op = "remove"
  BY <1>5 DEF Changed, Stores
<1>6. CASE c.op = "migrate"
  <2>1. \A u \in Users : users[u] = Absent \/ [users[u] EXCEPT !.hashed = TRUE] \in Profiles
    BY DEF Stores, Profiles
  <2>2. Changed(p, c, users) =
          [u \in Users |-> IF users[u] = Absent THEN Absent
                           ELSE [users[u] EXCEPT !.hashed = TRUE]]
    BY <1>6 DEF Changed
  <2>. QED BY <2>1, <2>2 DEF Stores
<1>. QED BY <1>1, <1>2, <1>3, <1>4, <1>5, <1>6 DEF CliChanges, PolicyChanges

LEMMA NoChangeIsNone == NoChange \notin CliChanges
  BY DEF NoChange, CliChanges, PolicyChanges

----
(* Temporary files                                                          *)

Temping == {p \in Writers : pc[p] \in WithTemp}

LEMMA TempingFinite == IsFiniteSet(Temping)
<1>1. IsFiniteSet(Writers)
  BY KeyStoreAssumption, FS_AddElement DEF Writers
<1>. QED BY <1>1, FS_Subset DEF Temping

(* A writer whose step begins or ends a temporary file is counted.          *)
LEMMA TempingCounted ==
    ASSUME NEW p \in Writers, NEW l, pc \in [Writers -> Saving \cup {"idle", "down"}],
           pc' = [pc EXCEPT ![p] = l]
    PROVE  /\ Cardinality(Temping) \in Nat
           /\ pc[p] \notin WithTemp /\ l \in WithTemp =>
                 Cardinality(Temping') = Cardinality(Temping) + 1
           /\ pc[p] \in WithTemp /\ l \notin WithTemp =>
                 /\ Cardinality(Temping') = Cardinality(Temping) - 1
                 /\ Cardinality(Temping) >= 1
           /\ (pc[p] \in WithTemp <=> l \in WithTemp) => Temping' = Temping
<1>1. IsFiniteSet(Temping) /\ Cardinality(Temping) \in Nat
  BY TempingFinite, FS_CardinalityType
<1>2. ASSUME pc[p] \notin WithTemp, l \in WithTemp
      PROVE  Cardinality(Temping') = Cardinality(Temping) + 1
  <2>1. Temping' = Temping \cup {p} /\ p \notin Temping
    BY <1>2 DEF Temping
  <2>. QED BY <2>1, <1>1, FS_AddElement
<1>3. ASSUME pc[p] \in WithTemp, l \notin WithTemp
      PROVE  /\ Cardinality(Temping') = Cardinality(Temping) - 1
             /\ Cardinality(Temping) >= 1
  <2>1. Temping' = Temping \ {p} /\ p \in Temping
    BY <1>3 DEF Temping
  <2>2. Cardinality(Temping') = Cardinality(Temping) - 1
    BY <2>1, <1>1, FS_RemoveElement
  <2>3. Cardinality(Temping) # 0
    BY <2>1, <1>1, FS_EmptySet
  <2>. QED BY <1>1, <2>2, <2>3
<1>4. ASSUME pc[p] \in WithTemp <=> l \in WithTemp
      PROVE  Temping' = Temping
  BY <1>4 DEF Temping
<1>. QED BY <1>1, <1>2, <1>3, <1>4

----
(* The key store                                                            *)

LEMMA StoreInit == Init => StoreInv
<1>. SUFFICES ASSUME Init PROVE StoreInv
  OBVIOUS
<1>1. file \in Stores /\ Torn \notin Stores /\ NoCopy \notin Stores
  BY KeyStoreAssumption DEF Init
<1>2. TypeOK
  BY <1>1, KeyStoreAssumption, NoChangeIsNone
  DEF Init, TypeOK, Saving, Holding, Writers
<1>3. FileIsWhole /\ FreshInv /\ LockInv
  BY <1>1 DEF Init, FileIsWhole, FreshInv, LockInv, Unrenamed, Holding
<1>4. Temping = {}
  BY DEF Init, Temping, WithTemp
<1>5. TempsAccounted
  BY <1>4, FS_EmptySet DEF Init, TempsAccounted, Temping
<1>. QED BY <1>2, <1>3, <1>5 DEF StoreInv

(* What beginning a change leaves.                                          *)
LEMMA BeginKeeps ==
    ASSUME StoreInv, NEW p \in Writers, NEW c \in CliChanges,
           NEW users \in Stores, pc[p] = "idle", Begin(p, c, users),
           fresh' \in [Writers -> BOOLEAN],
           \A q \in Writers \ {p} : fresh'[q] = fresh[q],
           fresh'[p] => users = file
    PROVE  StoreInv'
<1>1. Changed(p, c, users) \in Stores
  BY ChangedIsStore DEF Begin
<1>2. NoCopy \notin Stores /\ NoChange \notin CliChanges
  BY KeyStoreAssumption, NoChangeIsNone
<1>3. TypeOK'
  BY <1>1, <1>2, KeyStoreAssumption DEF StoreInv, TypeOK, Begin, Saving, Holding, Writers
<1>4. FileIsWhole'
  BY DEF StoreInv, FileIsWhole, Begin
<1>5. FreshInv'
  <2>. SUFFICES ASSUME NEW q \in Writers, fresh'[q]
                PROVE  /\ pc'[q] \in Unrenamed =>
                             copy'[q] = Changed(q, change'[q], file')
                       /\ q = Policy /\ pc'[q] = "idle" => copy'[q] = file'
    BY DEF FreshInv, Changed, PutBack
  <2>1. CASE q = p
    BY <2>1 DEF StoreInv, TypeOK, Begin
  <2>2. CASE q # p
    BY <2>2 DEF StoreInv, TypeOK, Begin, FreshInv
  <2>. QED BY <2>1, <2>2
<1>6. TempsAccounted'
  <2>1. Temping' = Temping
    BY DEF StoreInv, TypeOK, Begin, Temping, WithTemp
  <2>. QED BY <2>1 DEF StoreInv, TempsAccounted, Begin, Temping
<1>7. LockInv'
  BY DEF StoreInv, TypeOK, LockInv, Begin, Holding
<1>. QED BY <1>3, <1>4, <1>5, <1>6, <1>7 DEF StoreInv

(* Where a save goes on without the file, its temporary files or its copy.  *)
LEMMA SaveStepKeeps ==
    ASSUME StoreInv, NEW p \in Writers, SaveStep(p)
    PROVE  StoreInv'
<1>. USE DEF StoreInv
<1>0. pc \in [Writers -> Saving \cup {"idle", "down"}]
  BY DEF TypeOK
<1>1. CASE Lock(p)
  <2>1. TypeOK' /\ FileIsWhole'
    BY <1>1 DEF Lock, TypeOK, FileIsWhole, Saving, Holding
  <2>2. FreshInv'
    BY <1>1 DEF Lock, TypeOK, FreshInv, Unrenamed, Changed, PutBack
  <2>3. Temping' = Temping
    <3>1. /\ pc' = [pc EXCEPT ![p] = "locked"]
          /\ pc[p] \notin WithTemp /\ "locked" \notin WithTemp
      BY <1>1 DEF Lock, WithTemp
    <3>. QED BY <1>0, <3>1, TempingCounted
  <2>4. LockInv'
    BY <1>1, KeyStoreAssumption DEF Lock, TypeOK, LockInv, Holding
  <2>. QED BY <1>1, <2>1, <2>2, <2>3, <2>4 DEF Lock, TempsAccounted, Temping
<1>2. CASE CreateTemp(p)
  <2>1. TypeOK' /\ FileIsWhole'
    BY <1>2 DEF CreateTemp, TypeOK, FileIsWhole, Saving, Holding
  <2>2. FreshInv'
    BY <1>2 DEF CreateTemp, TypeOK, FreshInv, Unrenamed, Changed, PutBack
  <2>3. Cardinality(Temping') = Cardinality(Temping) + 1 /\ Cardinality(Temping) \in Nat
    BY <1>2, TempingCounted DEF CreateTemp, TypeOK, WithTemp
  <2>4. TempsAccounted'
    BY <1>2, <2>3 DEF CreateTemp, TempsAccounted, Temping, TypeOK
  <2>5. LockInv'
    BY <1>2 DEF CreateTemp, TypeOK, LockInv, Holding
  <2>. QED BY <2>1, <2>2, <2>4, <2>5
<1>3. CASE WriteTemp(p)
  <2>1. TypeOK' /\ FileIsWhole'
    BY <1>3 DEF WriteTemp, TypeOK, FileIsWhole, Saving, Holding
  <2>2. FreshInv'
    BY ZenonT(30), <1>3 DEF WriteTemp, TypeOK, FreshInv, Unrenamed, Changed, PutBack
  <2>3. Temping' = Temping
    <3>1. /\ pc' = [pc EXCEPT ![p] = "written"]
          /\ pc[p] \in WithTemp /\ "written" \in WithTemp
      BY <1>3 DEF WriteTemp, WithTemp
    <3>. QED BY <1>0, <3>1, TempingCounted
  <2>4. LockInv'
    BY <1>3 DEF WriteTemp, TypeOK, LockInv, Holding
  <2>. QED BY <1>3, <2>1, <2>2, <2>3, <2>4 DEF WriteTemp, TempsAccounted, Temping
<1>4. CASE Rename(p)
  <2>1. copy[p] \in Stores
    BY <1>4 DEF Rename, TypeOK, Saving, Holding
  <2>2. /\ Cardinality(Temping') = Cardinality(Temping) - 1
        /\ Cardinality(Temping) >= 1
        /\ Cardinality(Temping) \in Nat
    <3>1. /\ pc' = [pc EXCEPT ![p] = "renamed"]
          /\ pc[p] \in WithTemp /\ "renamed" \notin WithTemp
      BY <1>4 DEF Rename, WithTemp
    <3>. QED BY <1>0, <3>1, TempingCounted
  <2>3. temps = orphans + Cardinality(Temping) /\ orphans \in Nat
    BY DEF TempsAccounted, Temping, TypeOK
  <2>4. temps' \in Nat
    BY <1>4, <2>2, <2>3 DEF Rename
  <2>5. TypeOK' /\ FileIsWhole'
    BY <1>4, <2>1, <2>4, KeyStoreAssumption
    DEF Rename, TypeOK, FileIsWhole, Saving, Holding
  <2>6. FreshInv'
    BY <1>4 DEF Rename, TypeOK, FreshInv, Unrenamed
  <2>7. TempsAccounted'
    BY <1>4, <2>2, <2>3 DEF Rename, TempsAccounted, Temping
  <2>8. LockInv'
    BY <1>4 DEF Rename, TypeOK, LockInv, Holding
  <2>. QED BY <2>5, <2>6, <2>7, <2>8
<1>5. CASE Unlock(p)
  <2>1. TypeOK' /\ FileIsWhole'
    BY <1>5, NoChangeIsNone DEF Unlock, Leave, Release, TypeOK, FileIsWhole, Saving, Holding, Writers
  <2>2. FreshInv'
    <3>1. /\ pc' = [pc EXCEPT ![p] = "idle"] /\ file' = file
          /\ fresh' = [fresh EXCEPT ![p] = p = Policy]
          /\ p = Policy => copy'[p] = file
          /\ \A q \in Writers \ {p} :
                copy'[q] = copy[q] /\ change'[q] = change[q]
      BY <1>5 DEF Unlock, Leave, TypeOK, LockInv
    <3>2. SUFFICES ASSUME NEW q \in Writers, fresh'[q]
                   PROVE  /\ pc'[q] \in Unrenamed =>
                                copy'[q] = Changed(q, change'[q], file')
                          /\ q = Policy /\ pc'[q] = "idle" => copy'[q] = file'
      BY DEF FreshInv, Changed, PutBack
    <3>3. CASE q = p
      BY <3>1, <3>3 DEF TypeOK, Unrenamed
    <3>4. CASE q # p
      <4>1. fresh'[q] = fresh[q] /\ pc'[q] = pc[q]
        BY <3>1, <3>4 DEF TypeOK
      <4>2. fresh[q]
        BY <3>2, <4>1, Zenon
      <4>. QED BY <3>1, <3>4, <4>1, <4>2 DEF FreshInv
    <3>. QED BY <3>3, <3>4
  <2>3. Temping' = Temping
    <3>1. /\ pc' = [pc EXCEPT ![p] = "idle"]
          /\ pc[p] \notin WithTemp /\ "idle" \notin WithTemp
      BY <1>5 DEF Unlock, Leave, WithTemp
    <3>. QED BY <1>0, <3>1, TempingCounted
  <2>4. LockInv'
    BY <1>5 DEF Unlock, Leave, Release, TypeOK, LockInv, Holding
  <2>. QED BY <1>5, <2>1, <2>2, <2>3, <2>4 DEF Unlock, TempsAccounted, Temping
<1>. QED BY <1>1, <1>2, <1>3, <1>4, <1>5 DEF SaveStep

LEMMA FailKeeps ==
    ASSUME StoreInv, NEW p \in Writers, Fail(p)
    PROVE  StoreInv'
<1>. USE DEF StoreInv
<1>1. temps = orphans + Cardinality(Temping) /\ orphans \in Nat
  BY DEF TempsAccounted, Temping, TypeOK
<1>2. /\ Cardinality(Temping) \in Nat
      /\ pc[p] \in WithTemp =>
            /\ Cardinality(Temping') = Cardinality(Temping) - 1
            /\ Cardinality(Temping) >= 1
      /\ pc[p] \notin WithTemp => Temping' = Temping
  <2>1. pc' = [pc EXCEPT ![p] = "idle"] /\ "idle" \notin WithTemp
    BY DEF Fail, Leave, WithTemp
  <2>. QED BY <2>1, TempingCounted DEF TypeOK
<1>3. temps' \in Nat
  BY <1>1, <1>2 DEF Fail, TypeOK
<1>4. TypeOK' /\ FileIsWhole'
  BY <1>3, NoChangeIsNone DEF Fail, Leave, Release, TypeOK, FileIsWhole, Saving, Holding, Writers, WithTemp
<1>5. FreshInv'
  BY ZenonT(30) DEF Fail, Leave, TypeOK, FreshInv, Unrenamed, Changed, PutBack
<1>6. TempsAccounted'
  <2>1. temps' = orphans + Cardinality(Temping')
    BY <1>1, <1>2 DEF Fail
  <2>. QED BY <2>1 DEF Fail, TempsAccounted, Temping
<1>7. LockInv'
  BY DEF Fail, Leave, Release, TypeOK, LockInv, Holding
<1>. QED BY <1>4, <1>5, <1>6, <1>7

LEMMA CrashKeeps ==
    ASSUME StoreInv, NEW p \in Writers, Crash(p)
    PROVE  StoreInv'
<1>. USE DEF StoreInv
<1>. DEFINE l == IF p = Policy THEN "down" ELSE "idle"
<1>1. temps = orphans + Cardinality(Temping) /\ orphans \in Nat
  BY DEF TempsAccounted, Temping, TypeOK
<1>2. /\ Cardinality(Temping) \in Nat
      /\ pc[p] \in WithTemp =>
            /\ Cardinality(Temping') = Cardinality(Temping) - 1
            /\ Cardinality(Temping) >= 1
      /\ pc[p] \notin WithTemp => Temping' = Temping
  <2>1. l \notin WithTemp /\ pc' = [pc EXCEPT ![p] = l]
    BY DEF Crash, Leave, WithTemp
  <2>. QED BY <2>1, TempingCounted DEF TypeOK
<1>3. TypeOK' /\ FileIsWhole'
  <2>1. pc' = [pc EXCEPT ![p] = l] /\ pc[p] # "down"
    BY DEF Crash, Leave, Saving, Holding
  <2>2. pc' \in [Writers -> Saving \cup {"idle", "down"}] /\ \A q \in Clis : pc'[q] # "down"
    BY <2>1, KeyStoreAssumption DEF TypeOK, Writers
  <2>3. copy' = [copy EXCEPT ![p] = NoCopy] /\ change' = [change EXCEPT ![p] = NoChange]
    BY DEF Crash, Leave
  <2>4. /\ copy' \in [Writers -> Stores \cup {NoCopy}]
        /\ change' \in [Writers -> CliChanges \cup {NoChange}]
    BY <2>3 DEF TypeOK
  <2>5. \A q \in Writers :
          /\ copy'[q] # NoCopy <=>
                pc'[q] \in Saving \/ (q = Policy /\ pc'[q] = "idle")
          /\ change'[q] # NoChange <=> pc'[q] \in Saving
    BY <2>1, <2>3 DEF TypeOK, Saving, Holding
  <2>6. lock' \in Writers \cup {Nobody} /\ fresh' \in [Writers -> BOOLEAN] /\ orphans' \in Nat
    BY DEF Crash, Release, TypeOK
  <2>. QED BY <2>2, <2>4, <2>5, <2>6 DEF Crash, TypeOK, FileIsWhole
<1>4. FreshInv'
  <2>1. /\ fresh' = [fresh EXCEPT ![p] = FALSE]
        /\ file' = file
        /\ \A q \in Writers \ {p} :
              pc'[q] = pc[q] /\ copy'[q] = copy[q] /\ change'[q] = change[q]
    BY DEF Crash, Leave, TypeOK
  <2>2. SUFFICES ASSUME NEW q \in Writers, fresh'[q]
                 PROVE  /\ pc'[q] \in Unrenamed =>
                              copy'[q] = Changed(q, change'[q], file')
                        /\ q = Policy /\ pc'[q] = "idle" => copy'[q] = file'
    BY DEF FreshInv, Changed, PutBack
  <2>3. fresh'[p] = FALSE /\ (q # p => fresh'[q] = fresh[q])
    BY <2>1 DEF TypeOK
  <2>4. q # p /\ fresh[q]
    BY <2>2, <2>3, Zenon
  <2>. QED BY <2>1, <2>4 DEF FreshInv
<1>5. TempsAccounted'
  <2>1. temps' = orphans' + Cardinality(Temping')
    BY <1>1, <1>2 DEF Crash
  <2>. QED BY <2>1 DEF TempsAccounted, Temping
<1>6. LockInv'
  BY DEF Crash, Leave, Release, TypeOK, LockInv, Holding
<1>. QED BY <1>3, <1>4, <1>5, <1>6

LEMMA StoreStep == StoreInv /\ [Next]_vars => StoreInv'
<1>. SUFFICES ASSUME StoreInv, [Next]_vars PROVE StoreInv'
  OBVIOUS
<1>0. Policy \in Writers
  BY DEF Writers
<1>1. ASSUME NEW c \in PolicyChanges, HandleUsers(c) PROVE StoreInv'
  <2>1. c \in CliChanges /\ copy[Policy] \in Stores
    BY <1>0, <1>1 DEF StoreInv, TypeOK, HandleUsers, CliChanges
  <2>2. fresh[Policy] => copy[Policy] = file
    BY <1>0, <1>1 DEF StoreInv, FreshInv, HandleUsers
  <2>3. /\ pc[Policy] = "idle"
        /\ Begin(Policy, c, copy[Policy])
        /\ fresh' = fresh
    BY <1>1 DEF HandleUsers
  <2>. QED BY <1>0, <2>1, <2>2, <2>3, BeginKeeps DEF StoreInv, TypeOK
<1>2. ASSUME NEW p \in Clis, KeysCommand(p) PROVE StoreInv'
  <2>1. p \in Writers /\ file \in Stores
    BY <1>2 DEF Writers, StoreInv, TypeOK, FileIsWhole
  <2>2. PICK c \in CliChanges : Begin(p, c, file)
    BY <1>2 DEF KeysCommand
  <2>3. pc[p] = "idle" /\ fresh' = [fresh EXCEPT ![p] = TRUE]
    BY <1>2 DEF KeysCommand
  <2>. QED BY <2>1, <2>2, <2>3, BeginKeeps DEF StoreInv, TypeOK
<1>3. ASSUME NEW p \in Writers, SaveStep(p) \/ Fail(p) \/ Crash(p) PROVE StoreInv'
  BY <1>3, SaveStepKeeps, FailKeeps, CrashKeeps
<1>4. CASE Restart
  <2>1. TypeOK' /\ FileIsWhole'
    BY <1>0, <1>4, KeyStoreAssumption DEF Restart, StoreInv, TypeOK, FileIsWhole, Writers, Saving, Holding
  <2>2. FreshInv'
    BY <1>0, <1>4 DEF Restart, StoreInv, TypeOK, FreshInv, Unrenamed, Changed, PutBack
  <2>3. Temping' = Temping
    <3>1. /\ pc' = [pc EXCEPT ![Policy] = "idle"]
          /\ pc[Policy] \notin WithTemp /\ "idle" \notin WithTemp
      BY <1>4 DEF Restart, WithTemp
    <3>2. pc \in [Writers -> Saving \cup {"idle", "down"}]
      BY DEF StoreInv, TypeOK
    <3>. QED BY <1>0, <3>1, <3>2, TempingCounted
  <2>4. LockInv'
    BY <1>0, <1>4 DEF Restart, StoreInv, TypeOK, LockInv, Holding
  <2>. QED BY <1>4, <2>1, <2>2, <2>3, <2>4 DEF Restart, StoreInv, TempsAccounted, Temping
<1>5. CASE UNCHANGED vars
  BY <1>5 DEF vars, StoreInv, TypeOK, FileIsWhole, FreshInv, LockInv, Changed, PutBack, TempsAccounted
<1>. QED BY <1>1, <1>2, <1>3, <1>4, <1>5 DEF Next

----
(* A save is one step of KeyFile                                            *)

Doing == [p \in Writers |-> IF pc[p] = "renamed" THEN NoChange ELSE change[p]]

LEMMA ChangesAreTheSame ==
    /\ \A p, c, users :
          /\ Atomic!Changed(p, c, users) = Changed(p, c, users)
          /\ Atomic!Refused(c, users) <=> Refused(c, users)
          /\ Atomic!Unneeded(p, c, users) <=> Unneeded(p, c, users)
    /\ Atomic!Writers = Writers /\ Atomic!NoChange = NoChange
    /\ Atomic!PolicyChanges = PolicyChanges /\ Atomic!CliChanges = CliChanges
    /\ Atomic!Stores = Stores
<1>1. \A p, c, users :
        /\ Atomic!Changed(p, c, users) = Changed(p, c, users)
        /\ Atomic!Refused(c, users) <=> Refused(c, users)
        /\ Atomic!Unneeded(p, c, users) <=> Unneeded(p, c, users)
  BY DEF Atomic!Changed, Atomic!PutBack, Atomic!Refused, Atomic!Unneeded,
         Changed, PutBack, Refused, Unneeded
<1>. QED BY <1>1
  DEF Atomic!Writers, Atomic!NoChange, Atomic!PolicyChanges, Atomic!CliChanges,
      Atomic!Stores, Atomic!Profiles, Writers, NoChange, PolicyChanges, CliChanges,
      Stores, Profiles

(* The place of one writer in its save says what it still has to put.       *)
LEMMA OneWriterMoves ==
    ASSUME TypeOK, NEW p \in Writers, NEW l, NEW c,
           pc' = [pc EXCEPT ![p] = l], change' = [change EXCEPT ![p] = c]
    PROVE  Doing' = [Doing EXCEPT ![p] = IF l = "renamed" THEN NoChange ELSE c]
  BY DEF TypeOK, Doing, NoChange

LEMMA BeginEdits ==
    ASSUME StoreInv, NEW p \in Writers, NEW c \in CliChanges, pc[p] = "idle",
           p = Policy => c \in PolicyChanges,
           Begin(p, c, IF p = Policy THEN copy[p] ELSE file)
    PROVE  Atomic!Next
<1>. DEFINE users == IF p = Policy THEN copy[p] ELSE file
<1>1. /\ Doing[p] = NoChange
      /\ copy[p] = NoCopy <=> p # Policy
  BY DEF StoreInv, TypeOK, Doing, Saving, Holding
<1>2. ~Atomic!Refused(c, users) /\ ~Atomic!Unneeded(p, c, users)
  BY ChangesAreTheSame DEF Begin
<1>3. copy' = [copy EXCEPT ![p] = Atomic!Changed(p, c, users)] /\ file' = file
  BY ChangesAreTheSame DEF Begin
<1>4. Doing' = [Doing EXCEPT ![p] = c]
  <2>1. /\ pc' = [pc EXCEPT ![p] = "marshalled"]
        /\ change' = [change EXCEPT ![p] = c]
    BY DEF Begin
  <2>. QED BY <2>1, OneWriterMoves DEF StoreInv
<1>5. Atomic!Edit(p, c)
  BY <1>1, <1>2, <1>3, <1>4, ChangesAreTheSame DEF Atomic!Edit, Doing
<1>6. p = Policy \/ p \in Clis
  BY DEF Writers
<1>. QED BY <1>5, <1>6, ChangesAreTheSame DEF Atomic!Next

(* Before the rename a save is invisible; the rename puts.                  *)
LEMMA SaveStepPuts ==
    ASSUME StoreInv, NEW p \in Writers, SaveStep(p)
    PROVE  Atomic!Put(p) \/ Atomic!Forget(p) \/ UNCHANGED <<file, copy, Doing>>
<1>. USE DEF StoreInv
<1>1. change = [change EXCEPT ![p] = @]
  BY DEF TypeOK
<1>2. ASSUME NEW l \in {"locked", "writing", "written"}, pc[p] # "renamed",
             pc' = [pc EXCEPT ![p] = l], change' = change
      PROVE  Doing' = Doing
  <2>1. Doing' = [Doing EXCEPT ![p] = change[p]]
    BY <1>1, <1>2, OneWriterMoves
  <2>. QED BY <1>2, <2>1 DEF Doing
<1>3. CASE Lock(p) \/ CreateTemp(p) \/ WriteTemp(p)
  BY <1>2, <1>3 DEF Lock, CreateTemp, WriteTemp
<1>4. CASE Rename(p)
  <2>1. Doing' = [Doing EXCEPT ![p] = NoChange]
    BY <1>1, <1>4, OneWriterMoves DEF Rename
  <2>2. Doing[p] # NoChange
    BY <1>4 DEF Rename, Doing, TypeOK, Saving, Holding
  <2>. QED BY <1>4, <2>1, <2>2, ChangesAreTheSame DEF Rename, Atomic!Put, Doing
<1>5. CASE Unlock(p)
  <2>1. Doing' = [Doing EXCEPT ![p] = NoChange]
    BY <1>5, OneWriterMoves DEF Unlock, Leave
  <2>2. Doing[p] = NoChange
    BY <1>5 DEF Unlock, Doing
  <2>3. Doing' = Doing
    BY <2>1, <2>2 DEF Doing
  <2>4. copy' = IF p = Policy THEN copy ELSE [copy EXCEPT ![p] = NoCopy]
    BY <1>5 DEF Unlock, Leave, TypeOK
  <2>5. file' = file
    BY <1>5 DEF Unlock
  <2>. QED BY <2>2, <2>3, <2>4, <2>5, ChangesAreTheSame DEF Atomic!Forget, Doing
<1>. QED BY <1>3, <1>4, <1>5 DEF SaveStep

(* A save that is left before its rename is given up.                       *)
LEMMA LeavingGivesUp ==
    ASSUME StoreInv, NEW p \in Writers, Fail(p) \/ Crash(p)
    PROVE  Atomic!GiveUp(p) \/ Atomic!Forget(p)
<1>. USE DEF StoreInv
<1>1. Doing' = [Doing EXCEPT ![p] = NoChange]
  <2>1. PICK l \in {"idle", "down"} : Leave(p, l)
    BY DEF Fail, Crash
  <2>. QED BY <2>1, OneWriterMoves DEF Leave
<1>2. file' = file
  BY DEF Fail, Crash
<1>3. /\ copy' = [copy EXCEPT ![p] = NoCopy] \/ (p = Policy /\ copy' = copy)
      /\ Crash(p) => copy' = [copy EXCEPT ![p] = NoCopy]
  BY DEF Fail, Crash, Leave, TypeOK
<1>4. CASE Doing[p] # NoChange
  BY <1>1, <1>2, <1>3, <1>4, ChangesAreTheSame DEF Atomic!GiveUp, Doing
<1>5. CASE Doing[p] = NoChange
  <2>1. ~Fail(p)
    BY <1>5 DEF Fail, Doing, TypeOK, Saving, Holding, WithTemp
  <2>2. Doing' = Doing
    BY <1>1, <1>5 DEF Doing
  <2>. QED BY <1>2, <1>3, <1>5, <2>1, <2>2, ChangesAreTheSame DEF Atomic!Forget, Doing
<1>. QED BY <1>4, <1>5

(* Whoever reads keys.json sees whole saves, put one after the other.        *)
THEOREM StoreImplementsFile == Init /\ [][Next]_vars => SavesAreAtomic
<1>1. Init => Atomic!Init
  <2>. SUFFICES ASSUME Init PROVE Atomic!Init
    OBVIOUS
  <2>1. file \in Stores
    BY KeyStoreAssumption DEF Init
  <2>. QED BY <2>1, ChangesAreTheSame DEF Init, Atomic!Init
<1>2. StoreInv /\ [Next]_vars => [Atomic!Next]_(Atomic!fileVars)
  <2>. SUFFICES ASSUME StoreInv, [Next]_vars
                PROVE  Atomic!Next \/ UNCHANGED <<file, copy, Doing>>
    BY ChangesAreTheSame DEF Atomic!fileVars, Doing
  <2>0. Policy \in Writers /\ Clis \subseteq Writers /\ Policy \notin Clis
    BY KeyStoreAssumption DEF Writers
  <2>1. ASSUME NEW c \in PolicyChanges, HandleUsers(c)
        PROVE  Atomic!Next
    <3>1. c \in CliChanges
      BY DEF CliChanges
    <3>. QED BY <2>0, <2>1, <3>1, BeginEdits DEF HandleUsers
  <2>2. ASSUME NEW p \in Clis, KeysCommand(p)
        PROVE  Atomic!Next
    <3>1. PICK c \in CliChanges : Begin(p, c, file)
      BY <2>2 DEF KeysCommand
    <3>. QED BY <2>0, <2>2, <3>1, BeginEdits DEF KeysCommand
  <2>3. ASSUME NEW p \in Writers, SaveStep(p) \/ Fail(p) \/ Crash(p)
        PROVE  Atomic!Next \/ UNCHANGED <<file, copy, Doing>>
    BY <2>3, SaveStepPuts, LeavingGivesUp, ChangesAreTheSame DEF Atomic!Next
  <2>4. CASE Restart
    <3>1. copy[Policy] = NoCopy
      BY <2>0, <2>4 DEF Restart, StoreInv, TypeOK, Saving, Holding
    <3>2. Doing' = Doing
      BY <2>0, <2>4 DEF Restart, StoreInv, TypeOK, Doing
    <3>3. Atomic!Load
      BY <2>4, <3>1, <3>2, ChangesAreTheSame DEF Restart, Atomic!Load, Doing
    <3>. QED BY <3>3 DEF Atomic!Next
  <2>5. CASE UNCHANGED vars
    BY <2>5 DEF vars, Doing
  <2>. QED BY <2>1, <2>2, <2>3, <2>4, <2>5 DEF Next
<1>. QED BY <1>1, <1>2, StoreInit, StoreStep, PTL DEF SavesAreAtomic, Atomic!FileSpec

----
(* The policy service                                                       *)

(* Every step of the policy service is one of the key store, or none.       *)
LEMMA ServiceStepIsStoreStep == [PolicyNext]_allVars => [Next]_vars
<1>. SUFFICES ASSUME [PolicyNext]_allVars PROVE [Next]_vars
  OBVIOUS
<1>1. ASSUME NEW b \in Browsers,
             HandleLogin(b) \/ HandleCallback(b) \/ HandleLogout(b) \/ Expire(b)
      PROVE  UNCHANGED vars
  BY <1>1 DEF HandleLogin, HandleCallback, HandleLogout, Expire
<1>2. ASSUME NEW h \in Handlers,
             (\E a \in Callers : CheckAdminAuth(h, a)) \/ Name(h) \/ Audit(h)
      PROVE  UNCHANGED vars
  BY <1>2 DEF CheckAdminAuth, Name, Audit
<1>3. ASSUME NEW h \in Handlers, Change(h)
      PROVE  (\E c \in PolicyChanges : HandleUsers(c)) \/ UNCHANGED vars
  BY <1>3 DEF Change
<1>4. ASSUME NEW p \in Writers, GoOn(p) \/ GiveUp(p)
      PROVE  SaveStep(p) \/ Fail(p)
  BY <1>4 DEF GoOn, GiveUp, SaveStep
<1>5. CASE ServiceDies
  BY <1>5 DEF ServiceDies, Next, Writers
<1>6. ASSUME Restart \/ \E p \in Clis : KeysCommand(p) \/ Crash(p)
      PROVE  Next
  BY <1>6 DEF Next, Writers
<1>7. CASE UNCHANGED allVars
  BY <1>7 DEF allVars
<1>. QED BY <1>1, <1>2, <1>3, <1>4, <1>5, <1>6, <1>7 DEF PolicyNext, Next

(* A request that was let in keeps its caller's name as long as the caller's *)
(* credential is good, and never takes another's.                            *)
AttributionInv ==
    \A h \in Handlers :
        LET r == asked[h]
        IN  r.pc # "none" =>
              /\ r.whole => Actor(r.by) = r.by
              /\ r.pc # "checked" /\ ~r.quota =>
                    r.actor = r.by \/ (r.actor = Unknown /\ ~r.whole)

(* A browser that signs in has no session yet.                              *)
SigningInv == \A b \in signing : session[b] = "none"

PolicyInv == StoreInv /\ PolicyTypeOK /\ AttributionInv /\ SigningInv

LEMMA ServiceInit == PolicyInit => PolicyInv
<1>. SUFFICES ASSUME PolicyInit PROVE PolicyInv
  OBVIOUS
<1>1. StoreInv /\ pc[Policy] = "idle"
  BY StoreInit DEF PolicyInit, Init, Writers
<1>2. PolicyTypeOK
  BY <1>1 DEF PolicyInit, PolicyTypeOK, StoreInv, NoRequest, NoEntry, Requests, Saving, Holding
<1>3. AttributionInv /\ SigningInv
  BY DEF PolicyInit, AttributionInv, SigningInv, NoRequest
<1>. QED BY <1>1, <1>2, <1>3 DEF PolicyInv

(* What the policy service's invariant says beside the store's.             *)
ServiceType ==
    /\ signing \subseteq Browsers
    /\ session \in [Browsers -> {"none", "admin", "over"}]
    /\ asked \in [Handlers -> Requests]
    /\ trail \in [actor : Callers \cup {Unknown}, by : Callers \cup {Unknown},
                  whole : BOOLEAN]

Served ==
    /\ \A h \in Handlers :
          /\ asked[h].pc # "none" => Up /\ asked[h].by \in Callers
          /\ asked[h].pc = "saving" => pc[Policy] \in Saving
    /\ \A h, i \in Handlers :
          asked[h].pc = "saving" /\ asked[i].pc = "saving" => h = i
    /\ pc[Policy] \in Saving => \E h \in Handlers : asked[h].pc = "saving"

LEMMA PolicyTypeSplit == PolicyTypeOK <=> TypeOK /\ ServiceType /\ Served
  BY DEF PolicyTypeOK, ServiceType, Served

(* Sessions and requests: what the store does not know of.                  *)
Service == ServiceType /\ Served /\ AttributionInv /\ SigningInv

LEMMA SessionStepKeeps ==
    ASSUME Service, NEW b \in Browsers,
           HandleLogin(b) \/ HandleCallback(b) \/ HandleLogout(b) \/ Expire(b)
    PROVE  Service'
<1>. USE DEF Service
<1>0. Bearers \cap Browsers = {} /\ Unknown \notin Callers
  BY PolicyAssumption
<1>1. CASE HandleLogin(b)
  BY <1>1 DEF HandleLogin, Unlogged, NoEntry, ServiceType, Served, Up, AttributionInv, SigningInv, Actor, vars
<1>2. CASE HandleCallback(b)
  <2>1. session' \in [Browsers -> {"none", "admin", "over"}]
    BY <1>2 DEF HandleCallback, ServiceType
  <2>2. ServiceType' /\ Served' /\ SigningInv'
    BY <1>2, <2>1 DEF HandleCallback, Unlogged, NoEntry, ServiceType, Served, Up, SigningInv, vars
  <2>3. session[b] = "none" /\ \A d \in Browsers \ {b} : session'[d] = session[d]
    BY <1>2 DEF HandleCallback, SigningInv, ServiceType
  <2>4. asked' = asked
    BY <1>2 DEF HandleCallback
  <2>5. \A a \in Callers : Actor(a) = a => Actor(a)' = a
    BY <2>3, <1>0 DEF Actor, Callers
  <2>6. AttributionInv'
    BY <2>4, <2>5 DEF AttributionInv, Served
  <2>. QED BY <2>2, <2>6
<1>3. ASSUME Ended({b}), signing' \subseteq signing, Unlogged, UNCHANGED vars
      PROVE  Service'
  <2>1. ServiceType' /\ Served' /\ SigningInv'
    <3>1. /\ pc' = pc /\ trail' = NoEntry
          /\ \A d \in Browsers : session[d] = "none" => session'[d] = "none"
      BY <1>3 DEF Unlogged, Ended, vars
    <3>2. \A h \in Handlers : asked'[h] = asked[h] \/
                                asked'[h] = [asked[h] EXCEPT !.whole = FALSE]
      BY <1>3 DEF Ended
    <3>3. ASSUME NEW h \in Handlers
          PROVE  /\ asked'[h] \in Requests
                 /\ asked'[h].pc = asked[h].pc /\ asked'[h].by = asked[h].by
      <4>1. asked[h] \in Requests
        BY DEF ServiceType
      <4>2. CASE asked'[h] = asked[h]
        BY <4>1, <4>2
      <4>3. CASE asked'[h] = [asked[h] EXCEPT !.whole = FALSE]
        BY <4>1, <4>3 DEF Requests
      <4>. QED BY <3>2, <4>2, <4>3
    <3>4. ServiceType'
      <4>1. asked' \in [Handlers -> Requests]
        BY <1>3, <3>3 DEF Ended
      <4>2. session' \in [Browsers -> {"none", "admin", "over"}]
        BY <1>3 DEF Ended, ServiceType
      <4>. QED BY <1>3, <3>1, <4>1, <4>2 DEF ServiceType, NoEntry
    <3>5. Served'
      BY <3>1, <3>3 DEF Served, Up
    <3>6. SigningInv'
      BY <1>3, <3>1 DEF SigningInv, ServiceType
    <3>. QED BY <3>4, <3>5, <3>6
  <2>2. AttributionInv'
    BY <1>0, <1>3 DEF Ended, ServiceType, AttributionInv, Actor, Requests, Served, Callers
  <2>. QED BY <2>1, <2>2
<1>4. CASE HandleLogout(b)
  BY <1>3, <1>4 DEF HandleLogout
<1>5. CASE Expire(b)
  <2>1. CASE b \in signing /\ signing' = signing \ {b} /\ UNCHANGED <<session, asked>>
    <3>1. pc' = pc /\ trail' = NoEntry /\ session' = session /\ asked' = asked
      BY <1>5, <2>1 DEF Expire, Unlogged, vars
    <3>2. ServiceType' /\ Served' /\ SigningInv'
      <4>1. ServiceType'
        BY <2>1, <3>1 DEF NoEntry, ServiceType
      <4>2. Served'
        BY <3>1 DEF Served, Up
      <4>3. SigningInv'
        BY <2>1, <3>1 DEF SigningInv
      <4>. QED BY <4>1, <4>2, <4>3
    <3>3. AttributionInv'
      BY <2>1 DEF AttributionInv, Actor
    <3>. QED BY <3>2, <3>3
  <2>. QED BY <1>3, <1>5, <2>1 DEF Expire
<1>. QED BY <1>1, <1>2, <1>4, <1>5

LEMMA HandlerStepKeeps ==
    ASSUME Service, TypeOK, NEW h \in Handlers,
           \/ \E a \in Callers : CheckAdminAuth(h, a)
           \/ Name(h) \/ Change(h) \/ Audit(h)
    PROVE  Service'
<1>. USE DEF Service
<1>0. Bearers \cap Browsers = {} /\ Unknown \notin Callers
  BY PolicyAssumption
<1>1. ASSUME NEW a \in Callers, CheckAdminAuth(h, a) PROVE Service'
  <2>1. PICK quota \in BOOLEAN :
          asked' = [asked EXCEPT ![h] =
                      [NoRequest EXCEPT !.pc = IF quota THEN "named" ELSE "checked",
                                        !.by = a, !.quota = quota, !.whole = TRUE]]
    BY <1>1 DEF CheckAdminAuth, Now
  <2>2. /\ Up /\ asked[h].pc = "none" /\ Actor(a) = a
        /\ trail' = NoEntry /\ UNCHANGED <<vars, signing, session>>
    BY <1>1 DEF CheckAdminAuth, Unlogged, Actor
  <2>3. ServiceType'
    BY <2>1, <2>2 DEF ServiceType, NoRequest, NoEntry, Requests
  <2>4. Served'
    BY <2>1, <2>2 DEF ServiceType, Served, NoRequest, Up, vars
  <2>5. AttributionInv'
    BY <2>1, <2>2 DEF ServiceType, AttributionInv, NoRequest, Actor
  <2>. QED BY <2>2, <2>3, <2>4, <2>5 DEF SigningInv
<1>2. CASE Name(h)
  <2>1. /\ asked' = [asked EXCEPT ![h] = [asked[h] EXCEPT !.pc = "named",
                                             !.actor = Actor(asked[h].by)]]
        /\ asked[h].pc = "checked"
        /\ trail' = NoEntry /\ UNCHANGED <<vars, signing, session>>
    BY <1>2 DEF Name, Now, Unlogged
  <2>2. asked[h].by \in Callers /\ Actor(asked[h].by) \in Callers \cup {Unknown}
    BY <2>1 DEF Served, Actor
  <2>3. ServiceType'
    BY <2>1, <2>2 DEF ServiceType, NoEntry, Requests
  <2>4. Served'
    BY <2>1 DEF ServiceType, Served, Up, vars
  <2>5. AttributionInv'
    BY <2>1, <2>2 DEF ServiceType, AttributionInv, Actor, Requests
  <2>. QED BY <2>1, <2>3, <2>4, <2>5 DEF SigningInv
<1>3. CASE Change(h)
  <2>1. PICK pc2 \in {"saving", "saved"} :
          /\ asked' = [asked EXCEPT ![h] = [asked[h] EXCEPT !.pc = pc2]]
          /\ pc2 = "saving" => /\ pc[Policy] = "idle"
                                /\ pc' = [pc EXCEPT ![Policy] = "marshalled"]
          /\ pc2 = "saved" => /\ pc[Policy] = "idle" /\ pc' = pc
    BY <1>3 DEF Change, HandleUsers, Begin, Now, vars
  <2>2. /\ asked[h].pc = "named" /\ trail' = NoEntry
        /\ UNCHANGED <<signing, session>>
    BY <1>3 DEF Change, Unlogged
  <2>3. ServiceType'
    BY <2>1, <2>2 DEF ServiceType, NoEntry, Requests
  <2>4. Served'
    <3>1. pc[Policy] = "idle" /\ Policy \in Writers
      BY <2>1 DEF Writers
    <3>2. \A i \in Handlers : asked[i].pc # "saving"
      BY <3>1 DEF Served, Saving, Holding
    <3>3. \A i \in Handlers \ {h} : asked'[i] = asked[i]
      BY <2>1 DEF ServiceType
    <3>4. asked'[h].pc = pc2 /\ asked'[h].by = asked[h].by
      BY <2>1 DEF ServiceType, Requests
    <3>5. /\ pc'[Policy] # "down"
          /\ pc'[Policy] \in Saving <=> pc2 = "saving"
      BY <2>1, <3>1 DEF TypeOK, Saving, Holding
    <3>. QED BY <2>2, <3>2, <3>3, <3>4, <3>5 DEF Served, Up
  <2>5. AttributionInv'
    BY <2>1, <2>2 DEF ServiceType, AttributionInv, Actor, Requests
  <2>. QED BY <2>2, <2>3, <2>4, <2>5 DEF SigningInv
<1>4. CASE Audit(h)
  <2>1. /\ asked' = [asked EXCEPT ![h] = NoRequest]
        /\ trail' = [actor |-> IF asked[h].quota THEN Actor(asked[h].by)
                                                  ELSE asked[h].actor,
                      by |-> asked[h].by, whole |-> asked[h].whole]
        /\ asked[h].pc = "saved"
        /\ UNCHANGED <<vars, signing, session>>
    BY <1>4 DEF Audit, Now
  <2>2. asked[h] \in Requests
    BY DEF ServiceType
  <2>3. Actor(asked[h].by) \in Callers \cup {Unknown}
    BY <2>1 DEF Served, Actor
  <2>4. ServiceType'
    BY <2>1, <2>2, <2>3 DEF ServiceType, NoRequest, Requests
  <2>5. Served'
    BY <2>1 DEF ServiceType, Served, NoRequest, Up, vars
  <2>6. AttributionInv'
    BY <2>1 DEF ServiceType, AttributionInv, NoRequest, Actor
  <2>. QED BY <2>1, <2>4, <2>5, <2>6 DEF SigningInv
<1>. QED BY <1>1, <1>2, <1>3, <1>4

LEMMA StoreStepKeeps ==
    ASSUME Service, TypeOK, TypeOK', NEW p \in Writers, GoOn(p) \/ GiveUp(p)
    PROVE  Service'
<1>. USE DEF Service
<1>1. trail' = NoEntry /\ UNCHANGED <<signing, session>>
  BY DEF GoOn, GiveUp, Unlogged
<1>2. ASSUME UNCHANGED asked, \A q \in Writers : pc'[q] \in Saving <=> pc[q] \in Saving,
             pc'[Policy] # "down" <=> pc[Policy] # "down"
      PROVE  Service'
  BY <1>1, <1>2 DEF ServiceType, NoEntry, Served, Up, AttributionInv, Actor, SigningInv, Writers
<1>3. ASSUME NEW pc2 \in {"none", "saved"}, Returned(p, pc2), pc' = [pc EXCEPT ![p] = "idle"],
             pc[p] \in Saving
      PROVE  Service'
  <2>1. CASE p # Policy
    <3>1. asked' = asked
      BY <1>3, <2>1 DEF Returned, ServiceType
    <3>2. pc'[Policy] = pc[Policy]
      BY <1>3, <2>1 DEF TypeOK, Writers
    <3>. QED BY <1>1, <3>1, <3>2 DEF ServiceType, NoEntry, Served, Up, AttributionInv, Actor, SigningInv
  <2>2. CASE p = Policy
    <3>1. \A h \in Handlers :
            IF asked[h].pc # "saving" THEN asked'[h] = asked[h]
            ELSE IF pc2 = "none" THEN asked'[h] = NoRequest
                 ELSE asked'[h] = [asked[h] EXCEPT !.pc = pc2]
      BY <1>3, <2>2 DEF Returned
    <3>6. \A h \in Handlers :
            \/ asked'[h] = asked[h] /\ asked[h].pc # "saving"
            \/ asked'[h] = NoRequest
            \/ asked[h].pc = "saving" /\ asked'[h] = [asked[h] EXCEPT !.pc = "saved"]
      BY <1>3, <3>1
    <3>7. ASSUME NEW h \in Handlers
          PROVE  /\ asked'[h].pc # "saving"
                 /\ asked'[h].pc # "none" =>
                      /\ asked[h].pc # "none"
                      /\ asked'[h].pc # "checked" => asked[h].pc # "checked"
                      /\ asked'[h].by = asked[h].by /\ asked'[h].actor = asked[h].actor
                      /\ asked'[h].whole = asked[h].whole
                      /\ asked'[h].quota = asked[h].quota
      <4>0. asked[h] \in Requests
        BY DEF ServiceType
      <4>1. CASE asked'[h] = asked[h] /\ asked[h].pc # "saving"
        BY <4>1
      <4>2. CASE asked'[h] = NoRequest
        BY <4>2 DEF NoRequest
      <4>3. CASE asked[h].pc = "saving" /\ asked'[h] = [asked[h] EXCEPT !.pc = "saved"]
        BY <4>0, <4>3 DEF Requests
      <4>. QED BY <3>6, <4>1, <4>2, <4>3
    <3>2. asked' \in [Handlers -> Requests]
      BY <1>3, <2>2 DEF Returned, ServiceType, Requests, NoRequest
    <3>3. pc'[Policy] = "idle" /\ pc[Policy] # "down"
      BY <1>3, <2>2 DEF TypeOK, Writers, Saving, Holding
    <3>4. Served'
      BY <3>3, <3>7 DEF Served, Up, Saving, Holding
    <3>5. AttributionInv'
      <4>1. session' = session
        BY <1>1
      <4>. QED BY <3>7, <4>1 DEF AttributionInv, Actor
    <3>. QED BY <1>1, <3>2, <3>4, <3>5 DEF ServiceType, NoEntry, SigningInv
  <2>. QED BY <2>1, <2>2
<1>4. CASE Lock(p) /\ UNCHANGED asked
  BY <1>2, <1>4 DEF Lock, TypeOK, Saving, Holding
<1>5. CASE CreateTemp(p) /\ UNCHANGED asked
  BY <1>2, <1>5 DEF CreateTemp, TypeOK, Saving, Holding
<1>6. CASE WriteTemp(p) /\ UNCHANGED asked
  BY <1>2, <1>6 DEF WriteTemp, TypeOK, Saving, Holding
<1>7. CASE Rename(p) /\ UNCHANGED asked
  BY <1>2, <1>7 DEF Rename, TypeOK, Saving, Holding
<1>8. CASE Unlock(p) /\ Returned(p, "saved")
  BY <1>3, <1>8 DEF Unlock, Leave, Saving, Holding
<1>9. CASE Fail(p) /\ Returned(p, "none")
  BY <1>3, <1>9 DEF Fail, Leave, Saving, Holding, WithTemp
<1>. QED BY <1>4, <1>5, <1>6, <1>7, <1>8, <1>9 DEF GoOn, GiveUp

LEMMA DeathKeeps ==
    ASSUME Service, TypeOK, ServiceDies
    PROVE  Service'
<1>1. /\ asked' = [h \in Handlers |-> NoRequest]
      /\ session' \in [Browsers -> {"none", "admin", "over"}]
      /\ signing' = {} /\ trail' = NoEntry
  BY DEF ServiceDies, Unlogged
<1>2. pc'[Policy] = "down"
  BY DEF ServiceDies, Crash, Leave, TypeOK, Writers
<1>3. ServiceType'
  BY <1>1 DEF ServiceType, NoRequest, NoEntry, Requests
<1>. QED BY <1>1, <1>2, <1>3
     DEF Service, Served, AttributionInv, SigningInv, NoRequest, Saving, Holding

(* What changes neither requests nor sessions, and keeps the service up or  *)
(* brings it up.                                                            *)
LEMMA OthersKeep ==
    ASSUME Service, TypeOK, UNCHANGED serviceVars, trail' \in {NoEntry, trail},
           pc[Policy] # "down" => pc'[Policy] = pc[Policy],
           pc[Policy] = "down" => pc'[Policy] \notin Saving
    PROVE  Service'
<1>1. UNCHANGED <<signing, session, asked>>
  BY DEF serviceVars
<1>2. ServiceType'
  <2>1. NoEntry \in [actor : Callers \cup {Unknown}, by : Callers \cup {Unknown},
                     whole : BOOLEAN]
    BY DEF NoEntry
  <2>. QED BY <1>1, <2>1 DEF Service, ServiceType
<1>3. Served'
  BY <1>1 DEF Service, Served, Up, Saving, Holding
<1>. QED BY <1>1, <1>2, <1>3 DEF Service, AttributionInv, Actor, SigningInv

LEMMA PolicyStep == PolicyInv /\ [PolicyNext]_allVars => PolicyInv'
<1>. SUFFICES ASSUME PolicyInv, [PolicyNext]_allVars PROVE PolicyInv'
  OBVIOUS
<1>1. StoreInv'
  BY StoreStep, ServiceStepIsStoreStep DEF PolicyInv
<1>2. Service /\ TypeOK /\ TypeOK'
  BY <1>1, PolicyTypeSplit DEF PolicyInv, StoreInv, Service
<1>3. Policy \in Writers /\ Policy \notin Clis /\ \A p \in Clis : p \in Writers
  BY KeyStoreAssumption DEF Writers
<1>4. Service'
  <2>1. ASSUME NEW p \in Clis, KeysCommand(p) \/ Crash(p), Unlogged, UNCHANGED serviceVars
        PROVE  Service'
    <3>1. pc'[Policy] = pc[Policy]
      BY <1>2, <1>3, <2>1 DEF KeysCommand, Begin, Crash, Leave, TypeOK
    <3>. QED BY <1>2, <2>1, <3>1, OthersKeep DEF Unlogged, Saving, Holding
  <2>2. CASE Restart /\ Unlogged /\ UNCHANGED serviceVars
    <3>1. pc[Policy] = "down" /\ pc'[Policy] = "idle"
      BY <1>2, <1>3, <2>2 DEF Restart, TypeOK
    <3>. QED BY <1>2, <2>2, <3>1, OthersKeep DEF Unlogged, Saving, Holding
  <2>3. CASE UNCHANGED allVars
    <3>1. pc' = pc /\ trail' = trail /\ UNCHANGED serviceVars
      BY <2>3 DEF allVars, vars, policyVars
    <3>. QED BY <1>2, <3>1, OthersKeep DEF Saving, Holding
  <2>. QED BY <1>2, <2>1, <2>2, <2>3, SessionStepKeeps, HandlerStepKeeps,
              StoreStepKeeps, DeathKeeps DEF PolicyNext
<1>5. PolicyTypeOK'
  BY <1>2, <1>4 DEF Service, PolicyTypeOK, ServiceType, Served
<1>. QED BY <1>1, <1>4, <1>5 DEF PolicyInv, Service

----
(* The theorems                                                             *)

LEMMA PolicyInvariant == PolicySpec => []PolicyInv
<1>. QED BY ServiceInit, PolicyStep, PTL DEF PolicySpec

(* The policy service, around the store, does to it what the store allows.  *)
THEOREM ServiceImplementsStore == PolicySpec => Init /\ [][Next]_vars
<1>1. PolicyInit => Init
  BY DEF PolicyInit
<1>. QED BY <1>1, ServiceStepIsStoreStep, PTL DEF PolicySpec

(* Inside the policy service too a save is one step to whoever reads the     *)
(* file (store.go:393-458).                                                 *)
THEOREM ServiceSavesAtomically == PolicySpec => SavesAreAtomic
  BY ServiceImplementsStore, StoreImplementsFile

(* The state is well typed in every reachable state; while the service      *)
(* saves, exactly one of its requests waits for that (policy.go:120-190).    *)
THEOREM PolicyTypeCorrect == PolicySpec => []PolicyTypeOK
<1>1. PolicyInv => PolicyTypeOK
  BY DEF PolicyInv
<1>. QED BY <1>1, PolicyInvariant, PTL

(* keys.json can always be loaded (store.go:393-458).                       *)
THEOREM FileStaysWhole == PolicySpec => []FileIsWhole
<1>1. PolicyInv => FileIsWhole
  BY DEF PolicyInv, StoreInv
<1>. QED BY <1>1, PolicyInvariant, PTL

(* Every temporary file belongs to a save in progress or to one that died   *)
(* (store.go:422-452).                                                      *)
THEOREM TempsAreAccounted == PolicySpec => []TempsAccounted
<1>1. PolicyInv => TempsAccounted
  BY DEF PolicyInv, StoreInv
<1>. QED BY <1>1, PolicyInvariant, PTL

(* What the service answers from is what keys.json holds, until another     *)
(* process writes or a save fails (store.go:265-300).                       *)
THEOREM CopyIsCurrent == PolicySpec => []CopyAgrees
<1>1. PolicyInv => CopyAgrees
  BY DEF PolicyInv, StoreInv, FreshInv, CopyAgrees, Writers
<1>. QED BY <1>1, PolicyInvariant, PTL

(* At most one process is between the flock and its release at any time.    *)
THEOREM OneHolder ==
    PolicySpec => [](\A p, q \in Writers :
                        pc[p] \in Holding /\ pc[q] \in Holding => p = q)
<1>1. PolicyInv => \A p, q \in Writers :
                      pc[p] \in Holding /\ pc[q] \in Holding => p = q
  BY DEF PolicyInv, StoreInv, LockInv
<1>. QED BY <1>1, PolicyInvariant, PTL

(* A writer whose copy was current replaces keys.json by the same with its  *)
(* own change made, and nothing else (store.go:265-300, 393-458).           *)
THEOREM OneChangeIsSaved == PolicySpec => OneChangeAtATime
<1>1. StoreInv /\ [Next]_vars =>
        [\A p \in Writers :
            fresh[p] /\ pc[p] = "written" /\ pc'[p] = "renamed"
               => file' = Changed(p, change[p], file)]_vars
  <2>. SUFFICES ASSUME StoreInv, Next, NEW p \in Writers,
                       fresh[p], pc[p] = "written", pc'[p] = "renamed"
                PROVE  file' = Changed(p, change[p], file)
    OBVIOUS
  <2>1. copy[p] = Changed(p, change[p], file)
    BY DEF StoreInv, FreshInv, Unrenamed
  <2>2. Rename(p)
    BY DEF Next, HandleUsers, KeysCommand, Begin, SaveStep, Lock, CreateTemp,
           WriteTemp, Rename, Unlock, Leave, Fail, Crash, Restart, StoreInv, TypeOK, Writers
  <2>. QED BY <2>1, <2>2 DEF Rename
<1>2. PolicyInv => StoreInv
  BY DEF PolicyInv
<1>. QED BY <1>1, <1>2, PolicyInvariant, ServiceImplementsStore, PTL DEF OneChangeAtATime

(* A change is put down to whoever asked for it, or to nobody if the         *)
(* caller's session ended since (policy.go:130-179).                        *)
THEOREM ChangesAreAttributed == PolicySpec => ChangeIsAttributed
<1>1. PolicyInv /\ [PolicyNext]_allVars =>
        [trail'.actor = trail'.by \/ (trail'.actor = Unknown /\ ~trail'.whole)]_trail
  <2>. SUFFICES ASSUME PolicyInv, PolicyNext, trail' # trail
                PROVE  trail'.actor = trail'.by \/ (trail'.actor = Unknown /\ ~trail'.whole)
    BY DEF allVars, policyVars
  <2>1. CASE Unlogged
    BY <2>1 DEF Unlogged, NoEntry
  <2>2. ASSUME NEW h \in Handlers, Audit(h)
        PROVE  trail'.actor = trail'.by \/ (trail'.actor = Unknown /\ ~trail'.whole)
    <3>1. /\ asked[h].pc = "saved"
          /\ trail' = [actor |-> IF asked[h].quota THEN Actor(asked[h].by)
                                                    ELSE asked[h].actor,
                        by |-> asked[h].by, whole |-> asked[h].whole]
      BY <2>2 DEF Audit
    <3>2. Actor(asked[h].by) \in {asked[h].by, Unknown}
      BY DEF Actor
    <3>3. /\ asked[h].whole => Actor(asked[h].by) = asked[h].by
          /\ ~asked[h].quota =>
                asked[h].actor = asked[h].by \/ (asked[h].actor = Unknown /\ ~asked[h].whole)
      BY <3>1 DEF PolicyInv, AttributionInv
    <3>. QED BY <3>1, <3>2, <3>3
  <2>. QED BY <2>1, <2>2 DEF PolicyNext, HandleLogin, HandleCallback, HandleLogout, Expire,
         CheckAdminAuth, Name, Change, GoOn, GiveUp, ServiceDies
<1>. QED BY <1>1, PolicyInvariant, PTL DEF PolicySpec, ChangeIsAttributed

=============================================================================
