----------------------------- MODULE ModelCache -----------------------------
(***************************************************************************)
(* The directory of downloaded models: core/model/cache.go, which keeps an *)
(* index of it in .metadata.json, and internal/downloader/huggingface.go,  *)
(* which fills it from the hub, file by file, resuming what an earlier     *)
(* download left.  Every command line process (cmd/pull.go, cmd/remove.go, *)
(* cmd/deploy.go) works on the directory and the index with no lock, so    *)
(* that processes meet on the disk; what one of them has read is its copy. *)
(*                                                                         *)
(* A file is a sequence of chunks, the first of which is the header of a   *)
(* safetensors file.  The hub may fail a request, break a transfer off, or *)
(* ignore a range and answer 200 with the whole file; a process may be     *)
(* killed at any step.                                                     *)
(***************************************************************************)
EXTENDS Naturals, Sequences, FiniteSets

CONSTANTS
    Procs,        \* the command line processes, numbered as they are begun
    Models,
    Files,        \* the files the hub has for the models
    FilesOf,      \* for each model, its files in the order they are fetched
    Shards,       \* for each model, how many of them its manifest names
    Weights,      \* files that end in .safetensors or .bin
    Safetensors,  \* those that end in .safetensors
    Size,         \* chunks of each file
    Requests,     \* the commands that may be typed
    Sessions,     \* what may be found at first: the files, the index
    MaxFaults     \* bound: failures of the hub, the disk or a process

FilesIn(m) == {FilesOf[m][i] : i \in 1..Len(FilesOf[m])}

\* What the hub has.
Original(f) == [i \in 1..Size[f] |-> i]

\* d is what the hub has of f, up to some point.
Partial(f, d) ==
    Len(d) <= Size[f] /\ \A i \in 1..Len(d) : d[i] = Original(f)[i]

\* What the disk shows where a write past the end of a file skipped a chunk.
Hole == 0

ASSUME ModelCacheAssumption ==
    /\ Procs \subseteq Nat
    /\ FilesOf \in [Models -> Seq(Files)]
    /\ Shards \in [Models -> Nat]
    /\ \A m \in Models : Shards[m] <= Len(FilesOf[m])
    /\ \A m, n \in Models : m # n => FilesIn(m) \cap FilesIn(n) = {}
    /\ Safetensors \subseteq Weights /\ Weights \subseteq Files
    /\ Size \in [Files -> Nat \ {0}]
    /\ Requests \subseteq [op : {"pull", "remove", "deploy", "stop", "stop all"},
                         model : Models, force : BOOLEAN]
    /\ \A s \in Sessions :
          /\ s.disk \in [Files -> Seq(Nat)]
          /\ \A f \in Files : Partial(f, s.disk[f])
          /\ s.index \subseteq Models
    /\ MaxFaults \in Nat

VARIABLES
    disk,      \* the content of each file, empty if there is none
    present,   \* the files that exist
    dirs,      \* the models whose directory exists
    index,     \* .metadata.json: the models it names, none if it is torn
    job,       \* each process: where it is, and what it has read
    faults,    \* failures so far, counted for the bound
    mixed,     \* history: files two processes had in hand at once, or that
               \* were appended to from a transfer whose range was ignored
    basis      \* history: what the index held when each process read it, and
               \* whether that is fresh, as no other process wrote it since

cacheVars == <<disk, present, dirs, index, job, faults, mixed, basis>>

\* The process holds a file from the moment it has decided, from the file's
\* size, how to fetch it, until it has closed it.
Touching == {"open", "receive", "close"}

Idle == [pc |-> "ready", op |-> "none", model |-> "none", force |-> FALSE,
         nth |-> 0,
         from |-> 0, got |-> 0, linked |-> FALSE, ranged |-> FALSE,
         found |-> FALSE, fetched |-> FALSE, copy |-> {},
         answer |-> "none", trouble |-> FALSE]

Unread == [fresh |-> FALSE, held |-> {}]

FileOf(j) == FilesOf[j.model][j.nth]

Holds(p, f) == job[p].pc \in Touching /\ FileOf(job[p]) = f

Others(p, f) == {q \in Procs \ {p} : Holds(q, f)}

Live(p) == job[p].pc \notin {"ready", "done"}

\* A weight file counts as such by its name, whatever is in it.
HasWeights(m) ==
    m \in dirs /\ \E f \in FilesIn(m) \cap Weights : f \in present

\* validateSafetensorsFile: there is a header and it can be read.
HeaderValid(f) ==
    f \in present /\ disk[f] # <<>> /\ disk[f][1] # Hole

\* A write at the process's own offset of a file it truncated.
WriteAt(s, k, c) ==
    [i \in 1..(IF k < Len(s) THEN Len(s) ELSE k + 1) |->
        IF i = k + 1 THEN c ELSE IF i <= Len(s) THEN s[i] ELSE Hole]

-----------------------------------------------------------------------------

CacheInit(s) ==
    /\ disk = s.disk
    /\ present = {f \in Files : disk[f] # <<>>}
    /\ index = s.index
    /\ dirs = {m \in Models : m \in index \/ FilesIn(m) \cap present # {}}
    /\ job = [p \in Procs |-> Idle]
    /\ faults = 0
    /\ mixed = {}
    /\ basis = [p \in Procs |-> Unread]

Fault == faults < MaxFaults /\ faults' = faults + 1

Step(p, change) == job' = [job EXCEPT ![p] = change]

\* Faulty variant: the loop runs one file too far.
OnwardTooFar(j) == [j EXCEPT !.pc = "head", !.nth = @ + 1]

\* The loop over the files goes on with the next one, or is over.
Onward(j) ==
    [j EXCEPT !.pc = IF j.nth < Len(FilesOf[j.model]) THEN "head" ELSE "finish",
              !.nth = IF j.nth < Len(FilesOf[j.model]) THEN @ + 1 ELSE 0,
              !.from = 0, !.got = 0, !.linked = FALSE, !.ranged = FALSE]

Skip(j) == [Onward(j) EXCEPT !.trouble = TRUE]

Done(j, answer) ==
    [Idle EXCEPT !.pc = "done", !.op = j.op, !.model = j.model,
                 !.force = j.force, !.answer = answer]

\* Files are removed from under the processes that hold them, whose writes
\* from then on reach no file that has a name.
Unlink(fs) ==
    /\ present' = present \ fs
    /\ disk' = [f \in Files |-> IF f \in fs THEN <<>> ELSE disk[f]]
    /\ mixed' = {f \in mixed : f \notin fs \/ \E q \in Procs : Holds(q, f)}

-----------------------------------------------------------------------------

\* A command line process is begun; the last one begun has the highest number.
\* deploy and stop begin in the engine room.
Begin(p, r) ==
    /\ job[p].pc = "ready"
    /\ \A q \in Procs : q < p => job[q].pc # "ready"
    /\ Step(p, [job[p] EXCEPT !.pc = IF r.op \in {"pull", "remove"}
                                     THEN "load" ELSE "engine",
                              !.op = r.op, !.model = r.model,
                              !.force = r.force])
    /\ UNCHANGED <<disk, present, dirs, index, faults, mixed, basis>>

\* NewCacheManager, and what each command does first with what it loaded.
LoadIndex(p) ==
    LET j == [job[p] EXCEPT !.copy = index]
        here == j.model \in index
    IN  /\ j.pc = "load"
        /\ \/ /\ j.op = "remove" \/ (j.op = "pull" /\ j.force)
              /\ here
              /\ Step(p, [j EXCEPT !.pc = "purge"])
           \/ /\ j.op = "pull" /\ ~(j.force /\ here)
              /\ Step(p, [j EXCEPT !.pc = "lookup"])
           \/ /\ j.op = "remove" /\ ~here
              /\ Step(p, Done(j, "failed"))
           \/ /\ j.op = "deploy"
              /\ Step(p, [j EXCEPT !.pc = "loaded"])
        /\ basis' = [basis EXCEPT ![p] = [fresh |-> TRUE, held |-> index]]
        /\ UNCHANGED <<disk, present, dirs, index, faults, mixed>>

\* RemoveFromCache up to its save.
Purge(p) ==
    LET m == job[p].model
    IN  /\ job[p].pc = "purge"
        /\ Unlink(FilesIn(m))
        /\ dirs' = dirs \ {m}
        /\ job' = [q \in Procs |->
                     IF q = p
                     THEN [job[p] EXCEPT !.pc = "truncate", !.copy = @ \ {m}]
                     ELSE IF Live(q) /\ job[q].model = m
                     THEN [job[q] EXCEPT !.trouble = TRUE, !.linked = FALSE]
                     ELSE job[q]]
        /\ UNCHANGED <<index, faults, basis>>

\* Faulty variant: the download goes on with an empty copy.
SavedForgets(j) ==
    IF j.op = "remove" \/ j.fetched THEN Done(j, "ok")
    ELSE [j EXCEPT !.pc = "lookup", !.copy = {}]

\* Where a command goes on after a save.
Saved(j) ==
    IF j.op = "remove" \/ j.fetched THEN Done(j, "ok")
    ELSE [j EXCEPT !.pc = "lookup"]

\* A failed save fails the command, except where pull --force only warns.
SaveFailed(j) ==
    IF j.op = "remove" \/ j.fetched THEN Done(j, "failed") ELSE Saved(j)

\* What the others have read is no longer what the index holds.
Overtakes(p) == basis' = [q \in Procs |-> IF q = p THEN basis[p] ELSE Unread]

\* saveMetadata is os.WriteFile: it truncates the file and then writes it.
TruncateIndex(p) ==
    /\ job[p].pc = "truncate"
    /\ index' = {}
    /\ Step(p, [job[p] EXCEPT !.pc = "write"])
    /\ Overtakes(p)
    /\ UNCHANGED <<disk, present, dirs, faults, mixed>>

\* If another process wrote after the truncation, this one writes over that
\* from the start, and a longer rest of it would make the file unreadable.
WriteIndex(p) ==
    LET j == job[p]
    IN  /\ j.pc = "write"
        /\ index' \in {j.copy} \cup (IF index = {} THEN {} ELSE {{}})
        /\ Step(p, Saved(j))
        /\ Overtakes(p)
        /\ UNCHANGED <<disk, present, dirs, faults, mixed>>

SaveFails(p) ==
    /\ job[p].pc \in {"truncate", "write"}
    /\ Fault
    /\ Step(p, SaveFailed(job[p]))
    /\ UNCHANGED <<disk, present, dirs, index, mixed, basis>>

\* CacheManager.DownloadModel: a model the copy of the index names is taken
\* as it is if its directory has any weight file.
Lookup(p) ==
    LET j == job[p]
        m == j.model
    IN  /\ j.pc = "lookup"
        /\ \/ /\ m \in j.copy /\ HasWeights(m)
              /\ Step(p, Done(j, "ok"))
              /\ UNCHANGED dirs
           \/ /\ ~(m \in j.copy /\ HasWeights(m))
              /\ Step(p, [j EXCEPT !.pc = "discover"])
              /\ dirs' = dirs \cup {m}
        /\ UNCHANGED <<disk, present, index, faults, mixed, basis>>

\* The loop begins with the k-th file, if there is one.
Begun(j, k) ==
    [j EXCEPT !.pc = IF k <= Len(FilesOf[j.model]) THEN "head" ELSE "finish",
              !.nth = IF k <= Len(FilesOf[j.model]) THEN k ELSE 0]

\* discoverShardedFiles: the files of the manifest come first, and are never
\* tried if the manifest cannot be had.
Discover(p) ==
    LET j == job[p]
    IN  /\ j.pc = "discover"
        /\ \/ Step(p, Begun(j, 1)) /\ UNCHANGED faults
           \/ /\ Shards[j.model] > 0
              /\ Fault
              /\ Step(p, [Begun(j, Shards[j.model] + 1) EXCEPT !.trouble = TRUE])
        /\ UNCHANGED <<disk, present, dirs, index, mixed, basis>>

\* Faulty variant: a file that is there needs no download.
AlreadyThere(f) == f \in present

\* A file of the size the hub states needs no download.
Already(f) == f \in present /\ Len(disk[f]) = Size[f]

\* The HEAD request for the next file, and the size it is found to have.
\* A file of the right size is not fetched; a shorter one is to be resumed,
\* any other fetched from the start.
Examine(p) ==
    LET j == [job[p] EXCEPT !.found = TRUE]
        f == FileOf(j)
        k == IF f \in present THEN Len(disk[f]) ELSE 0
        crowd == Others(p, f)
        seen == [j EXCEPT !.trouble = @ \/ crowd # {}]
    IN  /\ job[p].pc = "head"
        /\ \/ /\ Fault
              /\ Step(p, Skip(job[p]))
              /\ UNCHANGED mixed
           \/ /\ job' = [q \in Procs |->
                           IF q = p
                           THEN IF Already(f)
                                THEN [seen EXCEPT !.pc = "check"]
                                ELSE [seen EXCEPT !.pc = "open",
                                       !.from = IF k < Size[f] THEN k ELSE 0]
                           ELSE IF q \in crowd
                           THEN [job[q] EXCEPT !.trouble = TRUE]
                           ELSE job[q]]
              /\ mixed' = IF crowd # {} THEN mixed \cup {f} ELSE mixed
              /\ UNCHANGED faults
        /\ UNCHANGED <<disk, present, dirs, index, basis>>

\* The GET request, and the file opened: to append if part of it was found,
\* which needs the file to be there still, or else created and truncated,
\* which needs its directory.  200 and 206 are taken alike.
OpenFile(p) ==
    LET j == job[p]
        f == FileOf(j)
        possible == IF j.from > 0 THEN f \in present ELSE j.model \in dirs
        opened == [j EXCEPT !.pc = "receive", !.linked = TRUE]
    IN  /\ j.pc = "open"
        /\ \/ /\ Fault
              /\ Step(p, Skip(j))
              /\ UNCHANGED <<disk, present, mixed>>
           \/ /\ ~possible
              /\ Step(p, Skip(j))
              /\ UNCHANGED <<disk, present, mixed, faults>>
           \/ /\ j.from = 0 /\ possible
              /\ Step(p, opened)
              /\ disk' = [disk EXCEPT ![f] = <<>>]
              /\ present' = present \cup {f}
              /\ mixed' = IF Others(p, f) = {} THEN mixed \ {f} ELSE mixed
              /\ UNCHANGED faults
           \/ /\ j.from > 0 /\ possible
              /\ Step(p, [opened EXCEPT !.ranged = TRUE])
              /\ UNCHANGED <<disk, present, mixed, faults>>
           \/ /\ j.from > 0 /\ possible
              /\ Fault
              /\ Step(p, [opened EXCEPT !.trouble = TRUE])
              /\ mixed' = mixed \cup {f}
              /\ UNCHANGED <<disk, present>>
        /\ UNCHANGED <<dirs, index, basis>>

\* Faulty variant: the range is not asked for.
ComingFromStart(j) == j.got + 1

\* The chunk of the transfer that comes next, counted within the file.
Coming(j) == (IF j.ranged THEN j.from ELSE 0) + j.got + 1

\* io.Copy: the next chunk goes to the end of a file opened to append, and to
\* the process's own offset otherwise; at the end of the transfer it is over.
Receive(p) ==
    LET j == job[p]
        f == FileOf(j)
        c == Coming(j)
    IN  /\ j.pc = "receive"
        /\ \/ /\ c <= Size[f]
              /\ disk' = IF j.linked
                         THEN [disk EXCEPT ![f] =
                                 IF j.from > 0 THEN Append(@, c)
                                               ELSE WriteAt(@, j.got, c)]
                         ELSE disk
              /\ Step(p, [j EXCEPT !.got = @ + 1])
           \/ /\ c > Size[f]
              /\ Step(p, [j EXCEPT !.pc = "close"])
              /\ UNCHANGED disk
        /\ UNCHANGED <<present, dirs, index, faults, mixed, basis>>

\* The transfer breaks off, or runs into the client's timeout.
Interrupt(p) ==
    /\ job[p].pc = "receive"
    /\ Fault
    /\ Step(p, Skip(job[p]))
    /\ UNCHANGED <<disk, present, dirs, index, mixed, basis>>

\* The bytes received and those on the disk must both make up the file.
Complete(p) ==
    LET j == job[p]
        f == FileOf(j)
        whole == /\ j.from + j.got = Size[f]
                 /\ f \in present
                 /\ Len(disk[f]) = Size[f]
    IN  /\ j.pc = "close"
        /\ Step(p, IF ~whole THEN Skip(j)
                   ELSE [j EXCEPT !.pc = "check", !.from = 0, !.got = 0,
                                  !.linked = FALSE, !.ranged = FALSE])
        /\ UNCHANGED <<disk, present, dirs, index, faults, mixed, basis>>

\* A safetensors file without a readable header is removed, and not tried
\* again whatever the message says.
Check(p) ==
    LET j == job[p]
        f == FileOf(j)
        corrupt == f \in Safetensors /\ ~HeaderValid(f)
    IN  /\ j.pc = "check"
        /\ \/ /\ ~corrupt
              /\ Step(p, Onward(j))
              /\ UNCHANGED <<disk, present, mixed>>
           \/ /\ corrupt
              /\ Unlink({f})
              /\ job' = [q \in Procs |->
                           IF q = p THEN Skip(j)
                           ELSE IF Live(q) /\ job[q].model = j.model
                           THEN [job[q] EXCEPT !.trouble = TRUE,
                                               !.linked = @ /\ ~Holds(q, f)]
                           ELSE job[q]]
        /\ UNCHANGED <<dirs, index, faults, basis>>

\* The end of both DownloadModels.  A file that was only found counts: the
\* download fails if none was, and even then the model is entered in the
\* index if its directory holds anything.
Finish(p) ==
    LET j == job[p]
        m == j.model
        empty == \A f \in FilesIn(m) \cap present : disk[f] = <<>>
    IN  /\ j.pc = "finish"
        /\ Step(p, IF ~j.found /\ empty
                   THEN Done(j, "failed")
                   ELSE [j EXCEPT !.pc = "truncate", !.fetched = TRUE,
                                  !.copy = @ \cup {m}])
        /\ UNCHANGED <<disk, present, dirs, index, faults, mixed, basis>>

\* The process is killed.
CacheCrash(p) ==
    /\ Live(p)
    /\ Fault
    /\ Step(p, Done(job[p], "killed"))
    /\ UNCHANGED <<disk, present, dirs, index, mixed, basis>>

CacheStep(p) ==
    \/ LoadIndex(p)
    \/ Purge(p)
    \/ TruncateIndex(p)
    \/ WriteIndex(p)
    \/ SaveFails(p)
    \/ Lookup(p)
    \/ Discover(p)
    \/ Examine(p)
    \/ OpenFile(p)
    \/ Receive(p)
    \/ Interrupt(p)
    \/ Complete(p)
    \/ Check(p)
    \/ Finish(p)

CacheNext ==
    \E p \in Procs :
        \/ \E r \in Requests : r.op \in {"pull", "remove"} /\ Begin(p, r)
        \/ CacheStep(p)
        \/ CacheCrash(p)

CacheSpec == (\E s \in Sessions : CacheInit(s)) /\ [][CacheNext]_cacheVars

-----------------------------------------------------------------------------

InLoop == {"head", "open", "receive", "close", "check"}

Jobs ==
    [pc : {"ready", "engine", "load", "loaded", "purge", "truncate", "write",
           "lookup", "discover", "finish", "done"} \cup InLoop,
     op : {"none", "pull", "remove", "deploy", "stop", "stop all"},
     model : Models \cup {"none"},
     force : BOOLEAN,
     nth : Nat, from : Nat, got : Nat,
     linked : BOOLEAN, ranged : BOOLEAN, found : BOOLEAN, fetched : BOOLEAN,
     copy : SUBSET Models,
     answer : {"none", "ok", "failed", "killed"},
     trouble : BOOLEAN]

\* A process in the loop over the files is at one of its model's files; a file
\* that does not exist has no content.
CacheTypeOK ==
    /\ disk \in [Files -> Seq(Nat)]
    /\ present \subseteq Files
    /\ \A f \in Files \ present : disk[f] = <<>>
    /\ dirs \subseteq Models
    /\ index \subseteq Models
    /\ job \in [Procs -> Jobs]
    /\ \A p \in Procs :
        /\ job[p].pc # "ready" => job[p].model \in Models
        /\ job[p].pc \in InLoop => job[p].nth \in 1..Len(FilesOf[job[p].model])
    /\ faults \in 0..MaxFaults
    /\ mixed \subseteq Files

BasisTypeOK == basis \in [Procs -> [fresh : BOOLEAN, held : SUBSET Models]]

\* A file holds what the hub has, up to some point: whatever failed and was resumed
\* in between (huggingface.go:215-263), a file is short or right, unless two
\* processes wrote it at once or the hub ignored a range.
ResumeIsSound ==
    \A f \in Files \ mixed : Partial(f, disk[f])

\* A download that met no failure and no other process at its files leaves
\* every file of the model whole, however many of them earlier downloads had
\* left in part (huggingface.go:102-149).
PullIsWhole ==
    [][\A p \in Procs :
          job[p].pc = "finish" /\ job'[p].pc = "truncate" /\ ~job[p].trouble
          => \A f \in FilesIn(job[p].model) \ mixed : disk[f] = Original(f)]_job

\* A command that saves the index writes what it read of it, but for its own
\* model, and that is in it if the command fetched it: the entries of other
\* models pass through the copy, the removal and the second save of a forced
\* pull unharmed, unless another process wrote the index since it was read
\* (cache.go:64-97, 164-176, 236-255).
OneEntryAtATime ==
    [][\A p \in Procs :
          job[p].pc = "write" /\ job'[p].pc # "write" /\ faults' = faults
          /\ basis[p].fresh
          => LET m == job[p].model
             IN  /\ index' \ {m} = basis[p].held \ {m}
                 /\ m \in index' <=> job[p].fetched]_cacheVars
=============================================================================
