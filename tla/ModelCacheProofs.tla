-------------------------- MODULE ModelCacheProofs ---------------------------
(***************************************************************************)
(* What holds of the directory of models for any number of command line    *)
(* processes, models, files and failures.                                  *)
(***************************************************************************)
EXTENDS ModelCache, TLAPS

----
(* Data                                                                     *)

LEMMA FilesTyped ==
    ASSUME NEW m \in Models
    PROVE  /\ Len(FilesOf[m]) \in Nat
           /\ \A i \in 1..Len(FilesOf[m]) :
                 FilesOf[m][i] \in Files /\ FilesOf[m][i] \in FilesIn(m)
           /\ FilesIn(m) \subseteq Files
<1>1. FilesOf[m] \in Seq(Files)
  BY ModelCacheAssumption
<1>. QED BY <1>1 DEF FilesIn

LEMMA FileHasOneModel ==
    ASSUME NEW m \in Models, NEW n \in Models, NEW f \in FilesIn(m), f \in FilesIn(n)
    PROVE  m = n
  BY ModelCacheAssumption

LEMMA OriginalChunk ==
    ASSUME NEW f \in Files
    PROVE  /\ Size[f] \in Nat /\ Size[f] > 0
           /\ \A i \in 1..Size[f] : Original(f)[i] = i
<1>1. Size[f] \in Nat \ {0}
  BY ModelCacheAssumption
<1>. QED BY <1>1 DEF Original

LEMMA WriteAtSeq ==
    ASSUME NEW s \in Seq(Nat), NEW k \in Nat, NEW c \in Nat
    PROVE  WriteAt(s, k, c) \in Seq(Nat)
  BY DEF WriteAt, Hole

LEMMA WriteAtEnd ==
    ASSUME NEW s \in Seq(Nat), NEW c \in Nat
    PROVE  /\ Len(WriteAt(s, Len(s), c)) = Len(s) + 1
           /\ WriteAt(s, Len(s), c)[Len(s) + 1] = c
           /\ \A i \in 1..Len(s) : WriteAt(s, Len(s), c)[i] = s[i]
  BY DEF WriteAt, Hole

(* The next chunk makes a longer part of a part.                            *)
LEMMA PartGrows ==
    ASSUME NEW f \in Files, NEW d \in Seq(Nat), Partial(f, d), Len(d) + 1 <= Size[f],
           NEW e \in Seq(Nat), Len(e) = Len(d) + 1, e[Len(d) + 1] = Len(d) + 1,
           \A i \in 1..Len(d) : e[i] = d[i]
    PROVE  Partial(f, e)
<1>. SUFFICES ASSUME NEW i \in 1..Len(e) PROVE e[i] = Original(f)[i]
  BY DEF Partial
<1>1. i \in 1..Size[f] /\ Original(f)[i] = i
  BY OriginalChunk
<1>2. CASE i = Len(d) + 1
  BY <1>1, <1>2
<1>3. CASE i \in 1..Len(d)
  BY <1>1, <1>3 DEF Partial
<1>. QED BY <1>2, <1>3

LEMMA NothingIsPart == ASSUME NEW f \in Files PROVE Partial(f, <<>>)
  BY OriginalChunk DEF Partial

----
(* The invariant                                                            *)

(* A process that has no file in hand has counted nothing.                  *)
TidyJob(j) ==
    /\ j.pc \notin Touching => j.from = 0
    /\ j.pc \notin {"receive", "close"} =>
          j.got = 0 /\ j.linked = FALSE /\ j.ranged = FALSE

(* Two processes with one file in hand are in trouble, and the file is mixed.*)
Alone ==
    \A p, q \in Procs : \A f \in Files :
        p # q /\ Holds(p, f) /\ Holds(q, f) => f \in mixed /\ job[p].trouble

(* Where the process is in its transfer is where the file ends.             *)
InPlace(j) ==
    /\ j.linked => FileOf(j) \in present
    /\ j.pc \in Touching /\ FileOf(j) \notin mixed =>
        /\ j.pc = "open" /\ j.from > 0 /\ FileOf(j) \in present =>
              j.from = Len(disk[FileOf(j)])
        /\ j.pc \in {"receive", "close"} => (j.ranged <=> j.from > 0)
        /\ j.linked => Len(disk[FileOf(j)]) = j.from + j.got

Whole(f) == f \in present /\ Len(disk[f]) = Size[f]

Sealed(f) == Whole(f) /\ (f \in Safetensors => HeaderValid(f))

(* The files an untroubled process has behind it, and the one it checks.    *)
Untroubled(j) == j.trouble = FALSE /\ j.pc \in InLoop \cup {"finish"}

Passed(j) ==
    {f \in Files :
        /\ Untroubled(j)
        /\ \E i \in 1..Len(FilesOf[j.model]) :
              f = FilesOf[j.model][i] /\ (j.pc = "finish" \/ i < j.nth)}

Checked(j) == {f \in Files : Untroubled(j) /\ j.pc = "check" /\ f = FileOf(j)}

Behind ==
    \A p \in Procs : \A f \in Files :
        /\ f \in Passed(job[p]) => Sealed(f) /\ \A q \in Procs : ~Holds(q, f)
        /\ f \in Checked(job[p]) => Whole(f) /\ \A q \in Procs : ~Holds(q, f)

CacheInv ==
    /\ CacheTypeOK
    /\ \A p \in Procs : TidyJob(job[p])
    /\ ResumeIsSound
    /\ Alone
    /\ \A p \in Procs : InPlace(job[p])
    /\ Behind

LEMMA Held ==
    ASSUME CacheTypeOK, NEW p \in Procs, job[p].pc \in InLoop
    PROVE  /\ job[p].model \in Models
           /\ job[p].nth \in 1..Len(FilesOf[job[p].model])
           /\ FileOf(job[p]) \in Files
           /\ FileOf(job[p]) \in FilesIn(job[p].model)
<1>1. job[p].model \in Models /\ job[p].nth \in 1..Len(FilesOf[job[p].model])
  BY DEF CacheTypeOK, InLoop
<1>. QED BY <1>1, FilesTyped DEF FileOf

(* The last part of the invariant after a step, in terms of what the step   *)
(* makes of each process.                                                   *)
LEMMA BehindPrime ==
    ASSUME \A q \in Procs : \A f \in Files :
               /\ f \in Passed(job'[q]) => Sealed(f)' /\ \A r \in Procs : ~Holds(r, f)'
               /\ f \in Checked(job'[q]) => Whole(f)' /\ \A r \in Procs : ~Holds(r, f)'
    PROVE  Behind'
  BY DEF Behind, Passed, Checked, Untroubled, FileOf

LEMMA CacheInvInit ==
    ASSUME NEW s \in Sessions, CacheInit(s) PROVE CacheInv
<1>1. /\ s.disk \in [Files -> Seq(Nat)]
      /\ \A f \in Files : Partial(f, s.disk[f])
      /\ s.index \subseteq Models
      /\ MaxFaults \in Nat
  BY ModelCacheAssumption
<1>2. \A p \in Procs : job[p] = Idle
  BY DEF CacheInit
<1>3. CacheTypeOK
  BY <1>1, <1>2 DEF CacheInit, CacheTypeOK, Idle, Jobs, InLoop
<1>4. ResumeIsSound
  BY <1>1 DEF CacheInit, ResumeIsSound
<1>. QED BY <1>2, <1>3, <1>4
     DEF CacheInv, TidyJob, Alone, InPlace, Behind, Passed, Checked, Untroubled, Holds, Idle, Touching, InLoop

----
(* Steps of one process at no file.                                         *)

(* p becomes j, which has no file in hand; the files are as they were.      *)
LEMMA QuietKeeps ==
    ASSUME CacheInv, NEW p \in Procs, NEW j \in Jobs,
           job' = [job EXCEPT ![p] = j],
           UNCHANGED <<disk, present, mixed>>,
           dirs' \subseteq Models, index' \subseteq Models, faults' \in 0..MaxFaults,
           j.pc \notin Touching, TidyJob(j),
           j.pc # "ready" => j.model \in Models,
           j.pc \in InLoop => j.nth \in 1..Len(FilesOf[j.model]),
           \A f \in Files :
               /\ f \in Passed(j) => Sealed(f) /\ \A q \in Procs \ {p} : ~Holds(q, f)
               /\ f \in Checked(j) => Whole(f) /\ \A q \in Procs \ {p} : ~Holds(q, f)
    PROVE  CacheInv'
<1>1. job'[p] = j /\ \A q \in Procs \ {p} : job'[q] = job[q]
  BY DEF CacheInv, CacheTypeOK
<1>2. CacheTypeOK'
  BY <1>1 DEF CacheInv, CacheTypeOK
<1>3. \A q \in Procs : TidyJob(job[q])'
  BY <1>1 DEF CacheInv, TidyJob
<1>4. ResumeIsSound'
  BY DEF CacheInv, ResumeIsSound
<1>5. \A q \in Procs, f \in Files : Holds(q, f)' => q # p /\ Holds(q, f)
  BY <1>1 DEF Holds
<1>6. Alone'
  BY <1>1, <1>5 DEF CacheInv, Alone
<1>7. ASSUME NEW q \in Procs PROVE InPlace(job[q])'
  <2>1. CASE q = p
    BY <1>1, <2>1 DEF InPlace, TidyJob, Touching
  <2>2. CASE q # p
    BY <1>1, <2>2 DEF CacheInv, InPlace, FileOf
  <2>. QED BY <2>1, <2>2
<1>8. Behind'
  <2>. SUFFICES ASSUME NEW q \in Procs, NEW f \in Files
                PROVE  /\ f \in Passed(job'[q]) => Sealed(f)' /\ \A r \in Procs : ~Holds(r, f)'
                       /\ f \in Checked(job'[q]) => Whole(f)' /\ \A r \in Procs : ~Holds(r, f)'
    BY BehindPrime
  <2>1. (Sealed(f)' <=> Sealed(f)) /\ (Whole(f)' <=> Whole(f))
    BY DEF Sealed, Whole, HeaderValid
  <2>2. CASE q = p
    BY <1>1, <1>5, <2>1, <2>2
  <2>3. CASE q # p
    BY <1>1, <1>5, <2>1, <2>3 DEF CacheInv, Behind
  <2>. QED BY <2>2, <2>3
<1>. QED BY <1>2, <1>3, <1>4, <1>6, <1>7, <1>8 DEF CacheInv

(* The loop over the files goes on.                                         *)
LEMMA OnwardJob ==
    ASSUME NEW j \in Jobs, j.model \in Models, j.pc \in InLoop,
           j.nth \in 1..Len(FilesOf[j.model])
    PROVE  /\ Onward(j) \in Jobs
           /\ Onward(j).pc \in {"head", "finish"} /\ Onward(j).model = j.model
           /\ TidyJob(Onward(j))
           /\ Onward(j).pc \in InLoop => Onward(j).nth \in 1..Len(FilesOf[j.model])
           /\ \A f \in Files : f \notin Checked(Onward(j))
           /\ \A f \in Files : f \in Passed(Onward(j)) =>
                 Untroubled(j) /\ (f = FileOf(j) \/ f \in Passed(j))
<1>. DEFINE n == Len(FilesOf[j.model])
            k == Onward(j)
<1>0. n \in Nat /\ j.nth \in Nat
  BY FilesTyped
<1>1. /\ k \in Jobs /\ k.model = j.model /\ k.trouble = j.trouble
      /\ k.from = 0 /\ k.got = 0 /\ k.linked = FALSE /\ k.ranged = FALSE
      /\ k.pc = IF j.nth < n THEN "head" ELSE "finish"
      /\ k.nth = IF j.nth < n THEN j.nth + 1 ELSE 0
  <2>1. CASE j.nth < n
    <3>1. k = [j EXCEPT !.pc = "head", !.nth = j.nth + 1, !.from = 0, !.got = 0,
                        !.linked = FALSE, !.ranged = FALSE]
      BY <2>1 DEF Onward
    <3>2. j.nth + 1 \in Nat
      BY <1>0
    <3>. HIDE DEF k, n
    <3>3. k \in Jobs
      BY <3>1, <3>2 DEF Jobs, InLoop
    <3>4. k.pc = "head" /\ k.nth = j.nth + 1
      BY <1>0, <3>1 DEF Jobs
    <3>5. /\ k.model = j.model /\ k.trouble = j.trouble
          /\ k.from = 0 /\ k.got = 0 /\ k.linked = FALSE /\ k.ranged = FALSE
      BY <1>0, <3>1 DEF Jobs
    <3>. QED BY <2>1, <3>3, <3>4, <3>5
  <2>2. CASE ~(j.nth < n)
    <3>1. k = [j EXCEPT !.pc = "finish", !.nth = 0, !.from = 0, !.got = 0,
                        !.linked = FALSE, !.ranged = FALSE]
      BY <2>2 DEF Onward
    <3>. HIDE DEF k
    <3>. QED BY <1>0, <2>2, <3>1 DEF Jobs, InLoop
  <2>. QED BY <2>1, <2>2
<1>2. TidyJob(k)
  BY <1>1 DEF TidyJob
<1>3. k.pc \in InLoop => k.nth \in 1..n
  BY <1>0, <1>1 DEF InLoop
<1>4. \A f \in Files : f \notin Checked(k)
  BY <1>1 DEF Checked
<1>5. ASSUME NEW f \in Files, f \in Passed(k)
      PROVE  Untroubled(j) /\ (f = FileOf(j) \/ f \in Passed(j))
  <2>1. Untroubled(j)
    BY <1>1, <1>5 DEF Passed, Untroubled
  <2>2. PICK i \in 1..n : f = FilesOf[j.model][i] /\ (k.pc = "finish" \/ i < k.nth)
    BY <1>1, <1>5 DEF Passed
  <2>3. i = j.nth \/ i < j.nth
    BY <1>0, <1>1, <2>2
  <2>. QED BY <2>1, <2>2, <2>3 DEF Passed, FileOf
<1>. HIDE DEF k
<1>. QED BY <1>1, <1>2, <1>3, <1>4, <1>5 DEF k

LEMMA SkipJob ==
    ASSUME NEW j \in Jobs, j.model \in Models, j.pc \in InLoop,
           j.nth \in 1..Len(FilesOf[j.model])
    PROVE  /\ Skip(j) \in Jobs
           /\ Skip(j).pc \in {"head", "finish"} /\ Skip(j).model = j.model
           /\ TidyJob(Skip(j))
           /\ Skip(j).pc \in InLoop => Skip(j).nth \in 1..Len(FilesOf[j.model])
           /\ \A f \in Files : f \notin Checked(Skip(j)) /\ f \notin Passed(Skip(j))
<1>1. Onward(j) \in Jobs /\ TidyJob(Onward(j))
  BY OnwardJob
<1>2. /\ Skip(j) \in Jobs /\ Skip(j).trouble = TRUE /\ Skip(j).pc = Onward(j).pc
      /\ Skip(j).nth = Onward(j).nth /\ Skip(j).model = Onward(j).model
      /\ Skip(j).from = Onward(j).from /\ Skip(j).got = Onward(j).got
      /\ Skip(j).linked = Onward(j).linked /\ Skip(j).ranged = Onward(j).ranged
  BY <1>1 DEF Skip, Jobs
<1>3. TidyJob(Skip(j))
  BY <1>1, <1>2 DEF TidyJob
<1>4. \A f \in Files : f \notin Checked(Skip(j)) /\ f \notin Passed(Skip(j))
  BY <1>2 DEF Checked, Passed, Untroubled
<1>. QED BY <1>2, <1>3, <1>4, OnwardJob

(* A process that leaves the loop, or never was in it.                      *)
LEMMA IdleKeeps ==
    ASSUME CacheInv, NEW p \in Procs, NEW j \in Jobs,
           job' = [job EXCEPT ![p] = j],
           UNCHANGED <<disk, present, mixed>>,
           dirs' \subseteq Models, index' \subseteq Models, faults' \in 0..MaxFaults,
           j.pc \notin InLoop \cup {"finish"}, TidyJob(j),
           j.pc # "ready" => j.model \in Models
    PROVE  CacheInv'
<1>1. \A f \in Files : f \notin Checked(j) /\ f \notin Passed(j)
  BY DEF Checked, Passed, Untroubled
<1>2. j.pc \notin Touching /\ j.pc \notin InLoop
  BY DEF Touching, InLoop
<1>. QED BY <1>1, <1>2, QuietKeeps

LEMMA SkipKeeps ==
    ASSUME CacheInv, NEW p \in Procs, job[p].pc \in InLoop,
           job' = [job EXCEPT ![p] = Skip(job[p])],
           UNCHANGED <<disk, present, dirs, index, mixed>>, faults' \in 0..MaxFaults
    PROVE  CacheInv'
<1>1. job[p] \in Jobs /\ job[p].model \in Models /\ job[p].nth \in 1..Len(FilesOf[job[p].model])
      /\ dirs \subseteq Models /\ index \subseteq Models
  BY Held DEF CacheInv, CacheTypeOK
<1>2. Skip(job[p]).pc \notin Touching
  BY <1>1, SkipJob DEF Touching
<1>. HIDE DEF Skip
<1>. QED BY <1>1, <1>2, SkipJob, QuietKeeps

LEMMA DoneJob ==
    ASSUME NEW j \in Jobs, NEW a \in {"none", "ok", "failed", "killed"}
    PROVE  Done(j, a) \in Jobs /\ Done(j, a).pc = "done" /\ TidyJob(Done(j, a))
           /\ Done(j, a).model = j.model
<1>1. Done(j, a) = [Idle EXCEPT !.pc = "done", !.op = j.op, !.model = j.model,
                                !.force = j.force, !.answer = a]
  BY DEF Done
<1>3. Idle \in Jobs
  BY DEF Idle, Jobs, InLoop
<1>4. /\ j.op \in {"none", "pull", "remove", "deploy", "stop", "stop all"}
      /\ j.model \in Models \cup {"none"} /\ j.force \in BOOLEAN
  BY DEF Jobs
<1>5. Done(j, a) \in Jobs
  BY <1>1, <1>3, <1>4 DEF Jobs
<1>2. /\ Done(j, a).pc = "done" /\ Done(j, a).model = j.model
      /\ Done(j, a).from = 0 /\ Done(j, a).got = 0
      /\ Done(j, a).linked = FALSE /\ Done(j, a).ranged = FALSE
  BY <1>1 DEF Idle
<1>. QED BY <1>2, <1>5 DEF TidyJob

LEMMA FaultTyped == CacheTypeOK /\ Fault => faults' \in 0..MaxFaults
<1>1. MaxFaults \in Nat
  BY ModelCacheAssumption
<1>. QED BY <1>1 DEF CacheTypeOK, Fault

(* The steps that leave the files alone.                                    *)
LEMMA BeginKeeps ==
    ASSUME CacheInv, NEW p \in Procs, NEW r \in Requests, Begin(p, r)
    PROVE  CacheInv'
<1>1. job[p] \in Jobs /\ dirs \subseteq Models /\ index \subseteq Models
      /\ faults \in 0..MaxFaults /\ job[p].pc = "ready" /\ TidyJob(job[p])
  BY DEF CacheInv, CacheTypeOK, Begin
<1>2. /\ r.op \in {"pull", "remove", "deploy", "stop", "stop all"}
      /\ r.model \in Models /\ r.force \in BOOLEAN
  BY ModelCacheAssumption
<1>. DEFINE j == [job[p] EXCEPT !.pc = IF r.op \in {"pull", "remove"}
                                       THEN "load" ELSE "engine",
                                !.op = r.op, !.model = r.model, !.force = r.force]
<1>3. /\ j \in Jobs /\ j.pc \in {"load", "engine"} /\ j.model \in Models /\ TidyJob(j)
  BY ZenonT(30), <1>1, <1>2 DEF Jobs, TidyJob, Touching
<1>4. job' = [job EXCEPT ![p] = j] /\ UNCHANGED <<disk, present, dirs, index, faults, mixed>>
  BY DEF Begin, Step
<1>. HIDE DEF j
<1>. QED BY <1>1, <1>3, <1>4, IdleKeeps DEF InLoop

LEMMA IndexStepKeeps ==
    ASSUME CacheInv, NEW p \in Procs,
           \/ LoadIndex(p) \/ TruncateIndex(p) \/ WriteIndex(p) \/ SaveFails(p)
           \/ Lookup(p) \/ Finish(p) \/ CacheCrash(p)
    PROVE  CacheInv'
<1>1. job[p] \in Jobs /\ dirs \subseteq Models /\ index \subseteq Models
      /\ faults \in 0..MaxFaults /\ TidyJob(job[p])
      /\ (job[p].pc # "ready" => job[p].model \in Models)
  BY DEF CacheInv, CacheTypeOK
<1>2. ASSUME NEW j \in Jobs, Step(p, j), UNCHANGED <<disk, present, mixed>>,
             dirs' \subseteq Models, index' \subseteq Models,
             UNCHANGED faults \/ Fault,
             j.pc \in {"load", "loaded", "purge", "lookup", "discover", "truncate", "write", "done"},
             TidyJob(j), j.model \in Models
      PROVE  CacheInv'
  <2>1. faults' \in 0..MaxFaults
    BY <1>1, <1>2, FaultTyped DEF CacheInv
  <2>. QED BY <1>2, <2>1, IdleKeeps DEF Step, InLoop
<1>3. ASSUME NEW a \in {"none", "ok", "failed", "killed"}, NEW j \in Jobs, j.model \in Models
      PROVE  /\ Done(j, a) \in Jobs /\ Done(j, a).pc = "done" /\ TidyJob(Done(j, a))
             /\ Done(j, a).model \in Models
  BY <1>3, DoneJob
<1>4. CASE LoadIndex(p)
  <2>. DEFINE k == [job[p] EXCEPT !.copy = index]
  <2>1. k \in Jobs /\ k.model \in Models /\ k.pc = "load" /\ k.op = job[p].op
    BY <1>1, <1>4 DEF LoadIndex, Jobs
  <2>2. job[p].pc = "load"
    BY <1>4, <1>1 DEF LoadIndex, Jobs
  <2>3. \A l \in {"purge", "lookup", "loaded"} :
          LET j == [k EXCEPT !.pc = l]
          IN  j \in Jobs /\ TidyJob(j) /\ j.model \in Models /\ j.pc = l
    BY <1>1, <2>1, <2>2 DEF Jobs, TidyJob, Touching
  <2>4. \/ \E l \in {"purge", "lookup", "loaded"} : Step(p, [k EXCEPT !.pc = l])
        \/ Step(p, Done(k, "failed"))
    BY <1>4 DEF LoadIndex
  <2>5. UNCHANGED <<disk, present, dirs, index, faults, mixed>>
    BY <1>4 DEF LoadIndex
  <2>. HIDE DEF k
  <2>6. CASE Step(p, Done(k, "failed"))
    BY <1>1, <1>2, <1>3, <2>1, <2>5, <2>6
  <2>7. ASSUME NEW l \in {"purge", "lookup", "loaded"}, Step(p, [k EXCEPT !.pc = l])
        PROVE  CacheInv'
    BY <1>1, <1>2, <2>3, <2>5, <2>7
  <2>. QED BY <2>4, <2>6, <2>7
<1>5. ASSUME job[p].pc \in {"truncate", "write"}
      PROVE  /\ Saved(job[p]) \in Jobs /\ TidyJob(Saved(job[p]))
             /\ Saved(job[p]).model \in Models /\ Saved(job[p]).pc \in {"lookup", "done"}
  <2>1. [job[p] EXCEPT !.pc = "lookup"] \in Jobs /\ TidyJob([job[p] EXCEPT !.pc = "lookup"])
        /\ [job[p] EXCEPT !.pc = "lookup"].model = job[p].model
        /\ [job[p] EXCEPT !.pc = "lookup"].pc = "lookup"
    BY <1>1, <1>5 DEF Jobs, TidyJob, Touching
  <2>. QED BY <1>1, <1>3, <1>5, <2>1 DEF Saved
<1>6. CASE TruncateIndex(p)
  <2>1. LET j == [job[p] EXCEPT !.pc = "write"]
        IN  j \in Jobs /\ TidyJob(j) /\ j.model \in Models /\ j.pc = "write"
    BY <1>1, <1>6 DEF TruncateIndex, Jobs, TidyJob, Touching
  <2>. QED BY <1>1, <1>2, <1>6, <2>1 DEF TruncateIndex
<1>7. CASE WriteIndex(p)
  <2>1. index' \subseteq Models
    BY <1>1, <1>7 DEF WriteIndex, Jobs
  <2>2. Step(p, Saved(job[p])) /\ UNCHANGED <<disk, present, dirs, faults, mixed>>
        /\ job[p].pc = "write"
    BY <1>7 DEF WriteIndex
  <2>. QED BY <1>1, <1>2, <1>5, <2>1, <2>2
<1>8. CASE SaveFails(p)
  <2>1. /\ Step(p, SaveFailed(job[p])) /\ Fault
        /\ UNCHANGED <<disk, present, dirs, index, mixed>>
        /\ job[p].pc \in {"truncate", "write"}
    BY <1>8 DEF SaveFails
  <2>2. SaveFailed(job[p]) \in {Saved(job[p]), Done(job[p], "failed")}
    BY DEF SaveFailed
  <2>3. /\ SaveFailed(job[p]) \in Jobs /\ TidyJob(SaveFailed(job[p]))
        /\ SaveFailed(job[p]).model \in Models
        /\ SaveFailed(job[p]).pc \in {"lookup", "done"}
    BY <1>1, <1>3, <1>5, <2>1, <2>2
  <2>. QED BY <1>1, <1>2, <2>1, <2>3
<1>9. CASE Lookup(p)
  <2>1. LET j == [job[p] EXCEPT !.pc = "discover"]
        IN  j \in Jobs /\ TidyJob(j) /\ j.model \in Models /\ j.pc = "discover"
    BY <1>1, <1>9 DEF Lookup, Jobs, TidyJob, Touching
  <2>2. \/ Step(p, Done(job[p], "ok")) \/ Step(p, [job[p] EXCEPT !.pc = "discover"])
    BY <1>9 DEF Lookup
  <2>3. dirs' \subseteq Models /\ UNCHANGED <<disk, present, index, faults, mixed>>
        /\ job[p].model \in Models
    BY <1>1, <1>9 DEF Lookup
  <2>4. CASE Step(p, Done(job[p], "ok"))
    BY <1>1, <1>2, <1>3, <2>3, <2>4
  <2>5. CASE Step(p, [job[p] EXCEPT !.pc = "discover"])
    BY <1>1, <1>2, <2>1, <2>3, <2>5
  <2>. QED BY <2>2, <2>4, <2>5
<1>10. CASE Finish(p)
  <2>. DEFINE k == [job[p] EXCEPT !.pc = "truncate", !.fetched = TRUE,
                                  !.copy = @ \cup {job[p].model}]
  <2>0. job[p].pc = "finish" /\ job[p].model \in Models
    BY <1>1, <1>10 DEF Finish
  <2>1. k \in Jobs /\ TidyJob(k) /\ k.model \in Models /\ k.pc = "truncate"
    BY <1>1, <2>0 DEF Jobs, TidyJob, Touching
  <2>2. Step(p, Done(job[p], "failed")) \/ Step(p, k)
    BY <1>10 DEF Finish
  <2>3. UNCHANGED <<disk, present, dirs, index, faults, mixed>>
    BY <1>10 DEF Finish
  <2>. HIDE DEF k
  <2>4. CASE Step(p, Done(job[p], "failed"))
    BY <1>1, <1>2, <1>3, <2>0, <2>3, <2>4
  <2>5. CASE Step(p, k)
    BY <1>1, <1>2, <2>1, <2>3, <2>5
  <2>. QED BY <2>2, <2>4, <2>5
<1>11. CASE CacheCrash(p)
  <2>1. /\ job[p].model \in Models /\ Step(p, Done(job[p], "killed")) /\ Fault
        /\ UNCHANGED <<disk, present, dirs, index, mixed>>
    BY <1>1, <1>11 DEF CacheCrash, Live
  <2>. QED BY <1>1, <1>2, <1>3, <2>1
<1>. QED BY <1>4, <1>6, <1>7, <1>8, <1>9, <1>10, <1>11

(* The loop over the files begins.                                          *)
LEMMA BegunJob ==
    ASSUME NEW j \in Jobs, j.model \in Models, j.pc = "discover", TidyJob(j),
           NEW k \in Nat \ {0}
    PROVE  /\ Begun(j, k) \in Jobs /\ Begun(j, k).model = j.model
           /\ Begun(j, k).pc \in {"head", "finish"} /\ TidyJob(Begun(j, k))
           /\ Begun(j, k).pc = "head" =>
                 Begun(j, k).nth = k /\ k \in 1..Len(FilesOf[j.model])
           /\ Begun(j, k).pc = "finish" => k > Len(FilesOf[j.model])
<1>1. Len(FilesOf[j.model]) \in Nat
  BY FilesTyped
<1>2. CASE k <= Len(FilesOf[j.model])
  <2>1. Begun(j, k) = [j EXCEPT !.pc = "head", !.nth = k]
    BY <1>2 DEF Begun
  <2>2. /\ Begun(j, k) \in Jobs /\ Begun(j, k).model = j.model
        /\ Begun(j, k).pc = "head" /\ Begun(j, k).nth = k
        /\ Begun(j, k).from = j.from /\ Begun(j, k).got = j.got
        /\ Begun(j, k).linked = j.linked /\ Begun(j, k).ranged = j.ranged
    BY <2>1 DEF Jobs, InLoop
  <2>. QED BY <1>1, <1>2, <2>2 DEF TidyJob, Touching
<1>3. CASE ~(k <= Len(FilesOf[j.model]))
  <2>1. Begun(j, k) = [j EXCEPT !.pc = "finish", !.nth = 0]
    BY <1>3 DEF Begun
  <2>3. Begun(j, k) \in Jobs
    <3>1. \A n \in Nat : [j EXCEPT !.pc = "finish", !.nth = n] \in Jobs
      BY DEF Jobs, InLoop
    <3>. QED BY <2>1, <3>1
  <2>2. /\ Begun(j, k).model = j.model
        /\ Begun(j, k).pc = "finish"
        /\ Begun(j, k).from = j.from /\ Begun(j, k).got = j.got
        /\ Begun(j, k).linked = j.linked /\ Begun(j, k).ranged = j.ranged
    BY <2>1 DEF Jobs, InLoop
  <2>. QED BY <1>1, <1>3, <2>2, <2>3 DEF TidyJob, Touching
<1>. QED BY <1>2, <1>3

LEMMA DiscoverKeeps ==
    ASSUME CacheInv, NEW p \in Procs, Discover(p)
    PROVE  CacheInv'
<1>. DEFINE m == job[p].model
<1>1. /\ job[p] \in Jobs /\ dirs \subseteq Models /\ index \subseteq Models
      /\ faults \in 0..MaxFaults /\ TidyJob(job[p]) /\ job[p].pc = "discover"
      /\ m \in Models
  BY DEF CacheInv, CacheTypeOK, Discover
<1>2. Len(FilesOf[m]) \in Nat /\ Shards[m] + 1 \in Nat \ {0}
  <2>1. Shards \in [Models -> Nat]
    BY ModelCacheAssumption
  <2>. QED BY <1>1, <2>1, FilesTyped
<1>3. UNCHANGED <<disk, present, dirs, index, mixed>>
  BY DEF Discover
<1>4. CASE Step(p, Begun(job[p], 1)) /\ UNCHANGED faults
  <2>. DEFINE j == Begun(job[p], 1)
  <2>1. /\ j \in Jobs /\ TidyJob(j) /\ j.pc \in {"head", "finish"} /\ j.model = m
        /\ j.pc = "head" => j.nth = 1 /\ 1 \in 1..Len(FilesOf[m])
        /\ j.pc = "finish" => 1 > Len(FilesOf[m])
    BY <1>1, BegunJob
  <2>. HIDE DEF j
  <2>2. \A f \in Files : f \notin Checked(j) /\ f \notin Passed(j)
    BY <1>2, <2>1 DEF Checked, Passed
  <2>3. Step(p, j)
    BY <1>4 DEF j
  <2>. QED BY <1>1, <1>3, <1>4, <2>1, <2>2, <2>3, QuietKeeps DEF Step, Touching, InLoop
<1>5. CASE Fault /\ Step(p, [Begun(job[p], Shards[m] + 1) EXCEPT !.trouble = TRUE])
  <2>. DEFINE k == Begun(job[p], Shards[m] + 1)
              j == [k EXCEPT !.trouble = TRUE]
  <2>1. /\ k \in Jobs /\ TidyJob(k) /\ k.pc \in {"head", "finish"} /\ k.model = m
        /\ k.pc = "head" => k.nth \in 1..Len(FilesOf[m])
    BY <1>1, <1>2, BegunJob
  <2>. HIDE DEF k
  <2>2. /\ j \in Jobs /\ TidyJob(j) /\ j.pc \in {"head", "finish"} /\ j.model = m
        /\ j.pc = "head" => j.nth \in 1..Len(FilesOf[m])
        /\ j.trouble = TRUE
    BY <2>1 DEF Jobs, TidyJob
  <2>. HIDE DEF j
  <2>3. \A f \in Files : f \notin Checked(j) /\ f \notin Passed(j)
    BY <2>2 DEF Checked, Passed, Untroubled
  <2>4. faults' \in 0..MaxFaults
    BY <1>5, FaultTyped DEF CacheInv
  <2>5. Step(p, j)
    BY <1>5 DEF j, k
  <2>. QED BY <1>1, <1>3, <2>2, <2>3, <2>4, <2>5, QuietKeeps DEF Step, Touching, InLoop
<1>. QED BY <1>4, <1>5 DEF Discover

----
(* Steps of one process at a file.                                          *)

(* p goes on with the file it has in hand, which becomes d.                 *)
LEMMA TransferKeeps ==
    ASSUME CacheInv, NEW p \in Procs, job[p].pc \in Touching,
           NEW f \in Files, f = FileOf(job[p]),
           NEW j \in Jobs, job' = [job EXCEPT ![p] = j],
           j.pc \in {"receive", "close"}, j.model = job[p].model, j.nth = job[p].nth,
           j.trouble = FALSE => job[p].trouble = FALSE,
           NEW d \in Seq(Nat), disk' = [disk EXCEPT ![f] = d],
           present' \in {present, present \cup {f}},
           f \notin present' => d = <<>>,
           mixed' \subseteq Files,
           \A g \in Files : g # f => (g \in mixed' <=> g \in mixed),
           j.linked => f \in present',
           f \notin mixed' =>
              /\ Partial(f, d)
              /\ \A q \in Procs : q # p => ~Holds(q, f)
              /\ j.ranged <=> j.from > 0
              /\ j.linked => Len(d) = j.from + j.got,
           UNCHANGED <<dirs, index>>, faults' \in 0..MaxFaults
    PROVE  CacheInv'
<1>0. job[p].pc \in InLoop /\ CacheTypeOK /\ f \in FilesIn(job[p].model)
  BY Held DEF Touching, InLoop, CacheInv
<1>1. job'[p] = j /\ \A q \in Procs \ {p} : job'[q] = job[q]
  BY <1>0 DEF CacheTypeOK
<1>2. disk'[f] = d /\ \A g \in Files : g # f => disk'[g] = disk[g]
  BY <1>0 DEF CacheTypeOK
<1>3. \A q \in Procs, g \in Files : Holds(q, g)' <=> Holds(q, g)
  <2>1. \A g \in Files : Holds(p, g) <=> g = f
    BY DEF Holds
  <2>2. \A g \in Files : Holds(p, g)' <=> g = f
    BY <1>1 DEF Holds, FileOf, Touching
  <2>3. \A q \in Procs \ {p}, g \in Files : Holds(q, g)' <=> Holds(q, g)
    BY <1>1 DEF Holds
  <2>. QED BY <2>1, <2>2, <2>3
<1>4. CacheTypeOK'
  <2>1. disk' \in [Files -> Seq(Nat)] /\ job' \in [Procs -> Jobs]
    BY <1>0 DEF CacheTypeOK
  <2>2. \A g \in Files \ present' : disk'[g] = <<>>
    BY <1>0, <1>2 DEF CacheTypeOK
  <2>3. \A q \in Procs :
          /\ job'[q].pc # "ready" => job'[q].model \in Models
          /\ job'[q].pc \in InLoop =>
                job'[q].nth \in 1..Len(FilesOf[job'[q].model])
    BY <1>0, <1>1 DEF CacheTypeOK, InLoop
  <2>. QED BY <1>0, <2>1, <2>2, <2>3 DEF CacheTypeOK
<1>5. \A q \in Procs : TidyJob(job[q])'
  BY <1>1 DEF CacheInv, TidyJob, Touching
<1>6. ResumeIsSound'
  BY <1>2 DEF CacheInv, ResumeIsSound
<1>7. Alone'
  <2>. SUFFICES ASSUME NEW q \in Procs, NEW r \in Procs, NEW g \in Files,
                       q # r, Holds(q, g), Holds(r, g)
                PROVE  g \in mixed' /\ job'[q].trouble
    BY <1>3 DEF Alone
  <2>1. g \in mixed /\ job[q].trouble /\ job[r].trouble
    BY DEF CacheInv, Alone
  <2>2. job'[q].trouble
    BY <1>0, <1>1, <2>1 DEF Jobs, CacheTypeOK
  <2>3. g \in mixed'
    <3>1. CASE g = f
      BY <3>1
    <3>2. CASE g # f
      BY <2>1, <3>2
    <3>. QED BY <3>1, <3>2
  <2>. QED BY <2>2, <2>3
<1>8. ASSUME NEW q \in Procs PROVE InPlace(job[q])'
  <2>1. CASE q = p
    BY <1>1, <1>2, <2>1 DEF InPlace, FileOf
  <2>2. CASE q # p
    <3>0. job'[q].linked => FileOf(job'[q]) \in present'
      <4>1. job'[q] = job[q] /\ FileOf(job'[q]) = FileOf(job[q])
            /\ (job[q].linked => FileOf(job[q]) \in present)
        BY <1>1, <2>2 DEF CacheInv, InPlace, FileOf
      <4>. QED BY <4>1
    <3>. SUFFICES ASSUME job[q].pc \in Touching, FileOf(job[q]) \notin mixed'
                  PROVE  InPlace(job[q])'
      BY <1>1, <2>2, <3>0 DEF InPlace, FileOf
    <3>1. Holds(q, FileOf(job[q])) /\ FileOf(job[q]) \in Files
      BY <1>0, Held DEF Holds, Touching, InLoop
    <3>2. FileOf(job[q]) # f
      BY <2>2, <3>1
    <3>3. FileOf(job[q]) \notin mixed /\ InPlace(job[q])
      BY <3>1, <3>2 DEF CacheInv
    <3>4. /\ disk'[FileOf(job[q])] = disk[FileOf(job[q])]
          /\ FileOf(job[q]) \in present' <=> FileOf(job[q]) \in present
      BY <1>2, <3>1, <3>2
    <3>. QED BY <1>1, <2>2, <3>3, <3>4 DEF InPlace, FileOf
  <2>. QED BY <2>1, <2>2
<1>9. Behind'
  <2>. SUFFICES ASSUME NEW q \in Procs, NEW g \in Files
                PROVE  /\ g \in Passed(job'[q]) => Sealed(g)' /\ \A r \in Procs : ~Holds(r, g)'
                       /\ g \in Checked(job'[q]) => Whole(g)' /\ \A r \in Procs : ~Holds(r, g)'
    BY BehindPrime
  <2>1. ASSUME g # f
        PROVE  (Sealed(g)' <=> Sealed(g)) /\ (Whole(g)' <=> Whole(g))
    BY <1>2, <2>1 DEF Sealed, Whole, HeaderValid
  <2>2. g \in Passed(job'[q]) => g \in Passed(job[q])
    <3>1. CASE q # p
      BY <1>1, <3>1
    <3>2. CASE q = p
      BY <1>0, <1>1, <3>2 DEF Passed, Untroubled, InLoop, Touching
    <3>. QED BY <3>1, <3>2
  <2>3. g \in Checked(job'[q]) => g \in Checked(job[q])
    <3>1. CASE q # p
      BY <1>1, <3>1
    <3>2. CASE q = p
      BY <1>1, <3>2 DEF Checked
    <3>. QED BY <3>1, <3>2
  <2>4. Holds(p, f)
    BY DEF Holds
  <2>5. /\ g \in Passed(job[q]) => Sealed(g) /\ \A r \in Procs : ~Holds(r, g)
        /\ g \in Checked(job[q]) => Whole(g) /\ \A r \in Procs : ~Holds(r, g)
    BY DEF CacheInv, Behind
  <2>. QED BY <1>3, <2>1, <2>2, <2>3, <2>4, <2>5
<1>. QED BY <1>4, <1>5, <1>6, <1>7, <1>8, <1>9 DEF CacheInv

(* p is through with its file, and files are removed from under the others. *)
LEMMA UnlinkKeeps ==
    ASSUME CacheInv, NEW p \in Procs, NEW fs \in SUBSET Files, Unlink(fs),
           job' \in [Procs -> Jobs],
           job'[p].pc \notin Touching, TidyJob(job'[p]),
           job'[p].pc # "ready" => job'[p].model \in Models,
           job'[p].pc \in InLoop =>
               job'[p].nth \in 1..Len(FilesOf[job'[p].model]),
           \A f \in Files : f \notin Passed(job'[p]) /\ f \notin Checked(job'[p]),
           \A q \in Procs \ {p} :
               \/ /\ job'[q] = job[q]
                  /\ \A f \in fs : ~Holds(q, f) /\ f \notin Passed(job[q])
                                                /\ f \notin Checked(job[q])
               \/ /\ job'[q].trouble = TRUE
                  /\ job'[q].linked => job[q].linked /\ \A f \in fs : ~Holds(q, f)
                  /\ job'[q].pc = job[q].pc /\ job'[q].model = job[q].model
                  /\ job'[q].nth = job[q].nth /\ job'[q].from = job[q].from
                  /\ job'[q].got = job[q].got /\ job'[q].ranged = job[q].ranged,
           dirs' \subseteq Models, index' \subseteq Models, faults' \in 0..MaxFaults
    PROVE  CacheInv'
<1>0. CacheTypeOK
  BY DEF CacheInv
<1>1. /\ present' = present \ fs
      /\ disk' = [f \in Files |-> IF f \in fs THEN <<>> ELSE disk[f]]
      /\ mixed' = {f \in mixed : f \notin fs \/ \E q \in Procs : Holds(q, f)}
  BY DEF Unlink
<1>2. \A q \in Procs \ {p} :
        /\ job'[q].pc = job[q].pc /\ job'[q].model = job[q].model
        /\ job'[q].nth = job[q].nth /\ job'[q].from = job[q].from
        /\ job'[q].got = job[q].got /\ job'[q].ranged = job[q].ranged
        /\ job[q].trouble = TRUE => job'[q].trouble = TRUE
        /\ job'[q].linked => job[q].linked /\ \A f \in fs : ~Holds(q, f)
  OBVIOUS
<1>3. \A q \in Procs, f \in Files : Holds(q, f)' => q # p /\ Holds(q, f)
  BY <1>2 DEF Holds, FileOf
<1>4. CacheTypeOK'
  <2>1. disk' \in [Files -> Seq(Nat)]
    BY <1>0, <1>1 DEF CacheTypeOK
  <2>2. \A g \in Files \ present' : disk'[g] = <<>>
    BY <1>0, <1>1 DEF CacheTypeOK
  <2>3. present' \subseteq Files /\ mixed' \subseteq Files
    BY <1>0, <1>1 DEF CacheTypeOK
  <2>4. \A q \in Procs :
          /\ job'[q].pc # "ready" => job'[q].model \in Models
          /\ job'[q].pc \in InLoop =>
                job'[q].nth \in 1..Len(FilesOf[job'[q].model])
    BY <1>0, <1>2 DEF CacheTypeOK
  <2>. QED BY <2>1, <2>2, <2>3, <2>4 DEF CacheTypeOK
<1>5. ASSUME NEW q \in Procs PROVE TidyJob(job'[q])
  <2>1. CASE q = p
    BY <2>1
  <2>2. CASE q # p
    <3>1. job'[q].linked \in BOOLEAN /\ TidyJob(job[q])
      BY DEF Jobs, CacheInv
    <3>. QED BY <1>2, <2>2, <3>1 DEF TidyJob
  <2>. QED BY <2>1, <2>2
<1>6. ResumeIsSound'
  <2>. SUFFICES ASSUME NEW f \in Files, f \notin mixed' PROVE Partial(f, disk'[f])
    BY DEF ResumeIsSound, Partial, Original
  <2>1. CASE f \in fs
    BY <1>1, <2>1, NothingIsPart
  <2>2. CASE f \notin fs
    BY <1>1, <2>2 DEF CacheInv, ResumeIsSound
  <2>. QED BY <2>1, <2>2
<1>7. Alone'
  <2>. SUFFICES ASSUME NEW q \in Procs \ {p}, NEW r \in Procs \ {p}, NEW g \in Files,
                       q # r, Holds(q, g), Holds(r, g)
                PROVE  g \in mixed' /\ job'[q].trouble
    BY <1>3 DEF Alone
  <2>1. g \in mixed /\ job[q].trouble
    BY DEF CacheInv, Alone
  <2>2. job[q].trouble = TRUE
    BY <1>0, <2>1 DEF CacheTypeOK, Jobs
  <2>3. job'[q].trouble = TRUE
    BY <1>2, <2>2
  <2>4. g \in mixed'
    BY <1>1, <2>1
  <2>. QED BY <2>3, <2>4
<1>8. ASSUME NEW q \in Procs PROVE InPlace(job[q])'
  <2>1. CASE q = p
    BY <2>1 DEF InPlace, FileOf, TidyJob, Touching
  <2>2. CASE q # p
    <3>. DEFINE f == FileOf(job[q])
    <3>0. FileOf(job'[q]) = f
      BY <1>2, <2>2 DEF FileOf
    <3>6. job'[q].linked => f \in present'
      <4>. SUFFICES ASSUME job'[q].linked PROVE f \in present'
        OBVIOUS
      <4>0. \A g \in fs : ~Holds(q, g)
        BY <2>2
      <4>1. job[q].linked /\ TidyJob(job[q]) /\ job[q] \in Jobs
        BY <1>0, <1>2, <2>2 DEF CacheInv, CacheTypeOK
      <4>2. job[q].pc \in Touching
        BY <4>1 DEF TidyJob, Touching, Jobs
      <4>3. f \in Files /\ f \in present
        BY <1>0, <4>1, <4>2, Held DEF CacheInv, InPlace, Touching, InLoop
      <4>4. f \notin fs
        BY <4>0, <4>2 DEF Holds
      <4>. QED BY <1>1, <4>3, <4>4
    <3>. SUFFICES ASSUME job[q].pc \in Touching, f \notin mixed'
                  PROVE  /\ job[q].pc = "open" /\ job[q].from > 0 /\ f \in present' =>
                               job[q].from = Len(disk'[f])
                         /\ job[q].pc \in {"receive", "close"} =>
                               (job[q].ranged <=> job[q].from > 0)
                         /\ job'[q].linked =>
                               Len(disk'[f]) = job[q].from + job[q].got
      BY <1>2, <2>2, <3>0, <3>6 DEF InPlace, FileOf
    <3>1. Holds(q, f) /\ f \in Files
      BY <1>0, Held DEF Holds, Touching, InLoop
    <3>2. f \notin mixed
      BY <1>1, <3>1
    <3>3. InPlace(job[q])
      BY DEF CacheInv
    <3>4. CASE f \in fs
      BY <1>1, <1>2, <2>2, <3>1, <3>2, <3>3, <3>4 DEF InPlace
    <3>5. CASE f \notin fs
      BY <1>1, <1>2, <2>2, <3>1, <3>2, <3>3, <3>5 DEF InPlace
    <3>. QED BY <3>4, <3>5
  <2>. QED BY <2>1, <2>2
<1>9. Behind'
  <2>. SUFFICES ASSUME NEW q \in Procs, NEW g \in Files
                PROVE  /\ g \in Passed(job'[q]) => Sealed(g)' /\ \A r \in Procs : ~Holds(r, g)'
                       /\ g \in Checked(job'[q]) => Whole(g)' /\ \A r \in Procs : ~Holds(r, g)'
    BY BehindPrime
  <2>1. ASSUME g \notin fs
        PROVE  (Sealed(g)' <=> Sealed(g)) /\ (Whole(g)' <=> Whole(g))
    BY <1>1, <2>1 DEF Sealed, Whole, HeaderValid
  <2>2. CASE q = p
    BY <2>2
  <2>3. CASE q # p /\ job'[q].trouble = TRUE
    BY <2>3 DEF Passed, Checked, Untroubled
  <2>4. CASE q # p /\ job'[q] = job[q] /\ \A f \in fs : f \notin Passed(job[q])
                                                      /\ f \notin Checked(job[q])
    BY <1>3, <2>1, <2>4 DEF CacheInv, Behind
  <2>. QED BY <2>2, <2>3, <2>4
<1>10. \A q \in Procs : TidyJob(job[q])'
  BY <1>5 DEF TidyJob
<1>. QED BY <1>4, <1>10, <1>6, <1>7, <1>8, <1>9 DEF CacheInv

LEMMA ExamineKeeps ==
    ASSUME CacheInv, NEW p \in Procs, Examine(p)
    PROVE  CacheInv'
<1>. DEFINE f == FileOf(job[p])
            k == IF f \in present THEN Len(disk[f]) ELSE 0
            from == IF k < Size[f] THEN k ELSE 0
            crowd == Others(p, f)
            seen == [job[p] EXCEPT !.found = TRUE, !.trouble = @ \/ crowd # {}]
            j == IF Already(f) THEN [seen EXCEPT !.pc = "check"]
                               ELSE [seen EXCEPT !.pc = "open", !.from = from]
<1>0. /\ CacheTypeOK /\ job[p] \in Jobs /\ job[p].pc = "head" /\ job[p].pc \in InLoop
      /\ UNCHANGED <<disk, present, dirs, index>>
  BY DEF CacheInv, CacheTypeOK, Examine, InLoop
<1>1. f \in Files /\ job[p].model \in Models /\ job[p].nth \in 1..Len(FilesOf[job[p].model])
  BY <1>0, Held
<1>2. CASE Fault /\ Step(p, Skip(job[p])) /\ UNCHANGED mixed
  BY <1>0, <1>2, FaultTyped, SkipKeeps DEF Step
<1>3. CASE /\ job' = [q \in Procs |->
                        IF q = p THEN j
                        ELSE IF q \in crowd THEN [job[q] EXCEPT !.trouble = TRUE]
                        ELSE job[q]]
           /\ mixed' = IF crowd # {} THEN mixed \cup {f} ELSE mixed
           /\ UNCHANGED faults
  <2>1. from \in Nat /\ (f \in present /\ from > 0 => from = Len(disk[f]))
        /\ (from > 0 => f \in present)
    <3>1. disk[f] \in Seq(Nat)
      BY <1>0, <1>1 DEF CacheTypeOK
    <3>. QED BY <3>1
  <2>2. /\ seen \in Jobs /\ seen.model = job[p].model /\ seen.nth = job[p].nth
        /\ seen.from = 0 /\ seen.got = 0
        /\ seen.linked = FALSE /\ seen.ranged = FALSE
        /\ seen.trouble = (job[p].trouble \/ crowd # {})
    <3>1. TidyJob(job[p])
      BY DEF CacheInv
    <3>. HIDE DEF crowd
    <3>2. /\ job[p].from = 0 /\ job[p].got = 0
          /\ job[p].linked = FALSE /\ job[p].ranged = FALSE
      BY <1>0, <3>1 DEF TidyJob, Touching
    <3>. QED BY <1>0, <3>2 DEF Jobs
  <2>. HIDE DEF from, seen
  <2>3. /\ j \in Jobs /\ j.model = job[p].model /\ j.nth = job[p].nth
        /\ j.got = 0 /\ j.linked = FALSE /\ j.ranged = FALSE
        /\ j.trouble = (job[p].trouble \/ crowd # {})
        /\ j.pc = IF Already(f) THEN "check" ELSE "open"
        /\ j.from = IF Already(f) THEN 0 ELSE from
    <3>. HIDE DEF f, crowd
    <3>1. CASE Already(f)
      BY <2>2, <3>1 DEF Jobs, InLoop
    <3>2. CASE ~Already(f)
      BY <2>1, <2>2, <3>2 DEF Jobs, InLoop
    <3>. QED BY <3>1, <3>2
  <2>4. job'[p] = j
    BY <1>3
  <2>. HIDE DEF j
  <2>5. ASSUME NEW q \in Procs \ {p}
        PROVE  /\ job'[q] \in Jobs
               /\ job'[q].pc = job[q].pc /\ job'[q].model = job[q].model
               /\ job'[q].nth = job[q].nth /\ job'[q].from = job[q].from
               /\ job'[q].got = job[q].got /\ job'[q].ranged = job[q].ranged
               /\ job'[q].linked = job[q].linked
               /\ job'[q].trouble = FALSE => job[q].trouble = FALSE
               /\ job[q].trouble => job'[q].trouble
               /\ q \in crowd => job'[q].trouble
    <3>1. job[q] \in Jobs
      BY <1>0 DEF CacheTypeOK
    <3>2. job'[q] = IF q \in crowd THEN [job[q] EXCEPT !.trouble = TRUE] ELSE job[q]
      BY <1>3
    <3>. HIDE DEF crowd
    <3>. QED BY ZenonT(30), <3>1, <3>2 DEF Jobs
  <2>6. \A q \in Procs, g \in Files :
          Holds(q, g)' <=> \/ q # p /\ Holds(q, g)
                           \/ q = p /\ g = f /\ ~Already(f)
    <3>1. \A g \in Files : Holds(p, g)' <=> g = f /\ ~Already(f)
      BY <2>3, <2>4 DEF Holds, FileOf, Touching
    <3>2. \A q \in Procs \ {p}, g \in Files : Holds(q, g)' <=> Holds(q, g)
      BY <2>5 DEF Holds, FileOf
    <3>. QED BY <3>1, <3>2
  <2>7. \A q \in Procs : q \in crowd <=> q # p /\ Holds(q, f)
    BY DEF Others
  <2>. HIDE DEF crowd
  <2>8. mixed \subseteq mixed' /\ mixed' \subseteq Files /\ (crowd # {} => f \in mixed')
    BY <1>0, <1>1, <1>3 DEF CacheTypeOK
  <2>9. CacheTypeOK'
    <3>1. job' \in [Procs -> Jobs]
      <4>1. \A q \in Procs : job'[q] \in Jobs
        BY <2>3, <2>4, <2>5
      <4>. QED BY <1>3, <4>1
    <3>2. \A q \in Procs :
            /\ job'[q].pc # "ready" => job'[q].model \in Models
            /\ job'[q].pc \in InLoop =>
                  job'[q].nth \in 1..Len(FilesOf[job'[q].model])
      <4>1. job'[p].model \in Models /\ job'[p].nth \in 1..Len(FilesOf[job'[p].model])
        BY <1>1, <2>3, <2>4
      <4>. QED BY <1>0, <2>5, <4>1 DEF CacheTypeOK
    <3>. QED BY <1>0, <1>3, <2>8, <3>1, <3>2 DEF CacheTypeOK
  <2>10. \A q \in Procs : TidyJob(job[q])'
    <3>1. TidyJob(job[p])'
      BY <2>3, <2>4 DEF TidyJob, Touching
    <3>. QED BY ZenonT(30), <2>5, <3>1 DEF TidyJob, CacheInv
  <2>11. ResumeIsSound'
    BY <1>0, <2>8 DEF CacheInv, ResumeIsSound
  <2>12. Alone'
    <3>. SUFFICES ASSUME NEW q \in Procs, NEW r \in Procs, NEW g \in Files,
                         q # r, Holds(q, g)', Holds(r, g)'
                  PROVE  g \in mixed' /\ job'[q].trouble
      BY DEF Alone
    <3>1. CASE q # p /\ r # p
      BY <2>5, <2>6, <2>8, <3>1 DEF CacheInv, Alone
    <3>2. CASE q = p
      <4>1. g = f /\ r \in crowd
        BY <2>6, <2>7, <3>2
      <4>. QED BY <2>3, <2>4, <2>8, <3>2, <4>1
    <3>3. CASE r = p
      <4>1. g = f /\ q \in crowd
        BY <2>6, <2>7, <3>3
      <4>. QED BY <2>5, <2>8, <3>3, <4>1
    <3>. QED BY <3>1, <3>2, <3>3
  <2>13. ASSUME NEW q \in Procs PROVE InPlace(job[q])'
    <3>1. CASE q = p
      <4>1. FileOf(job'[p]) = f
        BY <2>3, <2>4 DEF FileOf
      <4>. HIDE DEF f
      <4>2. disk'[f] = disk[f] /\ present' = present
        BY <1>0
      <4>. QED BY <2>1, <2>3, <2>4, <3>1, <4>1, <4>2 DEF InPlace
    <3>2. CASE q # p
      <4>1. FileOf(job'[q]) = FileOf(job[q]) /\ InPlace(job[q])
        BY <2>5, <3>2 DEF FileOf, CacheInv
      <4>. QED BY <1>0, <2>5, <2>8, <3>2, <4>1 DEF InPlace
    <3>. QED BY <3>1, <3>2
  <2>14. Behind'
    <3>. SUFFICES ASSUME NEW q \in Procs, NEW g \in Files
                  PROVE  /\ g \in Passed(job'[q]) => Sealed(g)' /\ \A r \in Procs : ~Holds(r, g)'
                         /\ g \in Checked(job'[q]) => Whole(g)' /\ \A r \in Procs : ~Holds(r, g)'
      BY BehindPrime
    <3>1. (Sealed(g)' <=> Sealed(g)) /\ (Whole(g)' <=> Whole(g))
      BY <1>0 DEF Sealed, Whole, HeaderValid
    <3>2. Whole(f) <=> Already(f)
      BY DEF Whole, Already
    <3>3. Sealed(g) => Whole(g)
      BY DEF Sealed
    <3>4. g \in Passed(job'[q]) => g \in Passed(job[q])
      <4>1. CASE q = p
        BY <1>0, <2>3, <2>4, <4>1 DEF Passed, Untroubled, InLoop, Jobs
      <4>2. CASE q # p
        BY <2>5, <4>2 DEF Passed, Untroubled
      <4>. QED BY <4>1, <4>2
    <3>8. /\ g \in Passed(job[q]) => Sealed(g) /\ \A r \in Procs : ~Holds(r, g)
          /\ g \in Checked(job[q]) => Whole(g) /\ \A r \in Procs : ~Holds(r, g)
      BY DEF CacheInv, Behind
    <3>9. Whole(g) /\ (\A r \in Procs : ~Holds(r, g)) => \A r \in Procs : ~Holds(r, g)'
      BY <2>6, <3>2
    <3>5. CASE g \in Passed(job'[q]) /\ g \notin Checked(job'[q])
      BY <3>1, <3>3, <3>4, <3>5, <3>8, <3>9
    <3>6. CASE g \in Checked(job'[q]) /\ q # p
      <4>1. g \in Checked(job[q])
        BY <2>5, <3>6 DEF Checked, Untroubled, FileOf
      <4>. QED BY <3>1, <3>3, <3>4, <3>8, <3>9, <4>1
    <3>7. CASE g \in Checked(job'[q]) /\ q = p
      <4>1. g = f /\ Already(f) /\ crowd = {}
        BY <2>3, <2>4, <3>7 DEF Checked, Untroubled, FileOf
      <4>2. Whole(g) /\ \A r \in Procs : ~Holds(r, g)'
        BY <2>6, <2>7, <3>2, <4>1
      <4>. QED BY <3>1, <3>3, <3>4, <3>8, <3>9, <4>2
    <3>. QED BY <3>5, <3>6, <3>7
  <2>. QED BY <2>9, <2>10, <2>11, <2>12, <2>13, <2>14 DEF CacheInv
<1>4. FileOf([job[p] EXCEPT !.found = TRUE]) = f
  BY <1>0 DEF FileOf, Jobs
<1>5. [[job[p] EXCEPT !.found = TRUE] EXCEPT !.trouble = @ \/ crowd # {}] = seen
  BY <1>0 DEF Jobs
<1>6. \/ Fault /\ Step(p, Skip(job[p])) /\ UNCHANGED mixed
      \/ /\ job' = [q \in Procs |->
                        IF q = p THEN j
                        ELSE IF q \in crowd THEN [job[q] EXCEPT !.trouble = TRUE]
                        ELSE job[q]]
         /\ mixed' = IF crowd # {} THEN mixed \cup {f} ELSE mixed
         /\ UNCHANGED faults
  <2>. HIDE DEF crowd, seen, f, k
  <2>. QED BY <1>4, <1>5 DEF Examine, crowd, f, k
<1>. QED BY <1>2, <1>3, <1>6

LEMMA OpenFileKeeps ==
    ASSUME CacheInv, NEW p \in Procs, OpenFile(p)
    PROVE  CacheInv'
<1>. DEFINE f == FileOf(job[p])
            opened == [job[p] EXCEPT !.pc = "receive", !.linked = TRUE]
            possible == IF job[p].from > 0 THEN f \in present
                                           ELSE job[p].model \in dirs
<1>0. /\ CacheTypeOK /\ job[p] \in Jobs /\ job[p].pc = "open"
      /\ job[p].pc \in InLoop /\ job[p].pc \in Touching
      /\ faults \in 0..MaxFaults /\ job[p].from \in Nat
      /\ UNCHANGED <<dirs, index>>
  BY DEF CacheInv, CacheTypeOK, OpenFile, InLoop, Touching, Jobs
<1>1. f \in Files /\ disk[f] \in Seq(Nat) /\ Holds(p, f)
  BY <1>0, Held DEF CacheTypeOK, Holds
<1>2. job[p].got = 0 /\ job[p].ranged = FALSE
  BY <1>0 DEF CacheInv, TidyJob
<1>3. \A q \in Procs : q # p /\ f \notin mixed => ~Holds(q, f)
  BY <1>1 DEF CacheInv, Alone
<1>4. CASE Step(p, Skip(job[p])) /\ UNCHANGED <<disk, present, mixed>> /\ (Fault \/ UNCHANGED faults)
  BY <1>0, <1>4, FaultTyped, SkipKeeps DEF Step
<1>5. CASE /\ job[p].from = 0 /\ Step(p, opened)
           /\ disk' = [disk EXCEPT ![f] = <<>>]
           /\ present' = present \cup {f}
           /\ mixed' = IF Others(p, f) = {} THEN mixed \ {f} ELSE mixed
           /\ UNCHANGED faults
  <2>1. /\ opened \in Jobs /\ opened.pc = "receive" /\ opened.model = job[p].model
        /\ opened.nth = job[p].nth /\ opened.trouble = job[p].trouble
        /\ opened.from = 0 /\ opened.got = 0 /\ opened.ranged = FALSE
    BY <1>0, <1>2, <1>5 DEF Jobs, InLoop
  <2>2. \A q \in Procs : q # p /\ f \notin mixed' => ~Holds(q, f)
    BY <1>3, <1>5 DEF Others
  <2>3. mixed' \subseteq Files /\ \A g \in Files : g # f => (g \in mixed' <=> g \in mixed)
    BY <1>0, <1>5 DEF CacheTypeOK
  <2>4. job' = [job EXCEPT ![p] = opened]
    BY <1>5 DEF Step
  <2>5. f \in present' /\ present' = present \cup {f} /\ UNCHANGED <<dirs, index>>
        /\ faults' \in 0..MaxFaults
    BY <1>0, <1>5
  <2>6. <<>> \in Seq(Nat) /\ Len(<<>>) = 0 /\ Partial(f, <<>>)
        /\ disk' = [disk EXCEPT ![f] = <<>>]
    BY <1>1, <1>5, NothingIsPart
  <2>. HIDE DEF opened, f, possible
  <2>7. job[p].pc \in Touching /\ f = FileOf(job[p])
    BY <1>0 DEF f
  <2>8. /\ opened.linked => f \in present'
        /\ present' \in {present, present \cup {f}}
        /\ f \notin mixed' =>
              /\ Partial(f, <<>>)
              /\ \A q \in Procs : q # p => ~Holds(q, f)
              /\ opened.ranged <=> opened.from > 0
              /\ opened.linked => Len(<<>>) = opened.from + opened.got
    BY <2>1, <2>2, <2>5, <2>6
  <2>. QED BY <1>1, <2>1, <2>3, <2>4, <2>5, <2>6, <2>7, <2>8, TransferKeeps
<1>6. CASE /\ job[p].from > 0 /\ f \in present /\ Step(p, [opened EXCEPT !.ranged = TRUE])
           /\ UNCHANGED <<disk, present, mixed, faults>>
  <2>. DEFINE j == [opened EXCEPT !.ranged = TRUE]
  <2>1. /\ j \in Jobs /\ j.pc = "receive" /\ j.model = job[p].model
        /\ j.nth = job[p].nth /\ j.trouble = job[p].trouble
        /\ j.from = job[p].from /\ j.got = 0 /\ j.ranged = TRUE
    BY <1>0, <1>2 DEF Jobs, InLoop
  <2>2. f \notin mixed => Len(disk[f]) = job[p].from
    BY <1>0, <1>6 DEF CacheInv, InPlace
  <2>3. mixed' = mixed /\ mixed \subseteq Files /\ present' = present
        /\ faults' \in 0..MaxFaults
    BY <1>0, <1>6 DEF CacheTypeOK
  <2>4. job' = [job EXCEPT ![p] = j]
    BY <1>6 DEF Step
  <2>5. disk' = [disk EXCEPT ![f] = disk[f]]
    BY <1>0, <1>6 DEF CacheTypeOK
  <2>6. f \notin mixed => Partial(f, disk[f])
    BY <1>1 DEF CacheInv, ResumeIsSound
  <2>. HIDE DEF j, opened, f, possible
  <2>7. job[p].pc \in Touching /\ f = FileOf(job[p]) /\ f \in present
    BY <1>0, <1>6 DEF f
  <2>8. f \notin mixed' =>
              /\ Partial(f, disk[f])
              /\ \A q \in Procs : q # p => ~Holds(q, f)
              /\ j.ranged <=> j.from > 0
              /\ j.linked => Len(disk[f]) = j.from + j.got
    BY <1>0, <1>3, <1>6, <2>1, <2>2, <2>3, <2>6
  <2>. QED BY <1>0, <1>1, <2>1, <2>3, <2>4, <2>5, <2>7, <2>8, TransferKeeps
<1>7. CASE /\ job[p].from > 0 /\ f \in present /\ Step(p, [opened EXCEPT !.trouble = TRUE])
           /\ Fault /\ mixed' = mixed \cup {f}
           /\ UNCHANGED <<disk, present>>
  <2>. DEFINE j == [opened EXCEPT !.trouble = TRUE]
  <2>1. /\ j \in Jobs /\ j.pc = "receive" /\ j.model = job[p].model
        /\ j.nth = job[p].nth /\ j.trouble = TRUE
    BY <1>0 DEF Jobs, InLoop
  <2>2. mixed' \subseteq Files /\ f \in mixed' /\ present' = present
        /\ faults' \in 0..MaxFaults
    BY <1>0, <1>1, <1>7, FaultTyped DEF CacheTypeOK
  <2>3. \A g \in Files : g # f => (g \in mixed' <=> g \in mixed)
    BY <1>7
  <2>4. job' = [job EXCEPT ![p] = j]
    BY <1>7 DEF Step
  <2>5. disk' = [disk EXCEPT ![f] = disk[f]]
    BY <1>0, <1>7 DEF CacheTypeOK
  <2>. HIDE DEF j, opened, f, possible
  <2>7. job[p].pc \in Touching /\ f = FileOf(job[p]) /\ f \in present
    BY <1>0, <1>7 DEF f
  <2>. QED BY <1>0, <1>1, <2>1, <2>2, <2>3, <2>4, <2>5, <2>7, TransferKeeps
<1>. QED BY <1>0, <1>4, <1>5, <1>6, <1>7 DEF OpenFile

LEMMA ReceiveKeeps ==
    ASSUME CacheInv, NEW p \in Procs, Receive(p)
    PROVE  CacheInv'
<1>. DEFINE f == FileOf(job[p])
            c == Coming(job[p])
            d == IF job[p].linked
                 THEN IF job[p].from > 0 THEN Append(disk[f], c)
                                         ELSE WriteAt(disk[f], job[p].got, c)
                 ELSE disk[f]
<1>0. /\ CacheTypeOK /\ job[p] \in Jobs /\ job[p].pc = "receive"
      /\ job[p].pc \in InLoop /\ job[p].pc \in Touching
      /\ faults' \in 0..MaxFaults /\ mixed' = mixed /\ mixed' \subseteq Files
      /\ present' = present /\ UNCHANGED <<dirs, index>>
      /\ job[p].got \in Nat /\ job[p].from \in Nat
  BY DEF CacheInv, CacheTypeOK, Receive, InLoop, Touching, Jobs
<1>1. f \in Files /\ disk[f] \in Seq(Nat) /\ Holds(p, f) /\ c \in Nat
  BY <1>0, Held DEF CacheTypeOK, Holds, Coming
<1>2. \A q \in Procs : q # p /\ f \notin mixed => ~Holds(q, f)
  BY <1>1 DEF CacheInv, Alone
<1>3. f \notin mixed =>
        /\ Partial(f, disk[f])
        /\ job[p].ranged <=> job[p].from > 0
        /\ c = job[p].from + job[p].got + 1
        /\ job[p].linked => f \in present /\ Len(disk[f]) = job[p].from + job[p].got
  <2>1. f \notin mixed =>
        /\ job[p].ranged <=> job[p].from > 0
        /\ job[p].linked => f \in present /\ Len(disk[f]) = job[p].from + job[p].got
    BY <1>0 DEF CacheInv, InPlace
  <2>2. f \notin mixed => Partial(f, disk[f])
    BY <1>1 DEF CacheInv, ResumeIsSound
  <2>. QED BY <1>0, <2>1, <2>2 DEF Coming
<1>4. CASE /\ c <= Size[f] /\ Step(p, [job[p] EXCEPT !.got = @ + 1])
           /\ disk' = IF job[p].linked
                      THEN [disk EXCEPT ![f] =
                              IF job[p].from > 0 THEN Append(@, c)
                                                 ELSE WriteAt(@, job[p].got, c)]
                      ELSE disk
  <2>. DEFINE j == [job[p] EXCEPT !.got = @ + 1]
  <2>1. /\ j \in Jobs /\ j.pc = "receive" /\ j.model = job[p].model
        /\ j.nth = job[p].nth /\ j.trouble = job[p].trouble
        /\ j.from = job[p].from /\ j.got = job[p].got + 1
        /\ j.ranged = job[p].ranged /\ j.linked = job[p].linked
    <3>1. \A n \in Nat : /\ [job[p] EXCEPT !.got = n] \in Jobs
                        /\ [job[p] EXCEPT !.got = n].got = n
      BY <1>0 DEF Jobs
    <3>2. j \in Jobs /\ j.got = job[p].got + 1
      BY <1>0, <3>1
    <3>. QED BY <1>0, <3>2 DEF Jobs
  <2>2. d \in Seq(Nat)
    <3>. HIDE DEF c, f
    <3>1. WriteAt(disk[f], job[p].got, c) \in Seq(Nat)
      BY <1>0, <1>1, WriteAtSeq
    <3>2. Append(disk[f], c) \in Seq(Nat)
      BY <1>1
    <3>. QED BY <1>1, <3>1, <3>2
  <2>3. disk' = [disk EXCEPT ![f] = d]
    BY <1>0, <1>1, <1>4 DEF CacheTypeOK
  <2>4. job' = [job EXCEPT ![p] = j]
    BY <1>4 DEF Step
  <2>5. ASSUME f \notin mixed, job[p].linked
        PROVE  /\ Len(d) = Len(disk[f]) + 1 /\ d[Len(disk[f]) + 1] = Len(disk[f]) + 1
               /\ \A i \in 1..Len(disk[f]) : d[i] = disk[f][i]
               /\ Len(disk[f]) + 1 <= Size[f]
    <3>1. c = Len(disk[f]) + 1
      BY <1>0, <1>3, <2>5
    <3>2. CASE job[p].from > 0
      BY <1>1, <2>5, <3>1, <3>2, <1>4
    <3>3. CASE ~(job[p].from > 0)
      <4>1. job[p].got = Len(disk[f])
        BY <1>0, <1>3, <2>5, <3>3
      <4>. HIDE DEF c
      <4>2. d = WriteAt(disk[f], Len(disk[f]), c)
        BY <2>5, <3>3, <4>1
      <4>. QED BY <1>1, <1>4, <3>1, <4>2, WriteAtEnd
    <3>. QED BY <3>2, <3>3
  <2>6. f \notin mixed => /\ Partial(f, d)
                          /\ job[p].linked => Len(d) = job[p].from + job[p].got + 1
    <3>1. CASE job[p].linked
      <4>. HIDE DEF d
      <4>. QED BY <1>0, <1>1, <1>3, <2>2, <2>5, <3>1, PartGrows
    <3>2. CASE ~job[p].linked
      BY <1>3, <3>2
    <3>. QED BY <3>1, <3>2
  <2>7. job[p].linked => f \in present
    BY DEF CacheInv, InPlace
  <2>8. f \notin present => d = <<>>
    BY <1>0, <1>1, <2>7 DEF CacheTypeOK
  <2>. HIDE DEF d, j, f, c
  <2>9. f = FileOf(job[p]) /\ j.trouble = job[p].trouble
    BY <2>1 DEF f
  <2>10. /\ j.linked => f \in present'
         /\ f \notin present' => d = <<>>
         /\ f \notin mixed' =>
              /\ Partial(f, d)
              /\ \A q \in Procs : q # p => ~Holds(q, f)
              /\ j.ranged <=> j.from > 0
              /\ j.linked => Len(d) = j.from + j.got
    BY <1>0, <1>2, <1>3, <2>1, <2>6, <2>7, <2>8
  <2>. QED BY <1>0, <1>1, <2>1, <2>2, <2>3, <2>4, <2>9, <2>10, TransferKeeps
<1>5. CASE c > Size[f] /\ Step(p, [job[p] EXCEPT !.pc = "close"]) /\ UNCHANGED disk
  <2>. DEFINE j == [job[p] EXCEPT !.pc = "close"]
  <2>1. /\ j \in Jobs /\ j.pc = "close" /\ j.model = job[p].model
        /\ j.nth = job[p].nth /\ j.trouble = job[p].trouble
        /\ j.from = job[p].from /\ j.got = job[p].got
        /\ j.ranged = job[p].ranged /\ j.linked = job[p].linked
    BY <1>0 DEF Jobs, InLoop
  <2>2. disk' = [disk EXCEPT ![f] = disk[f]]
    BY <1>0, <1>5 DEF CacheTypeOK
  <2>3. job' = [job EXCEPT ![p] = j]
    BY <1>5 DEF Step
  <2>4. f \notin present => disk[f] = <<>>
    BY <1>0, <1>1 DEF CacheTypeOK
  <2>. HIDE DEF j, f, c
  <2>5. f = FileOf(job[p]) /\ (job[p].linked => f \in present)
    BY DEF f, CacheInv, InPlace
  <2>. QED BY <1>0, <1>1, <1>2, <1>3, <2>1, <2>2, <2>3, <2>4, <2>5, TransferKeeps
<1>. QED BY <1>4, <1>5 DEF Receive

LEMMA InterruptKeeps ==
    ASSUME CacheInv, NEW p \in Procs, Interrupt(p)
    PROVE  CacheInv'
<1>1. job[p].pc \in InLoop /\ faults' \in 0..MaxFaults
  BY FaultTyped DEF CacheInv, Interrupt, InLoop
<1>. QED BY <1>1, SkipKeeps DEF Interrupt, Step

LEMMA CompleteKeeps ==
    ASSUME CacheInv, NEW p \in Procs, Complete(p)
    PROVE  CacheInv'
<1>. DEFINE f == FileOf(job[p])
            j == [job[p] EXCEPT !.pc = "check", !.from = 0, !.got = 0,
                                !.linked = FALSE, !.ranged = FALSE]
<1>0. /\ CacheTypeOK /\ job[p] \in Jobs /\ job[p].pc = "close"
      /\ job[p].pc \in InLoop /\ job[p].pc \in Touching
      /\ UNCHANGED <<disk, present, dirs, index, mixed>> /\ faults' \in 0..MaxFaults
      /\ dirs \subseteq Models /\ index \subseteq Models
  BY DEF CacheInv, CacheTypeOK, Complete, InLoop, Touching
<1>1. /\ f \in Files /\ job[p].model \in Models
      /\ job[p].nth \in 1..Len(FilesOf[job[p].model])
  BY <1>0, Held
<1>2. CASE Step(p, Skip(job[p]))
  BY <1>0, <1>2, SkipKeeps DEF Step
<1>3. CASE Step(p, j) /\ Whole(f)
  <2>1. /\ j \in Jobs /\ j.pc = "check" /\ j.model = job[p].model
        /\ j.nth = job[p].nth /\ j.trouble = job[p].trouble
        /\ j.from = 0 /\ j.got = 0 /\ j.linked = FALSE /\ j.ranged = FALSE
    BY <1>0 DEF Jobs, InLoop
  <2>2. Step(p, j)
    BY <1>3
  <2>. HIDE DEF j
  <2>3. TidyJob(j)
    BY <2>1 DEF TidyJob
  <2>4. \A g \in Files : g \in Passed(j) => g \in Passed(job[p])
    BY <1>0, <2>1 DEF Passed, Untroubled, InLoop
  <2>5. \A g \in Files : g \in Checked(j) => g = f /\ job[p].trouble = FALSE
    BY <2>1 DEF Checked, Untroubled, FileOf
  <2>6. job[p].trouble = FALSE => \A q \in Procs \ {p} : ~Holds(q, f)
    BY <1>0, <1>1 DEF CacheInv, Alone, Holds
  <2>7. \A g \in Files :
          /\ g \in Passed(j) => Sealed(g) /\ \A q \in Procs \ {p} : ~Holds(q, g)
          /\ g \in Checked(j) => Whole(g) /\ \A q \in Procs \ {p} : ~Holds(q, g)
    <3>1. \A g \in Files : g \in Passed(job[p]) => Sealed(g) /\ \A q \in Procs : ~Holds(q, g)
      BY DEF CacheInv, Behind
    <3>. QED BY <1>3, <2>4, <2>5, <2>6, <3>1
  <2>8. job' = [job EXCEPT ![p] = j] /\ j.pc \notin Touching
        /\ dirs' \subseteq Models /\ index' \subseteq Models
    BY <1>0, <2>1, <2>2 DEF Step, Touching
  <2>. QED BY <1>0, <1>1, <2>1, <2>3, <2>7, <2>8, QuietKeeps
<1>. QED BY <1>2, <1>3 DEF Complete, Whole

(* A process of another model, or with no work, has none of m's files.      *)
LEMMA NotTheirs ==
    ASSUME CacheTypeOK, NEW q \in Procs, NEW m \in Models, NEW f \in FilesIn(m),
           ~(Live(q) /\ job[q].model = m)
    PROVE  ~Holds(q, f) /\ f \notin Passed(job[q]) /\ f \notin Checked(job[q])
<1>1. CASE ~Live(q)
  BY <1>1 DEF Live, Holds, Passed, Checked, Untroubled, Touching, InLoop
<1>2. CASE Live(q) /\ job[q].model # m
  <2>1. job[q].model \in Models
    BY <1>2 DEF CacheTypeOK, Live
  <2>2. f \notin FilesIn(job[q].model)
    BY <1>2, <2>1, FileHasOneModel
  <2>3. \A i \in 1..Len(FilesOf[job[q].model]) : f # FilesOf[job[q].model][i]
    BY <2>1, <2>2, FilesTyped
  <2>4. f \notin Passed(job[q])
    BY <2>3 DEF Passed
  <2>5. job[q].pc \in InLoop => f # FileOf(job[q])
    BY <2>2, Held
  <2>6. f \notin Checked(job[q])
    BY <2>5 DEF Checked, Untroubled, InLoop
  <2>7. ~Holds(q, f)
    BY <2>5 DEF Holds, Touching, InLoop
  <2>. QED BY <2>4, <2>6, <2>7
<1>. QED BY <1>1, <1>2

LEMMA CheckKeeps ==
    ASSUME CacheInv, NEW p \in Procs, Check(p)
    PROVE  CacheInv'
<1>. DEFINE f == FileOf(job[p])
            m == job[p].model
            corrupt == f \in Safetensors /\ ~HeaderValid(f)
<1>0. /\ CacheTypeOK /\ job[p] \in Jobs /\ job[p].pc = "check" /\ job[p].pc \in InLoop
      /\ dirs' \subseteq Models /\ index' \subseteq Models /\ faults' \in 0..MaxFaults
      /\ UNCHANGED <<dirs, index>> /\ job \in [Procs -> Jobs]
  BY DEF CacheInv, CacheTypeOK, Check, InLoop
<1>1. f \in Files /\ m \in Models /\ f \in FilesIn(m)
      /\ job[p].nth \in 1..Len(FilesOf[m])
  BY <1>0, Held
<1>2. CASE ~corrupt /\ Step(p, Onward(job[p])) /\ UNCHANGED <<disk, present, mixed>>
  <2>. DEFINE j == Onward(job[p])
  <2>1. /\ j \in Jobs /\ j.pc \in {"head", "finish"} /\ j.model = m /\ TidyJob(j)
        /\ j.pc \in InLoop => j.nth \in 1..Len(FilesOf[m])
        /\ \A g \in Files : g \notin Checked(j)
        /\ \A g \in Files : g \in Passed(j) =>
              Untroubled(job[p]) /\ (g = f \/ g \in Passed(job[p]))
    BY <1>0, <1>1, OnwardJob
  <2>2. job' = [job EXCEPT ![p] = j]
    BY <1>2 DEF Step
  <2>. HIDE DEF j
  <2>3. Untroubled(job[p]) => f \in Checked(job[p])
    BY <1>0, <1>1 DEF Checked
  <2>4. \A g \in Files : g \in Passed(j) => Sealed(g) /\ \A q \in Procs : ~Holds(q, g)
    BY <1>2, <2>1, <2>3 DEF CacheInv, Behind, Sealed
  <2>5. j.pc \notin Touching
    BY <2>1 DEF Touching
  <2>. QED BY <1>0, <1>1, <1>2, <2>1, <2>2, <2>4, <2>5, QuietKeeps
<1>3. CASE /\ Unlink({f})
           /\ job' = [q \in Procs |->
                        IF q = p THEN Skip(job[p])
                        ELSE IF Live(q) /\ job[q].model = m
                        THEN [job[q] EXCEPT !.trouble = TRUE,
                                            !.linked = @ /\ ~Holds(q, f)]
                        ELSE job[q]]
  <2>. DEFINE j == Skip(job[p])
  <2>1. /\ j \in Jobs /\ j.pc \in {"head", "finish"} /\ j.model = m /\ TidyJob(j)
        /\ j.pc \in InLoop => j.nth \in 1..Len(FilesOf[m])
        /\ \A g \in Files : g \notin Checked(j) /\ g \notin Passed(j)
    BY <1>0, <1>1, SkipJob
  <2>2. job'[p] = j
    BY <1>3
  <2>. HIDE DEF j
  <2>3. ASSUME NEW q \in Procs \ {p}
        PROVE  /\ job'[q] \in Jobs
               /\ \/ /\ job'[q] = job[q]
                     /\ \A g \in {f} : ~Holds(q, g) /\ g \notin Passed(job[q])
                                                    /\ g \notin Checked(job[q])
                  \/ /\ job'[q].trouble = TRUE
                     /\ job'[q].linked => job[q].linked /\ \A g \in {f} : ~Holds(q, g)
                     /\ job'[q].pc = job[q].pc /\ job'[q].model = job[q].model
                     /\ job'[q].nth = job[q].nth /\ job'[q].from = job[q].from
                     /\ job'[q].got = job[q].got /\ job'[q].ranged = job[q].ranged
    <3>. HIDE DEF f, m
    <3>0. job[q] \in Jobs
      BY <1>0
    <3>1. CASE Live(q) /\ job[q].model = m
      <4>1. job'[q] = [job[q] EXCEPT !.trouble = TRUE,
                                     !.linked = job[q].linked /\ ~Holds(q, f)]
        BY <1>3, <3>1
      <4>2. (job[q].linked /\ ~Holds(q, f)) \in BOOLEAN
        BY Zenon
      <4>3. /\ job'[q] \in Jobs /\ job'[q].trouble = TRUE
            /\ job'[q].linked = (job[q].linked /\ ~Holds(q, f))
            /\ job'[q].pc = job[q].pc /\ job'[q].model = job[q].model
            /\ job'[q].nth = job[q].nth /\ job'[q].from = job[q].from
            /\ job'[q].got = job[q].got /\ job'[q].ranged = job[q].ranged
        BY <3>0, <4>1, <4>2 DEF Jobs
      <4>. QED BY <4>3
    <3>2. CASE ~(Live(q) /\ job[q].model = m)
      BY <1>0, <1>1, <1>3, <3>0, <3>2, NotTheirs
    <3>. QED BY <3>1, <3>2
  <2>4. job' \in [Procs -> Jobs]
    <3>1. \A q \in Procs : job'[q] \in Jobs
      BY <2>1, <2>2, <2>3
    <3>. QED BY <1>3, <3>1
  <2>5. {f} \in SUBSET Files /\ Unlink({f}) /\ j.pc \notin Touching
    BY <1>1, <1>3, <2>1 DEF Touching
  <2>. HIDE DEF f, m
  <2>6. job[p].model = m
    BY DEF m
  <2>. QED BY <1>0, <1>1, <2>1, <2>2, <2>3, <2>4, <2>5, <2>6, UnlinkKeeps
<1>. QED BY <1>2, <1>3 DEF Check

LEMMA PurgeKeeps ==
    ASSUME CacheInv, NEW p \in Procs, Purge(p)
    PROVE  CacheInv'
<1>. DEFINE m == job[p].model
            j == [job[p] EXCEPT !.pc = "truncate", !.copy = @ \ {m}]
<1>0. /\ CacheTypeOK /\ job[p] \in Jobs /\ job[p].pc = "purge" /\ TidyJob(job[p])
      /\ dirs' \subseteq Models /\ index' \subseteq Models /\ faults' \in 0..MaxFaults
      /\ job \in [Procs -> Jobs] /\ m \in Models
      /\ Unlink(FilesIn(m)) /\ FilesIn(m) \in SUBSET Files
      /\ job' = [q \in Procs |->
                   IF q = p THEN j
                   ELSE IF Live(q) /\ job[q].model = m
                   THEN [job[q] EXCEPT !.trouble = TRUE, !.linked = FALSE]
                   ELSE job[q]]
  BY FilesTyped DEF CacheInv, CacheTypeOK, Purge
<1>1. /\ j \in Jobs /\ j.pc = "truncate" /\ j.model = m
      /\ j.from = job[p].from /\ j.got = job[p].got
      /\ j.linked = job[p].linked /\ j.ranged = job[p].ranged
  BY <1>0 DEF Jobs
<1>2. job'[p] = j
  BY <1>0
<1>. HIDE DEF j
<1>3. TidyJob(j)
  BY <1>0, <1>1 DEF TidyJob, Touching
<1>4. \A f \in Files : f \notin Passed(j) /\ f \notin Checked(j)
  BY <1>1 DEF Passed, Checked, Untroubled, InLoop
<1>5. ASSUME NEW q \in Procs \ {p}
      PROVE  /\ job'[q] \in Jobs
             /\ \/ /\ job'[q] = job[q]
                   /\ \A g \in FilesIn(m) :
                         ~Holds(q, g) /\ g \notin Passed(job[q]) /\ g \notin Checked(job[q])
                \/ /\ job'[q].trouble = TRUE
                   /\ job'[q].linked => job[q].linked /\ \A g \in FilesIn(m) : ~Holds(q, g)
                   /\ job'[q].pc = job[q].pc /\ job'[q].model = job[q].model
                   /\ job'[q].nth = job[q].nth /\ job'[q].from = job[q].from
                   /\ job'[q].got = job[q].got /\ job'[q].ranged = job[q].ranged
  <2>0. job[q] \in Jobs
    BY <1>0
  <2>1. CASE Live(q) /\ job[q].model = m
    <3>1. job'[q] = [job[q] EXCEPT !.trouble = TRUE, !.linked = FALSE]
      BY <1>0, <2>1
    <3>2. /\ job'[q] \in Jobs /\ job'[q].trouble = TRUE /\ job'[q].linked = FALSE
          /\ job'[q].pc = job[q].pc /\ job'[q].model = job[q].model
          /\ job'[q].nth = job[q].nth /\ job'[q].from = job[q].from
          /\ job'[q].got = job[q].got /\ job'[q].ranged = job[q].ranged
      BY <2>0, <3>1 DEF Jobs
    <3>. QED BY <3>2
  <2>2. CASE ~(Live(q) /\ job[q].model = m)
    <3>1. job'[q] = job[q]
      BY <1>0, <2>2
    <3>. HIDE DEF m
    <3>. QED BY <1>0, <2>0, <2>2, <3>1, NotTheirs
  <2>. QED BY <2>1, <2>2
<1>6. job' \in [Procs -> Jobs]
  <2>1. \A q \in Procs : job'[q] \in Jobs
    BY <1>1, <1>2, <1>5
  <2>. QED BY <1>0, <2>1
<1>7. job'[p].pc \notin Touching /\ job'[p].pc \notin InLoop
  BY <1>1, <1>2 DEF Touching, InLoop
<1>8. /\ TidyJob(job'[p]) /\ job'[p].model \in Models
      /\ \A f \in Files : f \notin Passed(job'[p]) /\ f \notin Checked(job'[p])
  BY <1>0, <1>1, <1>2, <1>3, <1>4
<1>. DEFINE fs == FilesIn(m)
<1>9. fs \in SUBSET Files /\ Unlink(fs)
  BY <1>0
<1>10. \A q \in Procs \ {p} :
         \/ /\ job'[q] = job[q]
            /\ \A g \in fs :
                  ~Holds(q, g) /\ g \notin Passed(job[q]) /\ g \notin Checked(job[q])
         \/ /\ job'[q].trouble = TRUE
            /\ job'[q].linked => job[q].linked /\ \A g \in fs : ~Holds(q, g)
            /\ job'[q].pc = job[q].pc /\ job'[q].model = job[q].model
            /\ job'[q].nth = job[q].nth /\ job'[q].from = job[q].from
            /\ job'[q].got = job[q].got /\ job'[q].ranged = job[q].ranged
  BY <1>5
<1>. HIDE DEF m, fs
<1>. QED BY <1>0, <1>6, <1>7, <1>8, <1>9, <1>10, UnlinkKeeps

----
(* Every step                                                               *)

LEMMA CacheStepKeeps ==
    ASSUME CacheInv, NEW p \in Procs, CacheStep(p) \/ CacheCrash(p)
    PROVE  CacheInv'
<1>1. CASE \/ LoadIndex(p) \/ TruncateIndex(p) \/ WriteIndex(p) \/ SaveFails(p)
           \/ Lookup(p) \/ Finish(p) \/ CacheCrash(p)
  BY <1>1, IndexStepKeeps
<1>2. CASE Purge(p)
  BY <1>2, PurgeKeeps
<1>3. CASE Discover(p)
  BY <1>3, DiscoverKeeps
<1>4. CASE Examine(p)
  BY <1>4, ExamineKeeps
<1>5. CASE OpenFile(p)
  BY <1>5, OpenFileKeeps
<1>6. CASE Receive(p)
  BY <1>6, ReceiveKeeps
<1>7. CASE Interrupt(p)
  BY <1>7, InterruptKeeps
<1>8. CASE Complete(p)
  BY <1>8, CompleteKeeps
<1>9. CASE Check(p)
  BY <1>9, CheckKeeps
<1>. QED BY <1>1, <1>2, <1>3, <1>4, <1>5, <1>6, <1>7, <1>8, <1>9 DEF CacheStep

(* A failure that is none of the cache's, or nothing at all.                *)
LEMMA CacheRests ==
    ASSUME CacheInv, UNCHANGED <<disk, present, dirs, index, job, mixed>>,
           faults' \in 0..MaxFaults
    PROVE  CacheInv'
<1>1. /\ UNCHANGED <<disk, present, mixed, job>> /\ UNCHANGED <<dirs, index>>
      /\ faults' \in 0..MaxFaults
  OBVIOUS
<1>2. \A f \in Files : (Sealed(f)' <=> Sealed(f)) /\ (Whole(f)' <=> Whole(f))
  BY <1>1 DEF Sealed, Whole, HeaderValid
<1>3. \A q \in Procs, f \in Files : Holds(q, f)' <=> Holds(q, f)
  BY <1>1 DEF Holds, FileOf
<1>4. CacheTypeOK'
  BY <1>1 DEF CacheInv, CacheTypeOK
<1>5. ResumeIsSound'
  BY <1>1 DEF CacheInv, ResumeIsSound
<1>6. Alone' /\ (\A p \in Procs : TidyJob(job[p])')
  BY <1>1, <1>3 DEF CacheInv, Alone, TidyJob
<1>7. \A p \in Procs : InPlace(job[p])'
  BY <1>1 DEF CacheInv, InPlace, FileOf
<1>8. Behind'
  BY <1>1, <1>2, <1>3, BehindPrime DEF CacheInv, Behind
<1>. QED BY <1>4, <1>5, <1>6, <1>7, <1>8 DEF CacheInv

LEMMA CacheStutter == CacheInv /\ UNCHANGED cacheVars => CacheInv'
<1>1. CacheInv /\ UNCHANGED cacheVars =>
        UNCHANGED <<disk, present, dirs, index, job, mixed>> /\ faults' \in 0..MaxFaults
  BY DEF cacheVars, CacheInv, CacheTypeOK
<1>. QED BY <1>1, CacheRests

LEMMA CacheInvNext == CacheInv /\ [CacheNext]_cacheVars => CacheInv'
  BY BeginKeeps, CacheStepKeeps, CacheStutter DEF CacheNext

(* The step that ends a download enters the model in the index: nothing     *)
(* else takes a process from the end of the loop to a save.                 *)
LEMMA WholeAtFinish ==
    ASSUME CacheInv, NEW p \in Procs, job[p].pc = "finish", ~job[p].trouble,
           NEW f \in FilesIn(job[p].model), f \notin mixed
    PROVE  disk[f] = Original(f)
<1>1. /\ job[p].model \in Models /\ CacheTypeOK /\ job[p].trouble = FALSE
  BY DEF CacheInv, CacheTypeOK, Jobs
<1>2. f \in Files /\ \E i \in 1..Len(FilesOf[job[p].model]) : f = FilesOf[job[p].model][i]
  BY <1>1, FilesTyped DEF FilesIn
<1>3. f \in Passed(job[p])
  BY <1>1, <1>2 DEF Passed, Untroubled
<1>4. Len(disk[f]) = Size[f] /\ disk[f] \in Seq(Nat)
  BY <1>1, <1>2, <1>3 DEF CacheInv, Behind, Sealed, Whole, CacheTypeOK
<1>5. \A i \in 1..Size[f] : disk[f][i] = i
  BY SMTT(30), <1>2, <1>4, OriginalChunk DEF CacheInv, ResumeIsSound, Partial
<1>6. Size[f] \in Nat
  BY <1>2, OriginalChunk
<1>. QED BY <1>4, <1>5, <1>6 DEF Original

LEMMA PullIsWholeNext ==
    ASSUME CacheInv
    PROVE  \A p \in Procs :
              job[p].pc = "finish" /\ job'[p].pc = "truncate" /\ ~job[p].trouble
              => \A f \in FilesIn(job[p].model) \ mixed : disk[f] = Original(f)
  BY WholeAtFinish

----
(* What a command has read of the index.                                    *)

(* From the reading of the index to its last save, a command's copy counts. *)
Keeping ==
    {"loaded", "purge", "lookup", "discover", "finish", "truncate", "write"} \cup InLoop

(* The copy j has is what the index held, but for j's own model, and has     *)
(* that when it is saved if j fetched it; from the truncation to the write   *)
(* nothing is in the index.                                                  *)
BasisOK(j, b) ==
    /\ j.pc \in Keeping /\ b.fresh => j.copy \ {j.model} = b.held \ {j.model}
    /\ j.pc \in {"truncate", "write"} => (j.model \in j.copy <=> j.fetched)
    /\ j.fetched => j.pc \in {"truncate", "write"}
    /\ j.pc = "write" /\ b.fresh => index = {}

BasisInv == BasisTypeOK /\ \A p \in Procs : BasisOK(job[p], basis[p])

(* A process goes from a to b, and what it has of the index stays good.      *)
Follows(a, b) ==
    /\ b.pc \in Keeping =>
          a.pc \in Keeping /\ b.model = a.model /\ b.copy \ {b.model} = a.copy \ {a.model}
    /\ b.pc \in {"truncate", "write"} => (b.model \in b.copy <=> b.fetched)
    /\ b.fetched => b.pc \in {"truncate", "write"}
    /\ b.pc = "write" => a.pc = "write"

(* The index is in nobody's way, and no save ends but by a failure.          *)
NoSave == \A p \in Procs : job[p].pc = "write" => job'[p].pc = "write" \/ faults' # faults

OneEntryStep ==
    \A p \in Procs :
        job[p].pc = "write" /\ job'[p].pc # "write" /\ faults' = faults /\ basis[p].fresh
        => LET m == job[p].model
           IN  /\ index' \ {m} = basis[p].held \ {m}
               /\ m \in index' <=> job[p].fetched

LEMMA FollowingKeeps ==
    ASSUME BasisInv, UNCHANGED <<index, basis>>, NoSave,
           \A q \in Procs : job'[q] = job[q] \/ Follows(job[q], job'[q])
    PROVE  BasisInv' /\ OneEntryStep
<1>1. BasisTypeOK'
  BY DEF BasisInv, BasisTypeOK
<1>2. ASSUME NEW q \in Procs PROVE BasisOK(job[q], basis[q])'
  <2>1. BasisOK(job[q], basis[q]) /\ basis'[q] = basis[q] /\ index' = index
    BY DEF BasisInv
  <2>2. CASE job'[q] = job[q]
    BY <2>1, <2>2 DEF BasisOK
  <2>3. CASE Follows(job[q], job'[q])
    BY <2>1, <2>3 DEF BasisOK, Follows
  <2>. QED BY <2>2, <2>3
<1>3. OneEntryStep
  BY Zenon DEF OneEntryStep, NoSave
<1>. QED BY <1>1, <1>2, <1>3 DEF BasisInv

LEMMA StepFollows ==
    ASSUME CacheInv, BasisInv, NEW p \in Procs, NEW b, Step(p, b), Follows(job[p], b),
           job[p].pc = "write" => b.pc = "write" \/ faults' # faults,
           UNCHANGED <<index, basis>>
    PROVE  BasisInv' /\ OneEntryStep
<1>1. job'[p] = b /\ \A q \in Procs \ {p} : job'[q] = job[q]
  BY DEF Step, CacheInv, CacheTypeOK
<1>2. NoSave
  BY <1>1 DEF NoSave
<1>3. \A q \in Procs : job'[q] = job[q] \/ Follows(job[q], job'[q])
  BY <1>1
<1>. QED BY <1>2, <1>3, FollowingKeeps

LEMMA FaultCounts ==
    ASSUME CacheInv, Fault PROVE faults' # faults
<1>1. MaxFaults \in Nat /\ faults \in 0..MaxFaults /\ faults' = faults + 1
  BY ModelCacheAssumption DEF CacheInv, CacheTypeOK, Fault
<1>. QED BY <1>1

(* The fields that say what a process has read and fetched.                  *)
LEMMA LoopCarries ==
    ASSUME NEW j \in Jobs
    PROVE  /\ Onward(j).model = j.model /\ Onward(j).copy = j.copy
           /\ Onward(j).fetched = j.fetched /\ Onward(j).pc \in {"head", "finish"}
           /\ Skip(j).model = j.model /\ Skip(j).copy = j.copy
           /\ Skip(j).fetched = j.fetched /\ Skip(j).pc \in {"head", "finish"}
           /\ \A k : /\ Begun(j, k).model = j.model /\ Begun(j, k).copy = j.copy
                     /\ Begun(j, k).fetched = j.fetched /\ Begun(j, k).pc \in {"head", "finish"}
  BY DEF Onward, Skip, Begun, Jobs

LEMMA DoneFollows ==
    ASSUME NEW a, NEW j, NEW x PROVE Follows(a, Done(j, x)) /\ Done(j, x).pc = "done"
<1>1. Done(j, x).pc = "done" /\ Done(j, x).fetched = FALSE
  BY DEF Done, Idle
<1>2. "done" \notin Keeping
  BY DEF Keeping, InLoop
<1>. QED BY <1>1, <1>2 DEF Follows

LEMMA BeginKeepsBasis ==
    ASSUME CacheInv, BasisInv, NEW p \in Procs, NEW r \in Requests, Begin(p, r)
    PROVE  BasisInv' /\ OneEntryStep
<1>. DEFINE b == [job[p] EXCEPT !.pc = IF r.op \in {"pull", "remove"} THEN "load" ELSE "engine",
                                !.op = r.op, !.model = r.model, !.force = r.force]
<1>1. job[p] \in Jobs /\ job[p].pc = "ready" /\ BasisOK(job[p], basis[p])
  BY DEF CacheInv, CacheTypeOK, Begin, BasisInv
<1>2. Step(p, b) /\ UNCHANGED <<index, basis>>
  BY DEF Begin
<1>3. b.pc \in {"load", "engine"} /\ b.fetched = job[p].fetched
  BY <1>1 DEF Jobs
<1>4. job[p].fetched = FALSE
  BY <1>1 DEF BasisOK, Jobs
<1>. HIDE DEF b
<1>5. Follows(job[p], b)
  BY <1>3, <1>4 DEF Follows, Keeping, InLoop
<1>. QED BY <1>1, <1>2, <1>5, StepFollows

(* The copy is what the index holds when it is read.                         *)
LEMMA LoadKeepsBasis ==
    ASSUME CacheInv, BasisInv, NEW p \in Procs, LoadIndex(p)
    PROVE  BasisInv' /\ OneEntryStep
<1>. DEFINE j == [job[p] EXCEPT !.copy = index]
<1>1. /\ job \in [Procs -> Jobs] /\ index \subseteq Models /\ basis \in [Procs -> [fresh : BOOLEAN, held : SUBSET Models]]
      /\ \A q \in Procs : BasisOK(job[q], basis[q])
  BY DEF CacheInv, CacheTypeOK, BasisInv, BasisTypeOK
<1>2. /\ job[p].pc = "load" /\ index' = index
      /\ basis' = [basis EXCEPT ![p] = [fresh |-> TRUE, held |-> index]]
  BY DEF LoadIndex
<1>3. job[p].fetched = FALSE
  BY <1>1, <1>2 DEF BasisOK, Jobs
<1>4. j.copy = index /\ j.fetched = FALSE /\ j = [job[p] EXCEPT !.copy = index]
  <2>1. job[p] \in Jobs
    BY <1>1
  <2>. QED BY <1>3, <2>1 DEF Jobs
<1>11. j \in Jobs
  <2>1. job[p] \in Jobs /\ index \in SUBSET Models
    BY <1>1
  <2>. QED BY <2>1 DEF Jobs
<1>. HIDE DEF j
<1>5. PICK b : /\ Step(p, b)
               /\ \/ b.pc = "done" /\ b.fetched = FALSE
                  \/ b.pc \in {"purge", "lookup", "loaded"} /\ b.copy = index /\ b.fetched = FALSE
  <2>1. \/ \E pc \in {"purge", "lookup", "loaded"} : Step(p, [j EXCEPT !.pc = pc])
        \/ Step(p, Done(j, "failed"))
    BY DEF LoadIndex, j
  <2>2. \A pc : LET b == [j EXCEPT !.pc = pc]
                IN  b.pc = pc /\ b.copy = index /\ b.fetched = FALSE
    BY <1>4, <1>11 DEF Jobs
  <2>3. Done(j, "failed").pc = "done" /\ Done(j, "failed").fetched = FALSE
    BY DEF Done, Idle
  <2>. QED BY <2>1, <2>2, <2>3
<1>6. /\ job'[p] = b /\ basis'[p] = [fresh |-> TRUE, held |-> index]
      /\ \A q \in Procs \ {p} : job'[q] = job[q] /\ basis'[q] = basis[q]
  BY <1>1, <1>2, <1>5 DEF Step
<1>7. BasisTypeOK'
  BY <1>1, <1>2 DEF BasisTypeOK
<1>8. BasisOK(job[p], basis[p])'
  BY <1>5, <1>6 DEF BasisOK, Keeping, InLoop
<1>9. ASSUME NEW q \in Procs \ {p} PROVE BasisOK(job[q], basis[q])'
  BY <1>1, <1>2, <1>6 DEF BasisOK
<1>10. OneEntryStep
  BY <1>2, <1>6 DEF OneEntryStep
<1>. QED BY <1>7, <1>8, <1>9, <1>10 DEF BasisInv

(* A save overtakes what the others have read.                               *)
LEMMA SavingKeeps ==
    ASSUME CacheInv, BasisInv, NEW p \in Procs, NEW b, Step(p, b), Overtakes(p),
           BasisOK(job[p], basis[p])',
           job[p].pc = "write" /\ b.pc # "write" /\ basis[p].fresh =>
              /\ index' \ {job[p].model} = basis[p].held \ {job[p].model}
              /\ job[p].model \in index' <=> job[p].fetched
    PROVE  BasisInv' /\ OneEntryStep
<1>1. /\ job \in [Procs -> Jobs] /\ basis \in [Procs -> [fresh : BOOLEAN, held : SUBSET Models]]
      /\ \A q \in Procs : BasisOK(job[q], basis[q])
  BY DEF CacheInv, CacheTypeOK, BasisInv, BasisTypeOK
<1>2. /\ job'[p] = b /\ basis'[p] = basis[p]
      /\ \A q \in Procs \ {p} : job'[q] = job[q] /\ basis'[q] = Unread
  BY <1>1 DEF Step, Overtakes
<1>3. BasisTypeOK'
  <2>1. Unread \in [fresh : BOOLEAN, held : SUBSET Models]
    BY DEF Unread
  <2>. QED BY <1>1, <2>1 DEF BasisTypeOK, Overtakes
<1>5. ASSUME NEW q \in Procs \ {p} PROVE BasisOK(job[q], basis[q])'
  <2>1. basis'[q].fresh = FALSE /\ job'[q] = job[q]
    BY <1>2 DEF Unread
  <2>2. BasisOK(job[q], basis[q])
    BY <1>1
  <2>. QED BY <2>1, <2>2 DEF BasisOK
<1>6. OneEntryStep
  BY <1>2 DEF OneEntryStep
<1>. QED BY <1>3, <1>5, <1>6 DEF BasisInv

LEMMA TruncateKeepsBasis ==
    ASSUME CacheInv, BasisInv, NEW p \in Procs, TruncateIndex(p)
    PROVE  BasisInv' /\ OneEntryStep
<1>. DEFINE b == [job[p] EXCEPT !.pc = "write"]
<1>1. /\ job[p] \in Jobs /\ job[p].pc = "truncate" /\ BasisOK(job[p], basis[p])
      /\ Step(p, b) /\ Overtakes(p) /\ index' = {} /\ basis'[p] = basis[p]
  BY DEF CacheInv, CacheTypeOK, BasisInv, TruncateIndex, Overtakes
<1>2. b.pc = "write" /\ b.model = job[p].model /\ b.copy = job[p].copy
      /\ b.fetched = job[p].fetched
  BY <1>1 DEF Jobs
<1>. HIDE DEF b
<1>3. job'[p] = b
  BY <1>1 DEF Step, CacheInv, CacheTypeOK
<1>4. BasisOK(job[p], basis[p])'
  BY <1>1, <1>2, <1>3 DEF BasisOK, Keeping
<1>. QED BY <1>1, <1>2, <1>4, SavingKeeps

(* A save that nobody overtook writes what was read but for its own model.   *)
LEMMA WriteKeepsBasis ==
    ASSUME CacheInv, BasisInv, NEW p \in Procs, WriteIndex(p)
    PROVE  BasisInv' /\ OneEntryStep
<1>. DEFINE b == Saved(job[p])
            m == job[p].model
<1>1. /\ job[p] \in Jobs /\ job[p].pc = "write" /\ BasisOK(job[p], basis[p])
      /\ Step(p, b) /\ Overtakes(p) /\ basis'[p] = basis[p]
      /\ index' \in {job[p].copy} \cup (IF index = {} THEN {} ELSE {{}})
  BY DEF CacheInv, CacheTypeOK, BasisInv, WriteIndex, Overtakes
<1>2. \/ b.pc = "done" /\ b.fetched = FALSE
      \/ /\ b.pc = "lookup" /\ b.model = m /\ b.copy = job[p].copy
         /\ b.fetched = job[p].fetched /\ job[p].fetched = FALSE
  BY <1>1 DEF Saved, Done, Idle, Jobs
<1>3. job'[p] = b
  BY <1>1 DEF Step, CacheInv, CacheTypeOK
<1>. HIDE DEF b
<1>4. BasisOK(job[p], basis[p])'
  BY <1>1, <1>2, <1>3 DEF BasisOK, Keeping, InLoop
<1>5. basis[p].fresh => index' \ {m} = basis[p].held \ {m} /\ (m \in index' <=> job[p].fetched)
  BY <1>1 DEF BasisOK, Keeping
<1>. QED BY <1>1, <1>4, <1>5, SavingKeeps

LEMMA SaveFailsKeepsBasis ==
    ASSUME CacheInv, BasisInv, NEW p \in Procs, SaveFails(p)
    PROVE  BasisInv' /\ OneEntryStep
<1>. DEFINE b == SaveFailed(job[p])
<1>1. /\ job[p] \in Jobs /\ job[p].pc \in {"truncate", "write"} /\ BasisOK(job[p], basis[p])
      /\ Step(p, b) /\ UNCHANGED <<index, basis>> /\ Fault
  BY DEF CacheInv, CacheTypeOK, BasisInv, SaveFails
<1>2. \/ b = Done(job[p], "failed") \/ b = Done(job[p], "ok")
      \/ b = [job[p] EXCEPT !.pc = "lookup"] /\ ~job[p].fetched
  BY <1>1 DEF SaveFailed, Saved
<1>3. Follows(job[p], b)
  <2>1. CASE b = [job[p] EXCEPT !.pc = "lookup"] /\ ~job[p].fetched
    <3>1. /\ b.pc = "lookup" /\ b.model = job[p].model /\ b.copy = job[p].copy
          /\ b.fetched = FALSE
      BY <1>1, <2>1 DEF Jobs
    <3>. HIDE DEF b
    <3>. QED BY <1>1, <3>1 DEF Follows, Keeping
  <2>. QED BY <1>2, <2>1, DoneFollows
<1>. HIDE DEF b
<1>. QED BY <1>1, <1>3, FaultCounts, StepFollows

(* A step of the loop, or before it, carries the copy along.                 *)
LEMMA LoopFollows ==
    ASSUME NEW a \in Jobs, NEW b, a.pc \in Keeping \ {"truncate", "write"}, ~a.fetched,
           b.model = a.model, b.copy = a.copy, b.fetched = a.fetched,
           b.pc \in Keeping \ {"truncate", "write"}
    PROVE  Follows(a, b)
<1>1. b.fetched = FALSE
  BY DEF Jobs
<1>. QED BY <1>1 DEF Follows

LEMMA LookupKeepsBasis ==
    ASSUME CacheInv, BasisInv, NEW p \in Procs,
           Lookup(p) \/ Discover(p) \/ OpenFile(p) \/ Receive(p) \/ Interrupt(p) \/ Complete(p)
    PROVE  BasisInv' /\ OneEntryStep
<1>1. /\ job[p] \in Jobs /\ BasisOK(job[p], basis[p]) /\ UNCHANGED <<index, basis>>
      /\ job[p].pc \in {"lookup", "discover", "open", "receive", "close"}
  BY DEF CacheInv, CacheTypeOK, BasisInv, Lookup, Discover, OpenFile, Receive, Interrupt, Complete
<1>2. ~job[p].fetched /\ job[p].pc # "write" /\ job[p].pc \in Keeping \ {"truncate", "write"}
  BY <1>1 DEF BasisOK, Keeping, InLoop
<1>3. /\ \A q \in Procs \ {p} : job'[q] = job[q]
      /\ \/ job'[p] = Done(job[p], "ok")
         \/ /\ job'[p].model = job[p].model /\ job'[p].copy = job[p].copy
            /\ job'[p].fetched = job[p].fetched
            /\ job'[p].pc \in {"discover", "head", "finish", "receive", "close", "check"}
  <2>0. job \in [Procs -> Jobs]
    BY DEF CacheInv, CacheTypeOK
  <2>1. CASE Lookup(p)
    <3>. DEFINE b == [job[p] EXCEPT !.pc = "discover"]
    <3>1. job' = [job EXCEPT ![p] = Done(job[p], "ok")] \/ job' = [job EXCEPT ![p] = b]
      BY <2>1, Zenon DEF Lookup, Step
    <3>2. /\ b.model = job[p].model /\ b.copy = job[p].copy /\ b.fetched = job[p].fetched
          /\ b.pc = "discover"
      BY <1>1 DEF Jobs
    <3>. HIDE DEF b
    <3>. QED BY <2>0, <3>1, <3>2
  <2>2. CASE Discover(p)
    <3>. DEFINE b == [Begun(job[p], Shards[job[p].model] + 1) EXCEPT !.trouble = TRUE]
                c == Begun(job[p], 1)
    <3>1. job' = [job EXCEPT ![p] = c] \/ job' = [job EXCEPT ![p] = b]
      BY <2>2, Zenon DEF Discover, Step
    <3>2. /\ b.model = job[p].model /\ b.copy = job[p].copy /\ b.fetched = job[p].fetched
          /\ b.pc \in {"head", "finish"}
      BY <1>1 DEF Begun, Jobs
    <3>3. /\ c.model = job[p].model /\ c.copy = job[p].copy /\ c.fetched = job[p].fetched
          /\ c.pc \in {"head", "finish"}
      BY <1>1, LoopCarries
    <3>. HIDE DEF b, c
    <3>. QED BY <2>0, <3>1, <3>2, <3>3
  <2>3. CASE OpenFile(p) \/ Interrupt(p) \/ Complete(p)
    <3>1. \/ job' = [job EXCEPT ![p] = Skip(job[p])]
          \/ job' = [job EXCEPT ![p] = [job[p] EXCEPT !.pc = "receive", !.linked = TRUE]]
          \/ job' = [job EXCEPT ![p] = [[job[p] EXCEPT !.pc = "receive", !.linked = TRUE]
                                          EXCEPT !.ranged = TRUE]]
          \/ job' = [job EXCEPT ![p] = [[job[p] EXCEPT !.pc = "receive", !.linked = TRUE]
                                          EXCEPT !.trouble = TRUE]]
          \/ job' = [job EXCEPT ![p] = [job[p] EXCEPT !.pc = "check", !.from = 0, !.got = 0,
                                                      !.linked = FALSE, !.ranged = FALSE]]
      <4>1. CASE OpenFile(p)
        BY <4>1, Zenon DEF OpenFile, Step
      <4>2. CASE Interrupt(p)
        BY <4>2, Zenon DEF Interrupt, Step
      <4>3. CASE Complete(p)
        BY <4>3 DEF Complete, Step
      <4>. QED BY <2>3, <4>1, <4>2, <4>3
    <3>2. Skip(job[p]).pc \in {"head", "finish"} /\ Skip(job[p]).model = job[p].model
          /\ Skip(job[p]).copy = job[p].copy /\ Skip(job[p]).fetched = job[p].fetched
      BY <1>1, LoopCarries
    <3>3. /\ \A q \in Procs \ {p} : job'[q] = job[q]
          /\ \/ job'[p] = Skip(job[p])
             \/ job'[p] = [job[p] EXCEPT !.pc = "receive", !.linked = TRUE]
             \/ job'[p] = [[job[p] EXCEPT !.pc = "receive", !.linked = TRUE] EXCEPT !.ranged = TRUE]
             \/ job'[p] = [[job[p] EXCEPT !.pc = "receive", !.linked = TRUE] EXCEPT !.trouble = TRUE]
             \/ job'[p] = [job[p] EXCEPT !.pc = "check", !.from = 0, !.got = 0,
                                        !.linked = FALSE, !.ranged = FALSE]
      BY <2>0, <3>1
    <3>4. CASE job'[p] = Skip(job[p])
      BY <3>2, <3>3, <3>4
    <3>5. CASE job'[p] # Skip(job[p])
      BY <1>1, <3>3, <3>5 DEF Jobs
    <3>. QED BY <3>4, <3>5
  <2>4. CASE Receive(p)
    <3>. DEFINE b == [job[p] EXCEPT !.got = @ + 1]
                c == [job[p] EXCEPT !.pc = "close"]
    <3>1. job' = [job EXCEPT ![p] = b] \/ job' = [job EXCEPT ![p] = c]
      BY <2>4, Zenon DEF Receive, Step
    <3>2. /\ b.model = job[p].model /\ b.copy = job[p].copy /\ b.fetched = job[p].fetched
          /\ b.pc = "receive"
      <4>1. job[p].pc = "receive"
        BY <2>4 DEF Receive
      <4>. QED BY <1>1, <4>1 DEF Jobs
    <3>3. /\ c.model = job[p].model /\ c.copy = job[p].copy /\ c.fetched = job[p].fetched
          /\ c.pc = "close"
      BY <1>1 DEF Jobs
    <3>. HIDE DEF b, c
    <3>. QED BY <2>0, <3>1, <3>2, <3>3
  <2>. QED BY <2>1, <2>2, <2>3, <2>4
<1>4. Follows(job[p], job'[p])
  <2>1. CASE job'[p] = Done(job[p], "ok")
    BY <2>1, DoneFollows
  <2>2. CASE /\ job'[p].model = job[p].model /\ job'[p].copy = job[p].copy
             /\ job'[p].fetched = job[p].fetched
             /\ job'[p].pc \in {"discover", "head", "finish", "receive", "close", "check"}
    <3>1. job'[p].pc \in Keeping \ {"truncate", "write"}
      BY <2>2 DEF Keeping, InLoop
    <3>. QED BY <1>1, <1>2, <2>2, <3>1, LoopFollows
  <2>. QED BY <1>3, <2>1, <2>2
<1>5. NoSave /\ \A q \in Procs : job'[q] = job[q] \/ Follows(job[q], job'[q])
  BY <1>2, <1>3, <1>4 DEF NoSave
<1>. QED BY <1>1, <1>5, FollowingKeeps

LEMMA FinishKeepsBasis ==
    ASSUME CacheInv, BasisInv, NEW p \in Procs, Finish(p)
    PROVE  BasisInv' /\ OneEntryStep
<1>. DEFINE m == job[p].model
            c == [job[p] EXCEPT !.pc = "truncate", !.fetched = TRUE, !.copy = @ \cup {m}]
<1>1. /\ job[p] \in Jobs /\ job[p].pc = "finish" /\ UNCHANGED <<index, basis>>
  BY DEF CacheInv, CacheTypeOK, Finish
<1>2. Step(p, Done(job[p], "failed")) \/ Step(p, c)
  BY Zenon DEF Finish
<1>3. c.pc = "truncate" /\ c.fetched = TRUE /\ c.model = m /\ c.copy = job[p].copy \cup {m}
  BY <1>1 DEF Jobs
<1>. HIDE DEF c
<1>4. Follows(job[p], c)
  BY <1>1, <1>3 DEF Follows, Keeping
<1>. QED BY <1>1, <1>2, <1>4, DoneFollows, StepFollows

LEMMA CrashKeepsBasis ==
    ASSUME CacheInv, BasisInv, NEW p \in Procs, CacheCrash(p)
    PROVE  BasisInv' /\ OneEntryStep
  BY DoneFollows, FaultCounts, StepFollows DEF CacheCrash

(* Purge, Examine and Check touch other processes, but not what they read.   *)
LEMMA CrowdKeepsBasis ==
    ASSUME CacheInv, BasisInv, NEW p \in Procs, Purge(p) \/ Examine(p) \/ Check(p)
    PROVE  BasisInv' /\ OneEntryStep
<1>1. /\ job \in [Procs -> Jobs] /\ BasisOK(job[p], basis[p]) /\ UNCHANGED <<index, basis>>
      /\ job[p].pc \in {"purge", "head", "check"}
      /\ \A q \in Procs : BasisOK(job[q], basis[q]) /\ job[q] \in Jobs
  BY DEF CacheInv, CacheTypeOK, BasisInv, Purge, Examine, Check
<1>2. ~job[p].fetched /\ job[p].pc \in Keeping \ {"truncate", "write"}
  BY <1>1 DEF BasisOK, Keeping, InLoop
<1>3. Follows(job[p], job'[p])
  <2>1. CASE Purge(p)
    <3>. DEFINE m == job[p].model
                j == [job[p] EXCEPT !.pc = "truncate", !.copy = @ \ {m}]
    <3>1. job'[p] = j
      BY <2>1 DEF Purge
    <3>2. /\ j.pc = "truncate" /\ j.model = m /\ j.copy = job[p].copy \ {m}
          /\ j.fetched = job[p].fetched
      BY <1>1 DEF Jobs
    <3>. HIDE DEF j
    <3>. QED BY <1>2, <3>1, <3>2 DEF Follows, Keeping
  <2>2. CASE Examine(p) \/ Check(p)
    <3>1. /\ job'[p].model = job[p].model /\ job'[p].copy = job[p].copy
          /\ job'[p].fetched = job[p].fetched
          /\ job'[p].pc \in {"head", "finish", "check", "open"}
      <4>1. CASE Examine(p)
        <5>. DEFINE j == [job[p] EXCEPT !.found = TRUE]
                    k == IF FileOf(j) \in present THEN Len(disk[FileOf(j)]) ELSE 0
                    seen == [j EXCEPT !.trouble = @ \/ Others(p, FileOf(j)) # {}]
        <5>. DEFINE checked == [seen EXCEPT !.pc = "check"]
                    opened == [seen EXCEPT !.pc = "open",
                                           !.from = IF k < Size[FileOf(j)] THEN k ELSE 0]
        <5>1. job'[p] = Skip(job[p]) \/ job'[p] = checked \/ job'[p] = opened
          BY <1>1, <4>1 DEF Examine, Step
        <5>2. seen.model = job[p].model /\ seen.copy = job[p].copy
              /\ seen.fetched = job[p].fetched /\ DOMAIN seen = DOMAIN job[p]
          BY <1>1 DEF Jobs
        <5>. HIDE DEF seen, j, k
        <5>3. /\ checked.model = job[p].model /\ checked.copy = job[p].copy
              /\ checked.fetched = job[p].fetched /\ checked.pc = "check"
              /\ opened.model = job[p].model /\ opened.copy = job[p].copy
              /\ opened.fetched = job[p].fetched /\ opened.pc = "open"
          BY <1>1, <5>2 DEF Jobs
        <5>4. /\ Skip(job[p]).pc \in {"head", "finish"} /\ Skip(job[p]).model = job[p].model
              /\ Skip(job[p]).copy = job[p].copy /\ Skip(job[p]).fetched = job[p].fetched
          BY <1>1, LoopCarries
        <5>. HIDE DEF checked, opened
        <5>. QED BY <5>1, <5>3, <5>4
      <4>2. CASE Check(p)
        <5>1. job'[p] = Onward(job[p]) \/ job'[p] = Skip(job[p])
          BY <1>1, <4>2 DEF Check, Step
        <5>. QED BY <1>1, <5>1, LoopCarries
      <4>. QED BY <2>2, <4>1, <4>2
    <3>2. job'[p].pc \in Keeping \ {"truncate", "write"}
      BY <3>1 DEF Keeping, InLoop
    <3>. QED BY <1>1, <1>2, <3>1, <3>2, LoopFollows
  <2>. QED BY <2>1, <2>2
<1>4. ASSUME NEW q \in Procs \ {p}
      PROVE  /\ job'[q].pc = job[q].pc /\ job'[q].model = job[q].model
             /\ job'[q].copy = job[q].copy /\ job'[q].fetched = job[q].fetched
  <2>1. \/ job'[q] = job[q]
        \/ job'[q] = [job[q] EXCEPT !.trouble = TRUE]
        \/ \E x : job'[q] = [job[q] EXCEPT !.trouble = TRUE, !.linked = x]
    <3>1. CASE Purge(p)
      BY <1>1, <3>1 DEF Purge
    <3>2. CASE Examine(p)
      BY <1>1, <3>2 DEF Examine, Step
    <3>3. CASE Check(p)
      BY <1>1, <3>3 DEF Check, Step
    <3>. QED BY <3>1, <3>2, <3>3
  <2>. QED BY <1>1, <2>1 DEF Jobs
<1>5. ASSUME NEW q \in Procs \ {p} PROVE Follows(job[q], job'[q])
  BY <1>1, <1>4, <1>5 DEF Follows, BasisOK
<1>6. NoSave
  BY <1>1, <1>4 DEF NoSave
<1>7. \A q \in Procs : Follows(job[q], job'[q])
  BY <1>3, <1>5
<1>. QED BY <1>1, <1>6, <1>7, FollowingKeeps

LEMMA CacheStepKeepsBasis ==
    ASSUME CacheInv, BasisInv, NEW p \in Procs, CacheStep(p) \/ CacheCrash(p)
    PROVE  BasisInv' /\ OneEntryStep
<1>1. CASE LoadIndex(p) \/ TruncateIndex(p) \/ WriteIndex(p) \/ SaveFails(p)
  BY <1>1, LoadKeepsBasis, TruncateKeepsBasis, WriteKeepsBasis, SaveFailsKeepsBasis
<1>2. CASE \/ Lookup(p) \/ Discover(p) \/ OpenFile(p) \/ Receive(p) \/ Interrupt(p)
           \/ Complete(p) \/ Finish(p) \/ CacheCrash(p)
  BY <1>2, LookupKeepsBasis, FinishKeepsBasis, CrashKeepsBasis
<1>3. CASE Purge(p) \/ Examine(p) \/ Check(p)
  BY <1>3, CrowdKeepsBasis
<1>. QED BY <1>1, <1>2, <1>3 DEF CacheStep

LEMMA BasisInvNext ==
    ASSUME CacheInv, BasisInv, [CacheNext]_cacheVars
    PROVE  BasisInv' /\ (OneEntryStep \/ UNCHANGED cacheVars)
<1>1. CASE UNCHANGED cacheVars
  <2>1. UNCHANGED <<index, basis, job>>
    BY <1>1 DEF cacheVars
  <2>2. BasisTypeOK' /\ \A q \in Procs : BasisOK(job[q], basis[q])'
    BY <2>1 DEF BasisInv, BasisTypeOK, BasisOK
  <2>. QED BY <1>1, <2>2 DEF BasisInv
<1>. QED BY <1>1, BeginKeepsBasis, CacheStepKeepsBasis DEF CacheNext

LEMMA BasisInvInit == ASSUME NEW s \in Sessions, CacheInit(s) PROVE BasisInv
<1>1. /\ job = [p \in Procs |-> Idle] /\ basis = [p \in Procs |-> Unread]
  BY DEF CacheInit
<1>2. BasisTypeOK
  BY <1>1 DEF BasisTypeOK, Unread
<1>3. ASSUME NEW p \in Procs PROVE BasisOK(job[p], basis[p])
  <2>1. job[p].pc = "ready" /\ job[p].fetched = FALSE
    BY <1>1 DEF Idle
  <2>. QED BY <2>1 DEF BasisOK, Keeping, InLoop
<1>. QED BY <1>2, <1>3 DEF BasisInv

(* The inductive invariant holds always: a process with a file in hand alone*)
(* has appended to a beginning of it, and what the loop has passed is whole. *)
THEOREM CacheInvAlways == CacheSpec => []CacheInv
<1>1. (\E s \in Sessions : CacheInit(s)) => CacheInv
  BY CacheInvInit
<1>. QED BY <1>1, CacheInvNext, PTL DEF CacheSpec

(* A process runs a step of the cache only with variables of the right kind,*)
(* whatever was typed and however the hub failed.                           *)
THEOREM CacheTypeCorrect == CacheSpec => []CacheTypeOK
<1>1. CacheInv => CacheTypeOK
  BY DEF CacheInv
<1>. QED BY <1>1, CacheInvAlways, PTL

(* A resumed download makes no wrong file (huggingface.go:215-263).         *)
THEOREM ResumedFilesAreSound == CacheSpec => []ResumeIsSound
<1>1. CacheInv => ResumeIsSound
  BY DEF CacheInv
<1>. QED BY <1>1, CacheInvAlways, PTL

(* An untroubled download leaves its model whole (huggingface.go:102-149).  *)
THEOREM PullsAreWhole == CacheSpec => PullIsWhole
<1>1. CacheInv /\ [CacheNext]_cacheVars =>
        [\A p \in Procs :
            job[p].pc = "finish" /\ job'[p].pc = "truncate" /\ ~job[p].trouble
            => \A f \in FilesIn(job[p].model) \ mixed : disk[f] = Original(f)]_job
  BY PullIsWholeNext
<1>. QED BY <1>1, CacheInvAlways, PTL DEF CacheSpec, PullIsWhole

(* A save that nobody overtook changes the entry of its own model alone     *)
(* (cache.go:64-97, 164-176, 236-255).                                      *)
THEOREM EntriesPassThrough == CacheSpec => OneEntryAtATime
<1>1. (\E s \in Sessions : CacheInit(s)) => CacheInv /\ BasisInv
  BY CacheInvInit, BasisInvInit
<1>2. CacheInv /\ BasisInv /\ [CacheNext]_cacheVars =>
        (CacheInv /\ BasisInv)' /\ [OneEntryStep]_cacheVars
  BY CacheInvNext, BasisInvNext
<1>. QED BY <1>1, <1>2, PTL DEF CacheSpec, OneEntryAtATime, OneEntryStep

=============================================================================
