----------------------------- MODULE AuditProofs -----------------------------
(***************************************************************************)
(* Proofs about module Audit: for any goroutines, retention, size of the   *)
(* ring, failures and ends of the process, no event that was written is    *)
(* lost, every sink sees every event, the ring keeps the order of events,  *)
(* and none is filed under a day that was over.                            *)
(*                                                                         *)
(* The invariant says who holds the mutex, which file is open, and, of a   *)
(* day that only one compressor has, how far that has come with it.        *)
(***************************************************************************)
EXTENDS Audit, FiniteSetTheorems, TLAPS

Gzips == [day : Days, pc : {"open", "create", "copy", "remove", "done"},
          seen : Seq(Nat)]

Histories ==
    [written : SUBSET Nat, rowFailed : SUBSET Nat, fileFailed : SUBSET Nat,
     returned : SUBSET Nat, dropped : SUBSET Nat,
     before : SUBSET (Nat \X Nat), again : SUBSET Days]

Typed ==
    /\ day \in Days
    /\ stamps \in Seq(Days) /\ Len(stamps) <= MaxEntries
    /\ log \in [Writers -> [pc : Stages, entry : 0 .. MaxEntries]]
    /\ rows \subseteq Entries
    /\ file \in [Days -> Seq(Nat) \cup {Absent}]
    /\ gz \in [Days -> Seq(Nat) \cup {Absent, Broken}]
    /\ mu \in BOOLEAN
    /\ handle \in [day : Days, open : BOOLEAN]
    /\ gzips \in Seq(Gzips)
    /\ ring \in Seq(Nat) /\ Len(ring) <= RingMax
    /\ failures \in 0 .. MaxFailures /\ crashes \in 0 .. MaxCrashes
    /\ history \in Histories

\* The mutex is held exactly while somebody is between its lock and unlock.
Inside(w) == log[w].pc \in {"rotate", "write"}

MutexHeld ==
    /\ \A w \in Writers : Inside(w) => mu
    /\ mu => \E w \in Writers : Inside(w)
    /\ \A v, w \in Writers : Inside(v) /\ Inside(w) => v = w

\* An event is logged once, by one goroutine.
Busy(w) == log[w].pc # "idle"

EventsDistinct ==
    /\ history.returned \subseteq Entries
    /\ history.written \subseteq Entries
    /\ \A p \in history.before : p[1] \in history.returned /\ p[2] \in Entries
    /\ \A w \in Writers : Busy(w) =>
          log[w].entry \in Entries \ history.returned
    /\ \A v, w \in Writers :
          Busy(v) /\ Busy(w) /\ log[v].entry = log[w].entry => v = w

\* The open file is there and takes the events of its day or an earlier one; a
\* closed one is of a day a rotation failed to leave.
HandleIsCurrent ==
    /\ handle.day <= day
    /\ handle.open => file[handle.day] # Absent
    /\ ~handle.open => handle.day < day /\ handle.day \in history.again
    /\ \A d \in history.again : d < day
    /\ \A e \in Entries : stamps[e] <= day
    /\ \A w \in Writers :
          /\ log[w].pc = "rotate" => handle.day < day
          /\ log[w].pc = "write" =>
                handle.open /\ stamps[log[w].entry] <= handle.day

\* Nobody compresses a file that is open.  A day that no rotation failed to
\* leave has one compressor, who has read all of it.
Once(g) == gzips[g].day \notin history.again

Copying(g) ==
    LET d == gzips[g].day
    IN  /\ gzips[g].pc \in {"open", "create"} => gz[d] = Absent
        /\ gzips[g].pc \in {"create", "copy"} => file[d] = gzips[g].seen
        /\ gzips[g].pc = "copy" => gz[d] = Broken
        /\ gzips[g].pc = "remove" => file[d] = gz[d]

CompressorsAgree ==
    /\ \A d \in Days : d >= handle.day /\ d \notin history.again => gz[d] = Absent
    /\ \A g \in DOMAIN gzips :
          /\ gzips[g].day <= handle.day
          /\ handle.open => gzips[g].day < handle.day
    /\ \A g, h \in DOMAIN gzips : gzips[g].day = gzips[h].day /\ Once(g) => g = h
    /\ \A g \in DOMAIN gzips : Once(g) => Copying(g)

\* What is on file, in an archive or on its way into one was stamped in time.
Timely(s, d) == \A e \in Elements(s) : e \in Entries /\ stamps[e] <= d

FiledInTime ==
    /\ \A d \in Days : file[d] # Absent => Timely(file[d], d)
    /\ \A d \in Days : gz[d] \notin {Absent, Broken} => Timely(gz[d], d)
    /\ \A g \in DOMAIN gzips : Timely(gzips[g].seen, gzips[g].day)

\* The database has seen an event before the file, and the file before the ring.
InRows(e) ==
    \/ e \in rows \cup history.rowFailed
    \/ 0 < Retention /\ stamps[e] + Retention <= day

InFile(e) == e \in history.written \cup history.fileFailed

SinksSeeing ==
    /\ \A w \in Writers :
          /\ log[w].pc \in {"lock", "rotate", "write", "ring"} => InRows(log[w].entry)
          /\ log[w].pc = "ring" => InFile(log[w].entry)
    /\ \A e \in history.returned :
          InRows(e) /\ (InFile(e) \/ e \in history.dropped)

\* The ring has what was logged, each event once.
Ordered(a, b) == \E i, j \in DOMAIN ring : ring[i] = a /\ ring[j] = b /\ i < j

RingOrdered ==
    /\ Elements(ring) \subseteq history.returned
    /\ \A i, j \in DOMAIN ring : ring[i] = ring[j] => i = j
    /\ \A p \in history.before :
          p[1] \in Elements(ring) /\ p[2] \in history.returned \ history.dropped
            => Ordered(p[1], p[2])

-----------------------------------------------------------------------------
(* Sequences.                                                              *)

LEMMA Constants ==
    /\ Retention \in Nat /\ MaxEntries \in Nat /\ MaxFailures \in Nat
    /\ MaxCrashes \in Nat /\ RingMax \in Nat \ {0} /\ MaxDay \in Nat \ {0}
    /\ Days \subseteq Nat /\ 1 \in Days
    /\ \A d \in Days : d + 1 \in Nat
  BY AuditAssumption DEF Days

\* What a sequence has after another element was appended.
LEMMA Longer ==
    ASSUME NEW S, NEW s \in Seq(S), NEW e \in S
    PROVE  /\ Append(s, e) \in Seq(S)
           /\ Len(Append(s, e)) = Len(s) + 1
           /\ Elements(Append(s, e)) = Elements(s) \cup {e}
           /\ DOMAIN Append(s, e) = DOMAIN s \cup {Len(s) + 1}
           /\ \A i \in DOMAIN s : Append(s, e)[i] = s[i]
           /\ Append(s, e)[Len(s) + 1] = e
           /\ DOMAIN s = 1 .. Len(s) /\ Len(s) \in Nat
<1>1. /\ Append(s, e) \in Seq(S)
      /\ Len(Append(s, e)) = Len(s) + 1
      /\ DOMAIN Append(s, e) = 1 .. Len(s) + 1
      /\ \A i \in 1 .. Len(s) : Append(s, e)[i] = s[i]
      /\ Append(s, e)[Len(s) + 1] = e
      /\ DOMAIN s = 1 .. Len(s) /\ Len(s) \in Nat
  OBVIOUS
<1>2. Elements(Append(s, e)) = Elements(s) \cup {e}
  BY <1>1 DEF Elements
<1> QED
  BY <1>1, <1>2

\* An event that begins gets a number of its own; those before it keep theirs.
LEMMA Stamped ==
    ASSUME Typed, stamps' = Append(stamps, day)
    PROVE  /\ stamps' \in Seq(Days)
           /\ Len(stamps') = Len(stamps) + 1 /\ Len(stamps) \in Nat
           /\ Len(stamps') \notin Entries
           /\ Entries' = Entries \cup {Len(stamps')}
           /\ \A e \in Entries : stamps'[e] = stamps[e] /\ stamps[e] \in Days
           /\ stamps'[Len(stamps')] = day
  BY Longer DEF Typed, Entries

-----------------------------------------------------------------------------
(* Types.                                                                  *)

LEMMA TypedInit == Init => Typed
<1> SUFFICES ASSUME Init PROVE Typed
  OBVIOUS
<1>1. /\ day \in Days /\ stamps \in Seq(Days) /\ Len(stamps) = 0 /\ rows \subseteq Entries
      /\ 0 \in 0 .. MaxFailures /\ 0 \in 0 .. MaxCrashes /\ 0 \in 0 .. MaxEntries
      /\ Len(stamps) <= MaxEntries /\ Len(ring) <= RingMax
      /\ ring \in Seq(Nat) /\ gzips \in Seq(Gzips)
  BY Constants DEF Init
<1>2. /\ log \in [Writers -> [pc : Stages, entry : 0 .. MaxEntries]]
      /\ file \in [Days -> Seq(Nat) \cup {Absent}]
      /\ gz \in [Days -> Seq(Nat) \cup {Absent, Broken}]
      /\ mu \in BOOLEAN
      /\ handle \in [day : Days, open : BOOLEAN]
  BY <1>1 DEF Init, Idle, Stages
<1>3. history \in Histories
  BY DEF Init, Histories
<1> QED
  BY <1>1, <1>2, <1>3 DEF Typed, Init

\* A compressor changes only itself, and never what it was told to compress.
LEMMA GzipShape ==
    ASSUME Typed, NEW g \in 1 .. MaxGzips, GzipStep(g)
    PROVE  /\ g \in DOMAIN gzips /\ gzips[g] \in Gzips /\ gzips[g].day \in Days
           /\ gzips' \in Seq(Gzips) /\ DOMAIN gzips' = DOMAIN gzips
           /\ gzips'[g].day = gzips[g].day
           /\ \A h \in DOMAIN gzips : h # g => gzips'[h] = gzips[h]
           /\ failures' \in 0 .. MaxFailures
           /\ UNCHANGED <<day, stamps, log, rows, mu, handle, ring, crashes, history>>
<1>1. g \in DOMAIN gzips
  BY DEF GzipStep, OpenSource, CreateArchive, WriteArchive, RemoveSource,
         GzipFails, At
<1>2. gzips[g] \in Gzips
  BY <1>1 DEF Typed
<1>3. gzips[g].day \in Days
  BY <1>2 DEF Gzips
<1> DEFINE Turned(r) == gzips' = [gzips EXCEPT ![g] = r]
<1>0. << >> \in Seq(Nat)
  OBVIOUS
<1>4. \E r \in Gzips : r.day = gzips[g].day /\ Turned(r)
  <2>1. file[gzips[g].day] = Absent \/ file[gzips[g].day] \in Seq(Nat)
    BY <1>3 DEF Typed
  <2>2. CASE OpenSource(g)
    <3>1. CASE file[gzips[g].day] = Absent
      <4>1. [gzips[g] EXCEPT !.pc = "done"] \in Gzips
        BY <1>2 DEF Gzips
      <4> QED
        BY <4>1, <3>1, <2>2, <1>2 DEF OpenSource, Gzips
    <3>2. CASE file[gzips[g].day] # Absent
      <4>1. [gzips[g] EXCEPT !.pc = "create", !.seen = file[gzips[g].day]] \in Gzips
        BY <1>2, <2>1, <3>2 DEF Gzips
      <4> QED
        BY <4>1, <3>2, <2>2, <1>2 DEF OpenSource, Gzips
    <3> QED
      BY <3>1, <3>2
  <2>3. CASE CreateArchive(g)
    <3>1. [gzips[g] EXCEPT !.pc = "copy"] \in Gzips
      BY <1>2 DEF Gzips
    <3> QED
      BY <3>1, <2>3, <1>2 DEF CreateArchive, Gzips
  <2>4. CASE WriteArchive(g)
    <3>1. [gzips[g] EXCEPT !.pc = "remove", !.seen = << >>] \in Gzips
      BY <1>0, <1>2 DEF Gzips
    <3> QED
      BY <3>1, <2>4, <1>2 DEF WriteArchive, Gzips
  <2>5. CASE RemoveSource(g)
    <3>1. [gzips[g] EXCEPT !.pc = "done"] \in Gzips
      BY <1>2 DEF Gzips
    <3> QED
      BY <3>1, <2>5, <1>2 DEF RemoveSource, Gzips
  <2>6. CASE GzipFails(g)
    <3>1. [gzips[g] EXCEPT !.pc = "done", !.seen = << >>] \in Gzips
      BY <1>0, <1>2 DEF Gzips
    <3> QED
      BY <3>1, <2>6, <1>2 DEF GzipFails, Gzips
  <2> QED
    BY <2>2, <2>3, <2>4, <2>5, <2>6 DEF GzipStep
<1>5. PICK r \in Gzips : r.day = gzips[g].day /\ Turned(r)
  BY <1>4
<1>6. /\ gzips' \in Seq(Gzips) /\ DOMAIN gzips' = DOMAIN gzips
      /\ gzips'[g].day = gzips[g].day
      /\ \A h \in DOMAIN gzips : h # g => gzips'[h] = gzips[h]
  BY <1>1, <1>5 DEF Typed
<1>7. failures' \in 0 .. MaxFailures
  <2>1. failures' = failures \/ Fails
    BY DEF GzipStep, OpenSource, CreateArchive, WriteArchive, RemoveSource, GzipFails
  <2> QED
    BY <2>1, Constants DEF Typed, Fails
<1>8. UNCHANGED <<day, stamps, log, rows, mu, handle, ring, crashes, history>>
  BY DEF GzipStep, OpenSource, CreateArchive, WriteArchive, RemoveSource,
         GzipFails, GzipKeeps
<1> QED
  BY <1>1, <1>2, <1>3, <1>6, <1>7, <1>8

LEMMA GzipTyped ==
    ASSUME Typed, NEW g \in 1 .. MaxGzips, GzipStep(g)
    PROVE  Typed'
<1>1. /\ gzips[g] \in Gzips /\ gzips[g].day \in Days /\ gzips[g].seen \in Seq(Nat)
      /\ gzips' \in Seq(Gzips)
      /\ failures' \in 0 .. MaxFailures
      /\ UNCHANGED <<day, stamps, log, rows, mu, handle, ring, crashes, history>>
  BY GzipShape DEF Gzips
<1>2. /\ file' \in [Days -> Seq(Nat) \cup {Absent}]
      /\ gz' \in [Days -> Seq(Nat) \cup {Absent, Broken}]
  BY <1>1 DEF GzipStep, OpenSource, CreateArchive, WriteArchive, RemoveSource,
              GzipFails, Typed
<1> QED
  BY <1>1, <1>2 DEF Typed, Entries

\* A goroutine that goes on with what it does keeps its event, and the others
\* theirs.
LEMMA GoesShape ==
    ASSUME Typed, NEW w \in Writers, NEW pc \in Stages, Goes(w, pc)
    PROVE  /\ log' \in [Writers -> [pc : Stages, entry : 0 .. MaxEntries]]
           /\ log'[w].pc = pc /\ log'[w].entry = log[w].entry
           /\ \A v \in Writers : v # w => log'[v] = log[v]
  BY DEF Typed, Goes

LEMMA IdleShape ==
    ASSUME Typed, NEW w \in Writers, log' = [log EXCEPT ![w] = Idle]
    PROVE  /\ log' \in [Writers -> [pc : Stages, entry : 0 .. MaxEntries]]
           /\ log'[w].pc = "idle"
           /\ \A v \in Writers : v # w => log'[v] = log[v]
<1>1. Idle \in [pc : Stages, entry : 0 .. MaxEntries] /\ Idle.pc = "idle"
  BY Constants DEF Idle, Stages
<1> QED
  BY <1>1 DEF Typed

LEMMA NotesShape ==
    ASSUME Typed, NEW e \in Nat,
           NEW field \in {"written", "rowFailed", "fileFailed", "returned"},
           Notes(field, e)
    PROVE  /\ history' \in Histories
           /\ history'[field] = history[field] \cup {e}
           /\ \A other \in {"written", "rowFailed", "fileFailed", "returned",
                            "dropped", "before", "again"} \ {field} :
                 history'[other] = history[other]
  BY DEF Typed, Notes, Histories

LEMMA BusyEntry ==
    ASSUME Typed, EventsDistinct, NEW w \in Writers, log[w].pc # "idle"
    PROVE  /\ log[w].entry \in Entries /\ log[w].entry \in Nat
           /\ log[w].entry \notin history.returned
  BY DEF EventsDistinct, Busy, Typed, Entries

LEMMA BeginTyped ==
    ASSUME Typed, EventsDistinct, NEW w \in Writers, Begin(w)
    PROVE  /\ Typed'
           /\ log'[w].pc = "insert" /\ log'[w].entry = Len(stamps')
           /\ \A v \in Writers : v # w => log'[v] = log[v]
           /\ history' = [history EXCEPT !.before =
                             @ \cup (history.returned \X {Len(stamps')})]
           /\ \A field \in {"written", "rowFailed", "fileFailed", "returned",
                            "dropped", "again"} : history'[field] = history[field]
<1>1. /\ stamps' = Append(stamps, day)
      /\ Len(stamps) < MaxEntries
      /\ history' = [history EXCEPT !.before =
                        @ \cup (history.returned \X {Len(stamps')})]
      /\ log' = [log EXCEPT ![w] = [pc |-> "insert", entry |-> Len(stamps')]]
      /\ UNCHANGED <<day, rows, file, gz, mu, handle, gzips, ring, failures, crashes>>
  BY DEF Begin
<1>2. /\ stamps' \in Seq(Days)
      /\ Len(stamps') = Len(stamps) + 1 /\ Len(stamps) \in Nat
      /\ Entries' = Entries \cup {Len(stamps')}
  BY <1>1, Stamped
<1>3. Len(stamps') \in 0 .. MaxEntries /\ Len(stamps') <= MaxEntries
  BY <1>1, <1>2, Constants
<1>4. /\ log' \in [Writers -> [pc : Stages, entry : 0 .. MaxEntries]]
      /\ log'[w].pc = "insert" /\ log'[w].entry = Len(stamps')
      /\ \A v \in Writers : v # w => log'[v] = log[v]
  <2>1. [pc |-> "insert", entry |-> Len(stamps')] \in
            [pc : Stages, entry : 0 .. MaxEntries]
    BY <1>3 DEF Stages
  <2> QED
    BY <2>1, <1>1 DEF Typed
<1>5. /\ history' \in Histories
      /\ \A field \in {"written", "rowFailed", "fileFailed", "returned",
                       "dropped", "again"} : history'[field] = history[field]
  <2>1. history.returned \X {Len(stamps')} \subseteq Nat \X Nat
    BY <1>2 DEF Typed, Histories
  <2> QED
    BY <2>1, <1>1 DEF Typed, Histories
<1> QED
  BY <1>1, <1>2, <1>3, <1>4, <1>5 DEF Typed

\* A compression is started by appending its goroutine.
LEMMA CompressShape ==
    ASSUME Typed, Compress
    PROVE  LET n == Len(gzips) + 1
           IN  /\ gzips' \in Seq(Gzips)
               /\ n \notin DOMAIN gzips /\ DOMAIN gzips' = DOMAIN gzips \cup {n}
               /\ gzips'[n].day = handle.day /\ gzips'[n].pc = "open"
               /\ gzips'[n].seen = << >>
               /\ \A g \in DOMAIN gzips : gzips'[g] = gzips[g]
<1> DEFINE new == [day |-> handle.day, pc |-> "open", seen |-> << >>]
<1>1. << >> \in Seq(Nat)
  OBVIOUS
<1>2. new \in Gzips
  BY <1>1 DEF Typed, Gzips
<1>3. gzips \in Seq(Gzips) /\ gzips' = Append(gzips, new)
  BY DEF Typed, Compress
<1> HIDE DEF new
<1>4. /\ gzips' \in Seq(Gzips)
      /\ DOMAIN gzips = 1 .. Len(gzips) /\ Len(gzips) \in Nat
      /\ DOMAIN gzips' = DOMAIN gzips \cup {Len(gzips) + 1}
      /\ gzips'[Len(gzips) + 1] = new
      /\ \A g \in DOMAIN gzips : gzips'[g] = gzips[g]
  BY <1>2, <1>3, Longer
<1> QED
  BY <1>4 DEF new

LEMMA OpenFileShape ==
    ASSUME Typed, NEW d \in Days, OpenFile(d)
    PROVE  /\ file' \in [Days -> Seq(Nat) \cup {Absent}]
           /\ file'[d] # Absent
           /\ \A c \in Days : file[c] # Absent \/ c # d => file'[c] = file[c]
           /\ file[d] = Absent => file'[d] = << >>
<1>1. << >> \in Seq(Nat)
  OBVIOUS
<1>2. << >> # Absent
  BY <1>1, AuditAssumption
<1> QED
  BY <1>1, <1>2 DEF Typed, OpenFile

LEMMA FailsTyped == Typed /\ Fails => failures' \in 0 .. MaxFailures
  BY Constants DEF Typed, Fails

LEMMA RotateTyped ==
    ASSUME Typed, NEW w \in Writers, Rotate(w)
    PROVE  Typed'
<1>1. /\ Compress /\ OpenFile(day) /\ Goes(w, "write")
      /\ handle' = [day |-> day, open |-> TRUE]
      /\ UNCHANGED <<day, stamps, rows, gz, mu, ring, failures, crashes, history>>
  BY DEF Rotate
<1>2. handle' \in [day : Days, open : BOOLEAN]
  BY <1>1 DEF Typed
<1>3. log' \in [Writers -> [pc : Stages, entry : 0 .. MaxEntries]]
  BY <1>1, GoesShape DEF Stages
<1>4. file' \in [Days -> Seq(Nat) \cup {Absent}]
  BY <1>1, OpenFileShape DEF Typed
<1>5. gzips' \in Seq(Gzips)
  BY <1>1, CompressShape
<1> QED
  BY <1>1, <1>2, <1>3, <1>4, <1>5 DEF Typed, Entries

LEMMA RotateFailsTyped ==
    ASSUME Typed, EventsDistinct, NEW w \in Writers, RotateFails(w)
    PROVE  Typed'
<1>1. /\ log[w].pc = "rotate" /\ Fails /\ Compress
      /\ history' = [history EXCEPT !.again = @ \cup {handle.day},
                                    !.dropped = @ \cup {log[w].entry},
                                    !.returned = @ \cup {log[w].entry}]
      /\ log' = [log EXCEPT ![w] = Idle]
      /\ handle' = [handle EXCEPT !.open = FALSE] /\ mu' = FALSE
      /\ UNCHANGED <<day, stamps, rows, file, gz, ring, crashes>>
  BY DEF RotateFails, RotationFailed
<1>2. handle' \in [day : Days, open : BOOLEAN] /\ handle.day \in Days
  BY <1>1 DEF Typed
<1>3. history' \in Histories
  BY ZenonT(30), <1>1, <1>2, BusyEntry DEF Typed, Histories
<1>4. log' \in [Writers -> [pc : Stages, entry : 0 .. MaxEntries]]
  BY <1>1, IdleShape
<1>5. gzips' \in Seq(Gzips)
  BY <1>1, CompressShape
<1>6. failures' \in 0 .. MaxFailures
  BY <1>1, FailsTyped
<1> QED
  BY <1>1, <1>2, <1>3, <1>4, <1>5, <1>6 DEF Typed, Entries

\* Either the open file has one more event, or nothing is different on disk.
LEMMA WriteShape ==
    ASSUME Typed, EventsDistinct, NEW w \in Writers, Write(w)
    PROVE  LET e == log[w].entry
           IN  /\ log[w].pc = "write" /\ mu' = FALSE /\ Goes(w, "ring")
               /\ e \in Nat
               /\ UNCHANGED <<day, stamps, rows, gz, handle, gzips, ring, crashes>>
               /\ failures' \in 0 .. MaxFailures
               /\ \/ /\ handle.open /\ file[handle.day] # Absent
                     /\ file' = [file EXCEPT ![handle.day] = Append(@, e)]
                     /\ Notes("written", e)
                  \/ /\ ~handle.open \/ file[handle.day] = Absent
                     /\ file' = file
                     /\ IF handle.open THEN Notes("written", e) ELSE history' = history
                  \/ /\ file' = file
                     /\ Notes("fileFailed", e)
  BY BusyEntry, FailsTyped DEF Write, Typed

LEMMA WriteTyped ==
    ASSUME Typed, EventsDistinct, NEW w \in Writers, Write(w)
    PROVE  Typed'
<1> DEFINE e == log[w].entry
<1>1. /\ Goes(w, "ring") /\ e \in Nat /\ mu' = FALSE
      /\ UNCHANGED <<day, stamps, rows, gz, handle, gzips, ring, crashes>>
      /\ failures' \in 0 .. MaxFailures
  BY WriteShape
<1>2. log' \in [Writers -> [pc : Stages, entry : 0 .. MaxEntries]]
  BY <1>1, GoesShape DEF Stages
<1>3. file' \in [Days -> Seq(Nat) \cup {Absent}]
  <2>1. handle.day \in Days
    BY DEF Typed
  <2>2. file[handle.day] # Absent => Append(file[handle.day], e) \in Seq(Nat)
    BY <2>1, <1>1, Longer DEF Typed
  <2>3. file' = file \/ (/\ file[handle.day] # Absent
                         /\ file' = [file EXCEPT ![handle.day] = Append(@, e)])
    BY WriteShape
  <2> QED
    BY <2>1, <2>2, <2>3 DEF Typed
<1>4. history' \in Histories
  <2>1. Notes("written", e) \/ Notes("fileFailed", e) \/ history' = history
    BY WriteShape
  <2> QED
    BY <2>1, <1>1, NotesShape DEF Typed
<1> QED
  BY <1>1, <1>2, <1>3, <1>4 DEF Typed, Entries

LEMMA Newest ==
    ASSUME NEW s \in Seq(Nat), NEW k \in Nat, k <= Len(s)
    PROVE  LET r == SubSeq(s, k + 1, Len(s))
           IN  /\ r \in Seq(Nat) /\ Len(r) = Len(s) - k
               /\ DOMAIN r = 1 .. Len(s) - k
               /\ \A i \in 1 .. Len(s) - k : r[i] = s[i + k]
<1> DEFINE r == SubSeq(s, k + 1, Len(s))
<1>1. Len(s) \in Nat /\ \A i \in 1 .. Len(s) : s[i] \in Nat
  OBVIOUS
<1>2. r \in Seq(Nat)
  BY <1>1
<1>3. Len(r) = Len(s) - k
  BY <1>1
<1>4. ASSUME NEW i \in 1 .. Len(s) - k
      PROVE  r[i] = s[i + k]
  BY <1>1
<1>5. DOMAIN r = 1 .. Len(r)
  BY <1>2
<1> QED
  BY <1>2, <1>3, <1>4, <1>5

\* The ring keeps the newest events: its last, and those before it in order.
LEMMA RememberShape ==
    ASSUME Typed, EventsDistinct, NEW w \in Writers, Remember(w)
    PROVE  /\ log[w].pc = "ring" /\ log[w].entry \in Nat
           /\ ring' \in Seq(Nat) /\ Len(ring') <= RingMax
           /\ Len(ring) \in Nat /\ DOMAIN ring = 1 .. Len(ring)
           /\ \E k \in 0 .. Len(ring) :
                /\ DOMAIN ring' = 1 .. Len(ring) + 1 - k
                /\ \A i \in DOMAIN ring' :
                      ring'[i] = IF i + k = Len(ring) + 1 THEN log[w].entry
                                                          ELSE ring[i + k]
<1> DEFINE e == log[w].entry
           longer == Append(ring, e)
<1>1. log[w].pc = "ring"
  BY DEF Remember
<1>2. e \in Nat
  BY <1>1, BusyEntry
<1>3. /\ longer \in Seq(Nat) /\ Len(longer) = Len(ring) + 1
      /\ Len(ring) \in Nat /\ DOMAIN ring = 1 .. Len(ring)
      /\ \A i \in 1 .. Len(ring) : longer[i] = ring[i]
      /\ longer[Len(ring) + 1] = e
      /\ DOMAIN longer = 1 .. Len(ring) + 1
  BY <1>2, Longer DEF Typed
<1>4. ring' = IF Len(longer) > RingMax
              THEN SubSeq(longer, Len(longer) - RingMax + 1, Len(longer))
              ELSE longer
  BY DEF Remember
<1>5. RingMax \in Nat /\ RingMax > 0 /\ Len(ring) <= RingMax
  BY Constants DEF Typed
<1> HIDE DEF longer, e
<1>6. CASE Len(longer) > RingMax
  <2> DEFINE k == Len(longer) - RingMax
  <2>1. k \in Nat /\ k \in 0 .. Len(ring) /\ k <= Len(longer)
    BY <1>3, <1>5, <1>6
  <2>2. ring' = SubSeq(longer, k + 1, Len(longer))
    BY <1>4, <1>6
  <2> HIDE DEF k
  <2>3. /\ ring' \in Seq(Nat) /\ Len(ring') = Len(longer) - k
        /\ DOMAIN ring' = 1 .. Len(longer) - k
        /\ \A i \in 1 .. Len(longer) - k : ring'[i] = longer[i + k]
    BY <2>1, <2>2, <1>3, Newest
  <2>4. Len(longer) - k = Len(ring) + 1 - k
    BY <1>3, <2>1
  <2>5. ASSUME NEW i \in 1 .. Len(ring) + 1 - k
        PROVE  ring'[i] = IF i + k = Len(ring) + 1 THEN e ELSE ring[i + k]
    <3>1. i + k \in 1 .. Len(ring) + 1 /\ i \in 1 .. Len(longer) - k
      BY <2>1, <2>4
    <3>2. ring'[i] = longer[i + k]
      BY <2>3, <3>1
    <3>3. CASE i + k = Len(ring) + 1
      BY <1>3, <3>2, <3>3
    <3>4. CASE i + k # Len(ring) + 1
      <4>1. i + k \in 1 .. Len(ring)
        BY <3>1, <3>4, <2>1
      <4> QED
        BY <4>1, <1>3, <3>2, <3>4
    <3> QED
      BY <3>3, <3>4
  <2>6. Len(longer) - k <= RingMax
    BY <1>3, <1>5 DEF k
  <2> QED
    BY <1>1, <1>2, <1>3, <2>1, <2>3, <2>4, <2>5, <2>6 DEF e
<1>7. CASE ~(Len(longer) > RingMax)
  <2>1. ring' = longer
    BY <1>4, <1>7
  <2>2. 0 \in 0 .. Len(ring)
    BY <1>3
  <2>3. DOMAIN ring' = 1 .. Len(ring) + 1 - 0
    BY <2>1, <1>3
  <2>4. \A i \in 1 .. Len(ring) + 1 - 0 :
           ring'[i] = IF i + 0 = Len(ring) + 1 THEN e ELSE ring[i + 0]
    BY <2>1, <1>3
  <2>5. ring' \in Seq(Nat) /\ Len(ring') <= RingMax
    BY <2>1, <1>3, <1>5, <1>7
  <2> QED
    BY <1>1, <1>2, <1>3, <2>2, <2>3, <2>4, <2>5 DEF e
<1> QED
  BY <1>6, <1>7

LEMMA RememberTyped ==
    ASSUME Typed, EventsDistinct, NEW w \in Writers, Remember(w)
    PROVE  Typed'
<1>1. /\ log[w].pc = "ring" /\ log[w].entry \in Nat
      /\ ring' \in Seq(Nat) /\ Len(ring') <= RingMax
  BY RememberShape
<1>2. /\ Notes("returned", log[w].entry) /\ log' = [log EXCEPT ![w] = Idle]
      /\ UNCHANGED <<day, stamps, rows, file, gz, mu, handle, gzips, failures, crashes>>
  BY DEF Remember
<1>3. history' \in Histories
  BY <1>1, <1>2, NotesShape
<1>4. log' \in [Writers -> [pc : Stages, entry : 0 .. MaxEntries]]
  BY <1>2, IdleShape
<1> QED
  BY <1>1, <1>2, <1>3, <1>4 DEF Typed, Entries

LEMMA StepTyped ==
    ASSUME Typed, EventsDistinct, [Next]_auditVars
    PROVE  Typed'
<1>1. CASE UNCHANGED auditVars
  BY <1>1 DEF auditVars, Typed, Entries
<1>2. ASSUME NEW w \in Writers, Begin(w) PROVE Typed'
  BY <1>2, BeginTyped
<1>3. ASSUME NEW w \in Writers, LogStep(w) PROVE Typed'
  <2>1. CASE InsertRow(w)
    <3>1. /\ log[w].pc = "insert" /\ rows' = rows \cup {log[w].entry} /\ Goes(w, "lock")
          /\ UNCHANGED <<day, stamps, file, gz, mu, handle, gzips, ring, failures,
                         crashes, history>>
      BY <2>1 DEF InsertRow
    <3>2. log' \in [Writers -> [pc : Stages, entry : 0 .. MaxEntries]]
      BY <3>1, GoesShape DEF Stages
    <3>3. log[w].entry \in Entries
      BY <3>1, BusyEntry
    <3> QED
      BY <3>1, <3>2, <3>3 DEF Typed, Entries
  <2>2. CASE InsertFails(w)
    <3>1. /\ log[w].pc = "insert" /\ Fails /\ Notes("rowFailed", log[w].entry)
          /\ Goes(w, "lock")
          /\ UNCHANGED <<day, stamps, rows, file, gz, mu, handle, gzips, ring, crashes>>
      BY <2>2 DEF InsertFails
    <3>2. log' \in [Writers -> [pc : Stages, entry : 0 .. MaxEntries]]
      BY <3>1, GoesShape DEF Stages
    <3>3. history' \in Histories
      BY <3>1, BusyEntry, NotesShape
    <3>4. failures' \in 0 .. MaxFailures
      BY <3>1, FailsTyped
    <3> QED
      BY <3>1, <3>2, <3>3, <3>4 DEF Typed, Entries
  <2>3. CASE Enter(w)
    <3>1. /\ mu' = TRUE
          /\ Goes(w, IF day # handle.day THEN "rotate" ELSE "write")
          /\ UNCHANGED <<day, stamps, rows, file, gz, handle, gzips, ring, failures,
                         crashes, history>>
      BY <2>3 DEF Enter
    <3>2. log' \in [Writers -> [pc : Stages, entry : 0 .. MaxEntries]]
      BY <3>1, GoesShape DEF Stages
    <3> QED
      BY <3>1, <3>2 DEF Typed, Entries
  <2> QED
    BY <1>3, <2>1, <2>2, <2>3, RotateTyped, RotateFailsTyped, WriteTyped,
       RememberTyped DEF LogStep
<1>4. ASSUME NEW g \in 1 .. MaxGzips, GzipStep(g) PROVE Typed'
  BY <1>4, GzipTyped
<1>5. ASSUME NEW k \in 1 .. MaxEntries + 1, Prune(k) PROVE Typed'
  BY <1>5 DEF Prune, Typed, Entries
<1>6. CASE Midnight
  <2>1. day' \in Days
    BY <1>6, Constants DEF Midnight, Typed, Days
  <2> QED
    BY <2>1, <1>6 DEF Midnight, Typed, Entries
<1>7. CASE Restart
  <2>1. /\ day \in Days /\ OpenFile(day) /\ crashes < MaxCrashes /\ crashes' = crashes + 1
        /\ log' = [w \in Writers |-> Idle] /\ mu' = FALSE
        /\ handle' = [day |-> day, open |-> TRUE]
        /\ gzips' = << >> /\ ring' = << >>
        /\ UNCHANGED <<day, stamps, rows, gz, failures, history>>
    BY <1>7 DEF Restart, Typed
  <2>2. file' \in [Days -> Seq(Nat) \cup {Absent}]
    BY <2>1, OpenFileShape
  <2>3. log' \in [Writers -> [pc : Stages, entry : 0 .. MaxEntries]]
    BY <2>1, Constants DEF Idle, Stages
  <2>4. gzips' \in Seq(Gzips) /\ ring' \in Seq(Nat) /\ Len(ring') <= RingMax
    BY <2>1, Constants
  <2>5. crashes' \in 0 .. MaxCrashes
    BY <2>1, Constants DEF Typed
  <2>6. handle' \in [day : Days, open : BOOLEAN]
    BY <2>1
  <2> QED
    BY <2>1, <2>2, <2>3, <2>4, <2>5, <2>6 DEF Typed, Entries
<1> QED
  BY <1>1, <1>2, <1>3, <1>4, <1>5, <1>6, <1>7 DEF Next

-----------------------------------------------------------------------------
(* The mutex, and events as goroutines have them.                           *)

LEMMA MutexStep ==
    ASSUME Typed, EventsDistinct, MutexHeld, [Next]_auditVars
    PROVE  MutexHeld'
<1>1. ASSUME log' = log, mu' = mu PROVE MutexHeld'
  BY <1>1 DEF MutexHeld, Inside
<1>2. ASSUME NEW w \in Writers, Begin(w) PROVE MutexHeld'
  <2>1. mu' = mu /\ log[w].pc = "idle"
    BY <1>2 DEF Begin
  <2> QED
    BY <1>2, <2>1, BeginTyped DEF MutexHeld, Inside
<1>3. ASSUME NEW w \in Writers, InsertRow(w) \/ InsertFails(w) PROVE MutexHeld'
  <2>1. mu' = mu /\ log[w].pc = "insert" /\ Goes(w, "lock")
    BY <1>3 DEF InsertRow, InsertFails
  <2> QED
    BY <2>1, GoesShape DEF MutexHeld, Inside, Stages
<1>4. ASSUME NEW w \in Writers, Enter(w) PROVE MutexHeld'
  <2>1. ~mu /\ mu' = TRUE /\ \E pc \in {"rotate", "write"} : Goes(w, pc)
    BY <1>4 DEF Enter
  <2> QED
    BY <2>1, GoesShape DEF MutexHeld, Inside, Stages
<1>5. ASSUME NEW w \in Writers, Rotate(w) PROVE MutexHeld'
  <2>1. mu' = mu /\ log[w].pc = "rotate" /\ Goes(w, "write")
    BY <1>5 DEF Rotate
  <2> QED
    BY <2>1, GoesShape DEF MutexHeld, Inside, Stages
<1>6. ASSUME NEW w \in Writers, RotateFails(w) PROVE MutexHeld'
  <2>1. mu' = FALSE /\ log[w].pc = "rotate" /\ log' = [log EXCEPT ![w] = Idle]
    BY <1>6 DEF RotateFails, RotationFailed
  <2> QED
    BY <2>1, IdleShape DEF MutexHeld, Inside
<1>7. ASSUME NEW w \in Writers, Write(w) PROVE MutexHeld'
  <2>1. mu' = FALSE /\ log[w].pc = "write" /\ Goes(w, "ring")
    BY <1>7 DEF Write
  <2> QED
    BY <2>1, GoesShape DEF MutexHeld, Inside, Stages
<1>8. ASSUME NEW w \in Writers, Remember(w) PROVE MutexHeld'
  <2>1. mu' = mu /\ log[w].pc = "ring" /\ log' = [log EXCEPT ![w] = Idle]
    BY <1>8 DEF Remember
  <2> QED
    BY <2>1, IdleShape DEF MutexHeld, Inside
<1>9. CASE Restart
  BY <1>9 DEF Restart, MutexHeld, Inside, Idle
<1>10. ASSUME NEW g \in 1 .. MaxGzips, GzipStep(g) PROVE MutexHeld'
  BY <1>1, <1>10, GzipShape
<1>11. ASSUME NEW k \in 1 .. MaxEntries + 1, Prune(k) PROVE MutexHeld'
  BY <1>1, <1>11 DEF Prune
<1>12. CASE Midnight
  BY <1>1, <1>12 DEF Midnight
<1>13. CASE UNCHANGED auditVars
  BY <1>1, <1>13 DEF auditVars
<1> QED
  BY <1>2, <1>3, <1>4, <1>5, <1>6, <1>7, <1>8, <1>9, <1>10, <1>11, <1>12, <1>13
     DEF Next, LogStep

\* What a failed rotation does to the rest of the state.
LEMMA RotateFailsShape ==
    ASSUME Typed, EventsDistinct, NEW w \in Writers, RotateFails(w)
    PROVE  /\ log[w].pc = "rotate" /\ log' = [log EXCEPT ![w] = Idle]
           /\ Compress /\ mu' = FALSE
           /\ handle'.day = handle.day /\ handle'.open = FALSE
           /\ history'.again = history.again \cup {handle.day}
           /\ history'.dropped = history.dropped \cup {log[w].entry}
           /\ history'.returned = history.returned \cup {log[w].entry}
           /\ history'.written = history.written /\ history'.before = history.before
           /\ history'.rowFailed = history.rowFailed
           /\ history'.fileFailed = history.fileFailed
           /\ UNCHANGED <<day, stamps, rows, file, gz, ring, crashes>>
  BY DEF RotateFails, RotationFailed, Typed, Histories

LEMMA EventsStep ==
    ASSUME Typed, EventsDistinct, [Next]_auditVars
    PROVE  EventsDistinct'
<1> DEFINE Same == UNCHANGED <<history.returned, history.before>>
<1>1. ASSUME log' = log, stamps' = stamps, history' = history PROVE EventsDistinct'
  BY <1>1 DEF EventsDistinct, Busy, Entries
<1>2. ASSUME NEW w \in Writers, Begin(w) PROVE EventsDistinct'
  <2> DEFINE n == Len(stamps')
  <2>1. stamps' = Append(stamps, day)
    BY <1>2 DEF Begin
  <2>2. n \notin Entries /\ Entries' = Entries \cup {n}
    BY <2>1, Stamped
  <2>3. /\ log'[w].pc = "insert" /\ log'[w].entry = n
        /\ \A v \in Writers : v # w => log'[v] = log[v]
        /\ history'.returned = history.returned
        /\ history'.written = history.written
        /\ history'.before = history.before \cup (history.returned \X {n})
    BY <1>2, BeginTyped DEF Typed, Histories
  <2>4. \A p \in history'.before : p[1] \in history'.returned /\ p[2] \in Entries'
    BY <2>2, <2>3 DEF EventsDistinct
  <2> QED
    BY <2>2, <2>3, <2>4 DEF EventsDistinct, Busy
<1>3. ASSUME NEW w \in Writers, InsertRow(w) \/ InsertFails(w) \/ Enter(w) \/ Rotate(w)
      PROVE  EventsDistinct'
  <2>1. /\ log[w].pc # "idle" /\ \E pc \in Stages : Goes(w, pc)
        /\ stamps' = stamps
        /\ history' = history \/ Notes("rowFailed", log[w].entry)
    BY <1>3 DEF InsertRow, InsertFails, Enter, Rotate, Stages
  <2>2. /\ history'.returned = history.returned
        /\ history'.written = history.written /\ history'.before = history.before
    BY <2>1, BusyEntry, NotesShape
  <2>3. /\ log'[w].entry = log[w].entry
        /\ \A v \in Writers : v # w => log'[v] = log[v]
    BY <2>1, GoesShape
  <2> QED
    BY <2>1, <2>2, <2>3 DEF EventsDistinct, Busy, Entries
<1>4. ASSUME NEW w \in Writers, Write(w) PROVE EventsDistinct'
  <2>1. /\ log[w].pc = "write" /\ Goes(w, "ring") /\ stamps' = stamps
        /\ \/ history' = history \/ Notes("written", log[w].entry)
           \/ Notes("fileFailed", log[w].entry)
    BY <1>4, WriteShape
  <2>2. log[w].entry \in Nat /\ log[w].entry \in Entries
    BY <2>1, BusyEntry
  <2>3. /\ history'.returned = history.returned /\ history'.before = history.before
        /\ history'.written \subseteq history.written \cup {log[w].entry}
    BY <2>1, <2>2, NotesShape
  <2>4. /\ log'[w].entry = log[w].entry
        /\ \A v \in Writers : v # w => log'[v] = log[v]
    BY <2>1, GoesShape DEF Stages
  <2> QED
    BY <2>1, <2>2, <2>3, <2>4 DEF EventsDistinct, Busy, Entries
<1>5. ASSUME NEW w \in Writers, RotateFails(w) \/ Remember(w) PROVE EventsDistinct'
  <2>1. /\ log[w].pc # "idle" /\ log' = [log EXCEPT ![w] = Idle] /\ stamps' = stamps
        /\ history'.returned = history.returned \cup {log[w].entry}
        /\ history'.written = history.written /\ history'.before = history.before
    <3>1. CASE RotateFails(w)
      BY <3>1, RotateFailsShape
    <3>2. CASE Remember(w)
      BY <3>2, RememberShape, NotesShape DEF Remember
    <3> QED
      BY <1>5, <3>1, <3>2
  <2>2. /\ log'[w].pc = "idle"
        /\ \A v \in Writers : v # w => log'[v] = log[v]
    BY <2>1, IdleShape
  <2>3. log[w].entry \in Entries
    BY <2>1, BusyEntry
  <2> QED
    BY <2>1, <2>2, <2>3 DEF EventsDistinct, Busy, Entries
<1>6. CASE Restart
  BY <1>6 DEF Restart, EventsDistinct, Busy, Idle, Entries
<1>7. ASSUME NEW g \in 1 .. MaxGzips, GzipStep(g) PROVE EventsDistinct'
  BY <1>1, <1>7, GzipShape
<1>8. ASSUME NEW k \in 1 .. MaxEntries + 1, Prune(k) PROVE EventsDistinct'
  BY <1>1, <1>8 DEF Prune
<1>9. CASE Midnight
  BY <1>1, <1>9 DEF Midnight
<1>10. CASE UNCHANGED auditVars
  BY <1>1, <1>10 DEF auditVars
<1> QED
  BY <1>2, <1>3, <1>4, <1>5, <1>6, <1>7, <1>8, <1>9, <1>10 DEF Next, LogStep

-----------------------------------------------------------------------------
(* The open file.                                                           *)

LEMMA HandleStep ==
    ASSUME Typed, Typed', EventsDistinct, MutexHeld, CompressorsAgree,
           HandleIsCurrent, [Next]_auditVars
    PROVE  HandleIsCurrent'
<1> USE DEF Stages
<1>0. handle.day \in Days /\ day \in Days /\ Days \subseteq Nat
  BY Constants DEF Typed
<1>1. ASSUME NEW w \in Writers, Begin(w) PROVE HandleIsCurrent'
  <2>1. /\ log'[w].pc = "insert"
        /\ \A v \in Writers : v # w => log'[v] = log[v]
        /\ history'.again = history.again
        /\ UNCHANGED <<day, handle, file>>
    BY <1>1, BeginTyped DEF Begin
  <2>2. \A v \in Writers : log[v].pc = "write" =>
           stamps'[log[v].entry] = stamps[log[v].entry]
    BY <1>1, BusyEntry, Stamped DEF Begin
  <2>3. \A e \in Entries' : stamps'[e] <= day
    <3>1. \A e \in Entries : stamps[e] <= day
      BY DEF HandleIsCurrent
    <3>2. day <= day
      BY <1>0
    <3>3. stamps' = Append(stamps, day)
      BY <1>1 DEF Begin
    <3>4. /\ Entries' = Entries \cup {Len(stamps')}
          /\ \A e \in Entries : stamps'[e] = stamps[e]
          /\ stamps'[Len(stamps')] = day
      BY <3>3, Stamped
    <3> QED
      BY <3>1, <3>2, <3>4
  <2> QED
    BY <2>1, <2>2, <2>3 DEF HandleIsCurrent
<1>2. ASSUME NEW w \in Writers, InsertRow(w) \/ InsertFails(w)
      PROVE  HandleIsCurrent'
  <2>1. /\ log[w].pc # "idle" /\ Goes(w, "lock")
        /\ UNCHANGED <<day, handle, file, stamps>>
        /\ history' = history \/ Notes("rowFailed", log[w].entry)
    BY <1>2 DEF InsertRow, InsertFails
  <2>2. history'.again = history.again
    BY <2>1, BusyEntry, NotesShape
  <2> QED
    BY <2>1, <2>2, GoesShape DEF HandleIsCurrent, Entries
<1>3. ASSUME NEW w \in Writers, Enter(w) PROVE HandleIsCurrent'
  <2>1. /\ log[w].pc = "lock"
        /\ Goes(w, IF day # handle.day THEN "rotate" ELSE "write")
        /\ UNCHANGED <<day, handle, file, stamps, history>>
    BY <1>3 DEF Enter
  <2>2. stamps[log[w].entry] <= day
    BY <2>1, BusyEntry DEF HandleIsCurrent
  <2>3. /\ log'[w].pc = IF day # handle.day THEN "rotate" ELSE "write"
        /\ log'[w].entry = log[w].entry
        /\ \A v \in Writers : v # w => log'[v] = log[v]
    BY <2>1, GoesShape
  <2>4. log'[w].pc = "rotate" => handle.day < day
    BY <1>0, <2>3 DEF HandleIsCurrent
  <2>5. log'[w].pc = "write" => handle.open /\ stamps[log[w].entry] <= handle.day
    BY <1>0, <2>2, <2>3 DEF HandleIsCurrent
  <2> QED
    BY <2>1, <2>3, <2>4, <2>5 DEF HandleIsCurrent, Entries
<1>4. ASSUME NEW w \in Writers, Rotate(w) PROVE HandleIsCurrent'
  <2>1. /\ log[w].pc = "rotate" /\ Goes(w, "write") /\ OpenFile(day)
        /\ handle' = [day |-> day, open |-> TRUE]
        /\ UNCHANGED <<day, stamps, history>>
    BY <1>4 DEF Rotate
  <2>2. file'[day] # Absent
    BY <2>1, <1>0, OpenFileShape
  <2>3. stamps[log[w].entry] <= day
    BY <2>1, BusyEntry DEF HandleIsCurrent
  <2>4. \A v \in Writers : v # w => log'[v] = log[v] /\ ~Inside(v)
    BY <2>1, GoesShape DEF MutexHeld, Inside
  <2>5. log'[w].pc = "write" /\ log'[w].entry = log[w].entry
    BY <2>1, GoesShape
  <2> QED
    BY <2>1, <2>2, <2>3, <2>4, <2>5, <1>0 DEF HandleIsCurrent, Entries, Inside
<1>5. ASSUME NEW w \in Writers, RotateFails(w) PROVE HandleIsCurrent'
  <2>1. /\ log[w].pc = "rotate" /\ log' = [log EXCEPT ![w] = Idle]
        /\ handle'.day = handle.day /\ handle'.open = FALSE
        /\ history'.again = history.again \cup {handle.day}
        /\ UNCHANGED <<day, stamps, file>>
    BY <1>5, RotateFailsShape
  <2>2. /\ log'[w].pc = "idle"
        /\ \A v \in Writers : v # w => log'[v] = log[v] /\ ~Inside(v)
    BY <2>1, IdleShape DEF MutexHeld, Inside
  <2>3. handle.day < day
    BY <2>1 DEF HandleIsCurrent
  <2> QED
    BY <2>1, <2>2, <2>3 DEF HandleIsCurrent, Entries, Inside
<1>6. ASSUME NEW w \in Writers, Write(w) PROVE HandleIsCurrent'
  <2>1. /\ log[w].pc = "write" /\ Goes(w, "ring") /\ log[w].entry \in Nat
        /\ UNCHANGED <<day, handle, stamps>>
        /\ \/ history' = history \/ Notes("written", log[w].entry)
           \/ Notes("fileFailed", log[w].entry)
    BY <1>6, WriteShape
  <2>2. history'.again = history.again
    BY <2>1, NotesShape
  <2>3. file[handle.day] # Absent => file'[handle.day] # Absent
    <3>1. file[handle.day] # Absent => Append(file[handle.day], log[w].entry) # Absent
      <4>1. file[handle.day] # Absent => Append(file[handle.day], log[w].entry) \in Seq(Nat)
        <5>1. file[handle.day] # Absent => file[handle.day] \in Seq(Nat)
          BY <1>0 DEF Typed
        <5>2. log[w].entry \in Nat
          BY <2>1
        <5> QED
          BY <5>1, <5>2, Longer
      <4> QED
        BY <4>1, AuditAssumption
    <3>2. \/ file' = file
          \/ file' = [file EXCEPT ![handle.day] = Append(@, log[w].entry)]
      BY <1>6, WriteShape
    <3> QED
      BY <3>1, <3>2, <1>0 DEF Typed
  <2> QED
    BY <2>1, <2>2, <2>3, GoesShape DEF HandleIsCurrent, Entries
<1>7. ASSUME NEW w \in Writers, Remember(w) PROVE HandleIsCurrent'
  <2>1. /\ log[w].pc = "ring" /\ log' = [log EXCEPT ![w] = Idle]
        /\ log[w].entry \in Nat /\ Notes("returned", log[w].entry)
        /\ UNCHANGED <<day, handle, file, stamps>>
    BY <1>7, RememberShape DEF Remember
  <2>2. history'.again = history.again
    BY <2>1, NotesShape
  <2> QED
    BY <2>1, <2>2, IdleShape DEF HandleIsCurrent, Entries
<1>8. ASSUME NEW g \in 1 .. MaxGzips, GzipStep(g) PROVE HandleIsCurrent'
  <2>1. /\ g \in DOMAIN gzips /\ gzips[g].day \in Days
        /\ UNCHANGED <<day, handle, log, stamps, history>>
    BY <1>8, GzipShape
  <2>2. \A d \in Days : d # gzips[g].day => file'[d] = file[d]
    BY <1>8 DEF GzipStep, OpenSource, CreateArchive, WriteArchive, RemoveSource,
                GzipFails, Typed
  <2>3. handle.open => gzips[g].day < handle.day
    BY <2>1 DEF CompressorsAgree
  <2>4. handle.open => file'[handle.day] = file[handle.day]
    <3>1. gzips[g].day < handle.day => handle.day # gzips[g].day
      <4>1. \A a, b \in Nat : a < b => b # a
        OBVIOUS
      <4>2. gzips[g].day \in Nat /\ handle.day \in Nat
        BY <2>1, <1>0
      <4> QED
        BY <4>1, <4>2, Zenon
    <3> QED
      BY <2>2, <2>3, <3>1, <1>0
  <2> QED
    BY <2>1, <2>4 DEF HandleIsCurrent, Entries
<1>9. CASE Midnight
  <2>1. day' = day + 1 /\ UNCHANGED <<handle, log, stamps, file, history>>
    BY <1>9 DEF Midnight
  <2>2. \A d \in Days : d <= day => d < day + 1 /\ d <= day + 1
    BY <1>0
  <2>3. \A e \in Entries : stamps[e] \in Days
    BY DEF Typed, Entries
  <2>4. history.again \subseteq Days
    BY DEF Typed, Histories
  <2>5. \A d \in Days : d < day => d < day + 1 /\ d <= day
    BY <1>0
  <2> QED
    BY <1>0, <2>1, <2>2, <2>3, <2>4, <2>5 DEF HandleIsCurrent, Entries
<1>10. CASE Restart
  <2>1. /\ OpenFile(day) /\ handle' = [day |-> day, open |-> TRUE]
        /\ \A w \in Writers : log'[w].pc = "idle"
        /\ UNCHANGED <<day, stamps, history>>
    BY <1>10 DEF Restart, Idle
  <2>2. file'[day] # Absent
    BY <2>1, <1>0, OpenFileShape
  <2> QED
    BY <2>1, <2>2, <1>0 DEF HandleIsCurrent, Entries
<1>11. ASSUME NEW k \in 1 .. MaxEntries + 1, Prune(k) PROVE HandleIsCurrent'
  BY <1>11 DEF Prune, HandleIsCurrent, Entries
<1>12. CASE UNCHANGED auditVars
  BY <1>12 DEF auditVars, HandleIsCurrent, Entries
<1> QED
  BY <1>1, <1>2, <1>3, <1>4, <1>5, <1>6, <1>7, <1>8, <1>9, <1>10, <1>11, <1>12
     DEF Next, LogStep

-----------------------------------------------------------------------------
(* The compressors.                                                         *)

\* What a compressor changes is its own day's file and archive.
LEMMA GzipFiles ==
    ASSUME Typed, NEW g \in 1 .. MaxGzips, GzipStep(g)
    PROVE  /\ \A d \in Days : d # gzips[g].day => file'[d] = file[d] /\ gz'[d] = gz[d]
           /\ LET d == gzips[g].day
                  old == gzips[g]
                  new == gzips'[g]
              IN  \/ /\ old.pc = "open" /\ file' = file /\ gz' = gz
                     /\ \/ new.pc = "done" /\ new.seen = old.seen
                        \/ new.pc = "create" /\ new.seen = file[d] /\ file[d] # Absent
                  \/ /\ old.pc = "create" /\ new.pc = "copy" /\ new.seen = old.seen
                     /\ file' = file /\ gz'[d] = Broken
                  \/ /\ old.pc = "copy" /\ new.pc = "remove" /\ new.seen = << >>
                     /\ file' = file /\ gz'[d] = old.seen
                  \/ /\ old.pc = "remove" /\ new.pc = "done" /\ new.seen = old.seen
                     /\ file'[d] = Absent /\ gz' = gz
                  \/ /\ new.pc = "done" /\ new.seen = << >>
                     /\ file' = file /\ gz' = gz
<1>1. g \in DOMAIN gzips /\ gzips[g] \in Gzips /\ gzips[g].day \in Days
  BY GzipShape
<1>2. CASE OpenSource(g)
  BY <1>1, <1>2 DEF OpenSource, At, Typed, Gzips
<1>3. CASE CreateArchive(g)
  BY <1>1, <1>3 DEF CreateArchive, At, Typed, Gzips
<1>4. CASE WriteArchive(g)
  BY <1>1, <1>4 DEF WriteArchive, At, Typed, Gzips
<1>5. CASE RemoveSource(g)
  BY <1>1, <1>5 DEF RemoveSource, At, Typed, Gzips
<1>6. CASE GzipFails(g)
  BY <1>1, <1>6 DEF GzipFails, At, Typed, Gzips
<1> QED
  BY <1>2, <1>3, <1>4, <1>5, <1>6 DEF GzipStep

LEMMA DaysAreNumbers ==
    ASSUME Typed
    PROVE  /\ handle.day \in Days /\ handle.day \in Nat
           /\ day \in Days /\ day \in Nat /\ Days \subseteq Nat
           /\ \A g \in DOMAIN gzips : gzips[g].day \in Days /\ gzips[g].day \in Nat
           /\ history.again \subseteq Days
<1>1. \A g \in DOMAIN gzips : gzips[g] \in Gzips
  BY DEF Typed
<1>2. \A g \in DOMAIN gzips : gzips[g].day \in Days
  BY <1>1 DEF Gzips
<1>3. handle.day \in Days /\ day \in Days /\ history.again \subseteq Days
  BY DEF Typed, Histories
<1> QED
  BY <1>2, <1>3, Constants

LEMMA CompressorsRotate ==
    ASSUME Typed, HandleIsCurrent, CompressorsAgree, NEW w \in Writers, Rotate(w)
    PROVE  CompressorsAgree'
<1> DEFINE n == Len(gzips) + 1
<1>0. /\ handle.day \in Nat /\ handle.day \in Days /\ day \in Days /\ day \in Nat
      /\ Days \subseteq Nat
      /\ \A g \in DOMAIN gzips : gzips[g].day \in Days /\ gzips[g].day \in Nat
  BY DaysAreNumbers
<1>1. /\ log[w].pc = "rotate" /\ Compress /\ OpenFile(day)
      /\ handle'.day = day /\ handle'.open = TRUE
      /\ gz' = gz /\ history' = history
  BY DEF Rotate
<1>2. handle.day < day
  BY <1>1 DEF HandleIsCurrent
<1>3. /\ n \notin DOMAIN gzips /\ DOMAIN gzips' = DOMAIN gzips \cup {n}
      /\ gzips'[n].day = handle.day /\ gzips'[n].pc = "open"
      /\ \A g \in DOMAIN gzips : gzips'[g] = gzips[g]
  BY <1>1, CompressShape
<1> HIDE DEF n
<1>4. \A d \in Days : d >= day /\ d \notin history.again => gz[d] = Absent
  <2>1. \A d \in Days : d >= day => d >= handle.day
    BY <1>0, <1>2
  <2> QED
    BY <2>1 DEF CompressorsAgree
<1>5. \A g \in DOMAIN gzips' : gzips'[g].day <= day /\ gzips'[g].day < day
  <2>1. \A g \in DOMAIN gzips : gzips[g].day <= handle.day
    BY DEF CompressorsAgree
  <2>2. \A g \in DOMAIN gzips : gzips[g].day <= day /\ gzips[g].day < day
    BY <2>1, <1>0, <1>2
  <2>3. handle.day <= day
    BY <1>0, <1>2
  <2> QED
    BY <2>2, <2>3, <1>2, <1>3
<1>6. \A g \in DOMAIN gzips : Once(g) => gzips[g].day # handle.day
  <2>1. CASE handle.open
    BY <2>1, <1>0 DEF CompressorsAgree
  <2>2. CASE ~handle.open
    BY <2>2 DEF HandleIsCurrent, Once
  <2> QED
    BY <2>1, <2>2
<1>7. \A g, h \in DOMAIN gzips' :
         gzips'[g].day = gzips'[h].day /\ gzips'[g].day \notin history.again => g = h
  BY <1>3, <1>6 DEF CompressorsAgree, Once
<1>8. \A g \in DOMAIN gzips' : gzips'[g].day \notin history.again => Copying(g)'
  <2>1. ASSUME NEW g \in DOMAIN gzips, Once(g) PROVE Copying(g)'
    <3>1. gzips[g].day # day
      BY <1>0, <1>3, <1>5
    <3>2. file[gzips[g].day] = file'[gzips[g].day]
      BY <1>0, <1>1, <3>1, OpenFileShape
    <3>3. Copying(g)
      BY <2>1 DEF CompressorsAgree
    <3> QED
      BY <1>1, <1>3, <3>2, <3>3 DEF Copying
  <2>2. ASSUME NEW g \in DOMAIN gzips', g = n, handle.day \notin history.again
        PROVE  Copying(g)'
    <3>1. handle.day >= handle.day
      BY <1>0
    <3>2. gz[handle.day] = Absent
      BY <1>0, <2>2, <3>1 DEF CompressorsAgree
    <3> QED
      BY <1>1, <1>3, <2>2, <3>2 DEF Copying
  <2> QED
    BY <1>3, <2>1, <2>2 DEF Once
<1> QED
  BY <1>1, <1>4, <1>5, <1>7, <1>8 DEF CompressorsAgree, Once

LEMMA CompressorsRotateFails ==
    ASSUME Typed, EventsDistinct, CompressorsAgree, NEW w \in Writers, RotateFails(w)
    PROVE  CompressorsAgree'
<1> DEFINE n == Len(gzips) + 1
<1>0. handle.day \in Nat
  BY Constants DEF Typed
<1>1. /\ Compress /\ handle'.day = handle.day /\ handle'.open = FALSE
      /\ file' = file /\ gz' = gz
      /\ history'.again = history.again \cup {handle.day}
  BY RotateFailsShape
<1>2. /\ n \notin DOMAIN gzips /\ DOMAIN gzips' = DOMAIN gzips \cup {n}
      /\ gzips'[n].day = handle.day
      /\ \A g \in DOMAIN gzips : gzips'[g] = gzips[g]
  BY <1>1, CompressShape
<1> HIDE DEF n
<1>3. handle.day <= handle.day
  BY <1>0
<1>4. \A g \in DOMAIN gzips' : gzips'[g].day \notin history'.again =>
         g \in DOMAIN gzips /\ Once(g) /\ gzips'[g] = gzips[g]
  BY <1>1, <1>2 DEF Once
<1>5. \A g \in DOMAIN gzips' : gzips'[g].day \notin history'.again => Copying(g)'
  BY <1>1, <1>4 DEF CompressorsAgree, Copying
<1>6. \A g, h \in DOMAIN gzips' :
         gzips'[g].day = gzips'[h].day /\ gzips'[g].day \notin history'.again => g = h
  BY <1>4 DEF CompressorsAgree
<1>7. \A g \in DOMAIN gzips' : gzips'[g].day <= handle.day
  BY <1>2, <1>3 DEF CompressorsAgree
<1> QED
  BY <1>1, <1>5, <1>6, <1>7 DEF CompressorsAgree, Once

LEMMA CompressorsGzip ==
    ASSUME Typed, HandleIsCurrent, CompressorsAgree,
           NEW g \in 1 .. MaxGzips, GzipStep(g)
    PROVE  CompressorsAgree'
<1>0. /\ handle.day \in Nat /\ Days \subseteq Nat
      /\ \A h \in DOMAIN gzips : gzips[h].day \in Days /\ gzips[h].day \in Nat
  BY DaysAreNumbers
<1>1. /\ g \in DOMAIN gzips /\ gzips[g].day \in Days
      /\ DOMAIN gzips' = DOMAIN gzips
      /\ gzips'[g].day = gzips[g].day
      /\ \A h \in DOMAIN gzips : h # g => gzips'[h] = gzips[h]
      /\ UNCHANGED <<handle, history>>
  BY GzipShape
<1>2. \A d \in Days : d # gzips[g].day => file'[d] = file[d] /\ gz'[d] = gz[d]
  BY GzipFiles
<1>3. \A d \in Days : d >= handle.day /\ d \notin history.again => d # gzips[g].day
  <2>1. CASE handle.open
    <3>1. gzips[g].day < handle.day
      BY <1>1, <2>1 DEF CompressorsAgree
    <3> QED
      BY <1>0, <1>1, <3>1
  <2>2. CASE ~handle.open
    <3>1. gzips[g].day <= handle.day /\ handle.day \in history.again
      BY <1>1, <2>2 DEF CompressorsAgree, HandleIsCurrent
    <3> QED
      BY <1>0, <1>1, <3>1
  <2> QED
    BY <2>1, <2>2
<1>4. \A d \in Days : d >= handle.day /\ d \notin history.again => gz'[d] = Absent
  BY <1>2, <1>3 DEF CompressorsAgree
<1>5. ASSUME NEW h \in DOMAIN gzips, Once(h) PROVE Copying(h)'
  <2>1. Copying(h)
    BY <1>5 DEF CompressorsAgree
  <2>2. CASE h # g
    <3>1. gzips[h].day # gzips[g].day
      BY <1>1, <1>5, <2>2 DEF CompressorsAgree
    <3> QED
      BY <1>0, <1>1, <1>2, <2>1, <2>2, <3>1 DEF Copying
  <2>3. CASE h = g
    BY <1>1, <2>1, <2>3, GzipFiles DEF Copying
  <2> QED
    BY <2>2, <2>3
<1>6. \A h \in DOMAIN gzips : gzips'[h].day = gzips[h].day
  BY <1>1
<1> QED
  BY <1>1, <1>4, <1>5, <1>6 DEF CompressorsAgree, Once

LEMMA CompressorsStep ==
    ASSUME Typed, EventsDistinct, HandleIsCurrent, CompressorsAgree, [Next]_auditVars
    PROVE  CompressorsAgree'
<1>0. /\ handle.day \in Nat /\ day \in Nat /\ handle.day \in Days
      /\ \A g \in DOMAIN gzips : gzips[g].day \in Days
      /\ Days \subseteq Nat
  BY DaysAreNumbers
<1>1. ASSUME UNCHANGED <<handle, gzips, file, gz>>, history'.again = history.again
      PROVE  CompressorsAgree'
  BY <1>1 DEF CompressorsAgree, Once, Copying
<1>2. ASSUME NEW w \in Writers, Begin(w) PROVE CompressorsAgree'
  <2>1. history'.again = history.again
    BY <1>2, BeginTyped
  <2> QED
    BY <1>1, <1>2, <2>1 DEF Begin
<1>3. ASSUME NEW w \in Writers, InsertRow(w) \/ InsertFails(w) \/ Enter(w)
      PROVE  CompressorsAgree'
  <2>1. /\ log[w].pc # "idle" /\ UNCHANGED <<handle, gzips, file, gz>>
        /\ history' = history \/ Notes("rowFailed", log[w].entry)
    BY <1>3 DEF InsertRow, InsertFails, Enter
  <2>2. history'.again = history.again
    BY <2>1, BusyEntry, NotesShape
  <2> QED
    BY <1>1, <2>1, <2>2
<1>4. ASSUME NEW w \in Writers, Remember(w) PROVE CompressorsAgree'
  <2>1. history'.again = history.again
    BY <1>4, RememberShape, NotesShape DEF Remember
  <2> QED
    BY <1>1, <1>4, <2>1 DEF Remember
<1>5. ASSUME NEW w \in Writers, Write(w) PROVE CompressorsAgree'
  <2>1. /\ log[w].entry \in Nat /\ UNCHANGED <<handle, gzips, gz>>
        /\ \/ history' = history \/ Notes("written", log[w].entry)
           \/ Notes("fileFailed", log[w].entry)
    BY <1>5, WriteShape
  <2>2. history'.again = history.again
    BY <2>1, NotesShape
  <2>3. ASSUME NEW g \in DOMAIN gzips PROVE file'[gzips[g].day] = file[gzips[g].day]
    <3>1. handle.open => gzips[g].day < handle.day
      BY DEF CompressorsAgree
    <3>2. handle.open => gzips[g].day # handle.day
      BY <1>0, <3>1
    <3>3. \/ file' = file
          \/ handle.open /\ file' = [file EXCEPT ![handle.day] = Append(@, log[w].entry)]
      BY <1>5, WriteShape
    <3> QED
      BY <1>0, <3>2, <3>3 DEF Typed
  <2> QED
    BY <2>1, <2>2, <2>3 DEF CompressorsAgree, Once, Copying
<1>6. CASE Restart
  <2>1. /\ handle'.day = day /\ gzips' = << >> /\ UNCHANGED <<gz, history>>
    BY <1>6 DEF Restart
  <2>2. \A d \in Days : d >= day => d >= handle.day
    <3>1. handle.day <= day
      BY DEF HandleIsCurrent
    <3> QED
      BY <1>0, <3>1
  <2>3. DOMAIN gzips' = {}
    BY <2>1
  <2> QED
    BY <2>1, <2>2, <2>3 DEF CompressorsAgree
<1>7. ASSUME NEW k \in 1 .. MaxEntries + 1, Prune(k) PROVE CompressorsAgree'
  BY <1>1, <1>7 DEF Prune
<1>8. CASE Midnight
  BY <1>1, <1>8 DEF Midnight
<1>9. CASE UNCHANGED auditVars
  BY <1>1, <1>9 DEF auditVars
<1> QED
  BY <1>2, <1>3, <1>4, <1>5, <1>6, <1>7, <1>8, <1>9, CompressorsRotate,
     CompressorsRotateFails, CompressorsGzip DEF Next, LogStep

-----------------------------------------------------------------------------
(* Events are filed under their day or a later one.                         *)

LEMMA EmptyTimely == \A d \in Days : Timely(<< >>, d)
  BY DEF Timely, Elements

LEMMA TimelyStep ==
    ASSUME Typed, EventsDistinct, HandleIsCurrent, FiledInTime, [Next]_auditVars
    PROVE  FiledInTime'
<1>1. ASSUME UNCHANGED <<stamps, file, gz, gzips>> PROVE FiledInTime'
  BY <1>1 DEF FiledInTime, Timely, Entries
<1>2. ASSUME NEW w \in Writers, Begin(w) PROVE FiledInTime'
  <2>1. UNCHANGED <<file, gz, gzips>> /\ stamps' = Append(stamps, day)
    BY <1>2 DEF Begin
  <2>2. /\ Entries \subseteq Entries'
        /\ \A e \in Entries : stamps'[e] = stamps[e]
    BY <2>1, Stamped
  <2> QED
    BY <2>1, <2>2 DEF FiledInTime, Timely
<1>3. ASSUME NEW w \in Writers, Rotate(w) PROVE FiledInTime'
  <2>1. Compress /\ OpenFile(day) /\ UNCHANGED <<stamps, gz>> /\ day \in Days
    BY <1>3, DaysAreNumbers DEF Rotate
  <2>2. \A d \in Days : file'[d] = file[d] \/ file'[d] = << >>
    BY <2>1, OpenFileShape
  <2>3. \A g \in DOMAIN gzips' :
           \/ g \in DOMAIN gzips /\ gzips'[g] = gzips[g]
           \/ gzips'[g].day \in Days /\ gzips'[g].seen = << >>
    BY <2>1, CompressShape, DaysAreNumbers
  <2> QED
    BY <2>1, <2>2, <2>3, EmptyTimely DEF FiledInTime, Timely, Entries
<1>4. ASSUME NEW w \in Writers, RotateFails(w) PROVE FiledInTime'
  <2>1. Compress /\ UNCHANGED <<stamps, file, gz>>
    BY <1>4, RotateFailsShape
  <2>2. \A g \in DOMAIN gzips' :
           \/ g \in DOMAIN gzips /\ gzips'[g] = gzips[g]
           \/ gzips'[g].day \in Days /\ gzips'[g].seen = << >>
    BY <2>1, CompressShape, DaysAreNumbers
  <2> QED
    BY <2>1, <2>2, EmptyTimely DEF FiledInTime, Timely, Entries
<1>5. ASSUME NEW w \in Writers, Write(w) PROVE FiledInTime'
  <2> DEFINE e == log[w].entry
  <2>1. /\ log[w].pc = "write" /\ UNCHANGED <<stamps, gz, gzips>>
        /\ \/ file' = file
           \/ /\ file[handle.day] # Absent
              /\ file' = [file EXCEPT ![handle.day] = Append(@, e)]
    BY <1>5, WriteShape
  <2>2. e \in Entries /\ e \in Nat /\ stamps[e] <= handle.day /\ handle.day \in Days
    BY <2>1, BusyEntry, DaysAreNumbers DEF HandleIsCurrent
  <2>3. ASSUME NEW d \in Days, file'[d] # Absent PROVE Timely(file'[d], d)
    <3>1. CASE file'[d] = file[d]
      BY <2>3, <3>1 DEF FiledInTime
    <3>2. CASE /\ d = handle.day /\ file[d] # Absent
               /\ file'[d] = Append(file[d], e)
      <4>1. file[d] \in Seq(Nat)
        BY <3>2 DEF Typed
      <4>2. Elements(file'[d]) = Elements(file[d]) \cup {e}
        BY <2>2, <3>2, <4>1, Longer
      <4> QED
        BY <2>2, <3>2, <4>2 DEF FiledInTime, Timely
    <3> QED
      BY <2>1, <2>2, <3>1, <3>2 DEF Typed
  <2> QED
    BY <2>1, <2>3 DEF FiledInTime, Timely, Entries
<1>6. ASSUME NEW g \in 1 .. MaxGzips, GzipStep(g) PROVE FiledInTime'
  <2>1. /\ g \in DOMAIN gzips /\ gzips[g].day \in Days
        /\ DOMAIN gzips' = DOMAIN gzips /\ gzips'[g].day = gzips[g].day
        /\ \A h \in DOMAIN gzips : h # g => gzips'[h] = gzips[h]
        /\ stamps' = stamps
    BY <1>6, GzipShape
  <2> DEFINE d == gzips[g].day
  <2>2. /\ \A c \in Days : c # d => file'[c] = file[c] /\ gz'[c] = gz[c]
        /\ file'[d] = file[d] \/ file'[d] = Absent
        /\ gz'[d] = gz[d] \/ gz'[d] = Broken \/ gz'[d] = gzips[g].seen
        /\ \/ gzips'[g].seen = gzips[g].seen \/ gzips'[g].seen = << >>
           \/ gzips'[g].seen = file[d] /\ file[d] # Absent
    BY <1>6, GzipFiles
  <2>3. Timely(gzips'[g].seen, d)
    BY <2>1, <2>2, EmptyTimely DEF FiledInTime
  <2>4. \A c \in Days : file'[c] # Absent => Timely(file'[c], c)
    BY <2>2 DEF FiledInTime
  <2>5. \A c \in Days : gz'[c] \notin {Absent, Broken} => Timely(gz'[c], c)
    BY <2>1, <2>2 DEF FiledInTime
  <2>6. \A h \in DOMAIN gzips' : Timely(gzips'[h].seen, gzips'[h].day)
    BY <2>1, <2>3 DEF FiledInTime
  <2> QED
    BY <2>1, <2>4, <2>5, <2>6 DEF FiledInTime, Timely, Entries
<1>7. CASE Restart
  <2>1. OpenFile(day) /\ gzips' = << >> /\ UNCHANGED <<stamps, gz>>
    BY <1>7 DEF Restart
  <2>2. \A d \in Days : file'[d] = file[d] \/ file'[d] = << >>
    BY <2>1, OpenFileShape, DaysAreNumbers
  <2>3. DOMAIN gzips' = {}
    BY <2>1
  <2> QED
    BY <2>1, <2>2, <2>3, EmptyTimely DEF FiledInTime, Timely, Entries
<1>8. ASSUME NEW w \in Writers,
             InsertRow(w) \/ InsertFails(w) \/ Enter(w) \/ Remember(w)
      PROVE  FiledInTime'
  BY <1>1, <1>8 DEF InsertRow, InsertFails, Enter, Remember
<1>9. ASSUME NEW k \in 1 .. MaxEntries + 1, Prune(k) PROVE FiledInTime'
  BY <1>1, <1>9 DEF Prune
<1>10. CASE Midnight
  BY <1>1, <1>10 DEF Midnight
<1>11. CASE UNCHANGED auditVars
  BY <1>1, <1>11 DEF auditVars
<1> QED
  BY <1>2, <1>3, <1>4, <1>5, <1>6, <1>7, <1>8, <1>9, <1>10, <1>11
     DEF Next, LogStep

-----------------------------------------------------------------------------
(* What was written can be read.                                            *)

Kept(e) ==
    \E d \in Days :
      \/ OnFile(e, d) \/ InArchive(e, d)
      \/ d \in history.again /\ stamps[e] <= d

\* An event that can be read in one place can be read after a compressor's
\* step: of a day with one compressor the archive has, before the file is
\* removed, what the file has; in another day's it was filed in time.
LEMMA KeptByGzip ==
    ASSUME Typed, FiledInTime, CompressorsAgree,
           NEW g \in 1 .. MaxGzips, GzipStep(g), NEW e, Kept(e)
    PROVE  Kept(e)'
<1> DEFINE c == gzips[g].day
<1>1. /\ g \in DOMAIN gzips /\ c \in Days
      /\ UNCHANGED <<history, stamps>>
  BY GzipShape
<1>2. /\ \A d \in Days : d # c => file'[d] = file[d] /\ gz'[d] = gz[d]
      /\ \/ file' = file /\ gz' = gz
         \/ gzips[g].pc = "create" /\ file' = file /\ gz'[c] = Broken
         \/ gzips[g].pc = "copy" /\ file' = file /\ gz'[c] = gzips[g].seen
         \/ gzips[g].pc = "remove" /\ file'[c] = Absent /\ gz' = gz
  BY GzipFiles
<1>3. PICK d \in Days : \/ OnFile(e, d) \/ InArchive(e, d)
                        \/ d \in history.again /\ stamps[e] <= d
  BY DEF Kept
<1>4. CASE d \in history.again /\ stamps[e] <= d
  BY <1>1, <1>4 DEF Kept
<1>5. CASE d # c /\ (OnFile(e, d) \/ InArchive(e, d))
  BY <1>1, <1>2, <1>5 DEF Kept, OnFile, InArchive
<1>6. CASE d = c /\ c \in history.again /\ (OnFile(e, d) \/ InArchive(e, d))
  <2>1. stamps[e] <= d
    BY <1>6 DEF FiledInTime, Timely, OnFile, InArchive
  <2> QED
    BY <1>1, <1>6, <2>1 DEF Kept
<1>7. CASE d = c /\ c \notin history.again /\ (OnFile(e, d) \/ InArchive(e, d))
  <2>1. Copying(g)
    BY <1>1, <1>7 DEF CompressorsAgree, Once
  <2>2. CASE file' = file /\ gz' = gz
    BY <1>7, <2>2 DEF Kept, OnFile, InArchive
  <2>3. CASE gzips[g].pc \in {"create", "copy"} /\ file' = file
    <3>1. gz[c] \in {Absent, Broken}
      BY <2>1, <2>3 DEF Copying
    <3>2. OnFile(e, d)
      BY <1>7, <3>1 DEF InArchive
    <3> QED
      BY <2>3, <3>2 DEF Kept, OnFile
  <2>4. CASE gzips[g].pc = "remove" /\ gz' = gz
    <3>1. file[c] = gz[c]
      BY <2>1, <2>4 DEF Copying
    <3>2. OnFile(e, d) => InArchive(e, d)
      <4>1. file[c] # Absent => file[c] # Broken
        BY AuditAssumption, <1>1 DEF Typed
      <4> QED
        BY <1>7, <3>1, <4>1 DEF OnFile, InArchive
    <3> QED
      BY <1>7, <2>4, <3>2 DEF Kept, InArchive
  <2> QED
    BY <1>2, <2>2, <2>3, <2>4
<1> QED
  BY <1>3, <1>4, <1>5, <1>6, <1>7

LEMMA KeptStep ==
    ASSUME Typed, EventsDistinct, HandleIsCurrent, FiledInTime, CompressorsAgree,
           WrittenIsKept, [Next]_auditVars
    PROVE  WrittenIsKept'
<1>0. \A e \in history.written : Kept(e) /\ e \in Entries
  BY DEF WrittenIsKept, Kept, EventsDistinct
<1>1. SUFFICES \A e \in history'.written : Kept(e)'
  BY DEF WrittenIsKept, Kept, OnFile, InArchive
<1>2. ASSUME UNCHANGED <<stamps, file, gz>>, history'.written = history.written,
             history'.again = history.again \/ history.again \subseteq history'.again
      PROVE  \A e \in history'.written : Kept(e)'
  BY <1>0, <1>2 DEF Kept, OnFile, InArchive
<1>3. ASSUME NEW w \in Writers, Begin(w)
      PROVE  \A e \in history'.written : Kept(e)'
  <2>1. /\ history'.written = history.written /\ history'.again = history.again
        /\ UNCHANGED <<file, gz>>
    BY <1>3, BeginTyped DEF Begin
  <2>2. \A e \in Entries : stamps'[e] = stamps[e]
    BY <1>3, Stamped DEF Begin
  <2> QED
    BY <1>0, <2>1, <2>2 DEF Kept, OnFile, InArchive
<1>4. ASSUME NEW w \in Writers, InsertRow(w) \/ InsertFails(w) \/ Enter(w)
      PROVE  \A e \in history'.written : Kept(e)'
  <2>1. /\ log[w].pc # "idle" /\ UNCHANGED <<stamps, file, gz>>
        /\ history' = history \/ Notes("rowFailed", log[w].entry)
    BY <1>4 DEF InsertRow, InsertFails, Enter
  <2>2. history'.written = history.written /\ history'.again = history.again
    BY <2>1, BusyEntry, NotesShape
  <2> QED
    BY <1>2, <2>1, <2>2
<1>5. ASSUME UNCHANGED <<stamps, gz, history>>, OpenFile(day)
      PROVE  \A e \in history'.written : Kept(e)'
  <2>1. \A d \in Days : file[d] # Absent => file'[d] = file[d]
    BY <1>5, OpenFileShape, DaysAreNumbers
  <2> QED
    BY <1>0, <1>5, <2>1 DEF Kept, OnFile, InArchive
<1>6. ASSUME NEW w \in Writers, Rotate(w)
      PROVE  \A e \in history'.written : Kept(e)'
  BY <1>5, <1>6 DEF Rotate
<1>7. ASSUME NEW w \in Writers, RotateFails(w)
      PROVE  \A e \in history'.written : Kept(e)'
  BY <1>2, <1>7, RotateFailsShape
<1>8. ASSUME NEW w \in Writers, Write(w)
      PROVE  \A e \in history'.written : Kept(e)'
  <2> DEFINE x == log[w].entry
             c == handle.day
  <2>1. /\ log[w].pc = "write" /\ x \in Nat /\ UNCHANGED <<stamps, gz>>
        /\ \/ /\ file[c] # Absent
              /\ file' = [file EXCEPT ![c] = Append(@, x)]
              /\ Notes("written", x)
           \/ /\ ~handle.open \/ file[c] = Absent
           \/ file' = file /\ Notes("fileFailed", x)
    BY <1>8, WriteShape
  <2>2. handle.open /\ file[c] # Absent /\ c \in Days
    BY <2>1, DaysAreNumbers DEF HandleIsCurrent
  <2>3. CASE file' = [file EXCEPT ![c] = Append(@, x)] /\ Notes("written", x)
    <3>1. file[c] \in Seq(Nat)
      BY <2>2 DEF Typed
    <3>2. /\ Append(file[c], x) # Absent
          /\ Elements(Append(file[c], x)) = Elements(file[c]) \cup {x}
      <4>1. /\ Append(file[c], x) \in Seq(Nat)
            /\ Elements(Append(file[c], x)) = Elements(file[c]) \cup {x}
        BY <2>1, <3>1, Longer
      <4> QED
        BY <4>1, AuditAssumption
    <3>3. /\ file'[c] = Append(file[c], x)
          /\ \A d \in Days : d # c => file'[d] = file[d]
      BY <2>2, <2>3 DEF Typed
    <3>4. /\ history'.written = history.written \cup {x}
          /\ history'.again = history.again
      BY <2>1, <2>3, NotesShape
    <3>5. \A e : e = x => Kept(e)'
      BY <2>2, <3>2, <3>3 DEF Kept, OnFile
    <3>6. \A e \in history.written : Kept(e)'
      BY <1>0, <2>1, <3>2, <3>3, <3>4 DEF Kept, OnFile, InArchive
    <3> QED
      BY <3>4, <3>5, <3>6
  <2>4. CASE file' = file /\ Notes("fileFailed", x)
    <3>1. history'.written = history.written /\ history'.again = history.again
      BY <2>1, <2>4, NotesShape
    <3> QED
      BY <1>2, <2>1, <2>4, <3>1
  <2> QED
    BY <2>1, <2>2, <2>3, <2>4
<1>9. ASSUME NEW w \in Writers, Remember(w)
      PROVE  \A e \in history'.written : Kept(e)'
  <2>1. history'.written = history.written /\ history'.again = history.again
    BY <1>9, RememberShape, NotesShape DEF Remember
  <2> QED
    BY <1>2, <1>9, <2>1 DEF Remember
<1>10. ASSUME NEW g \in 1 .. MaxGzips, GzipStep(g)
       PROVE  \A e \in history'.written : Kept(e)'
  <2>1. history' = history
    BY <1>10, GzipShape
  <2> QED
    BY <1>0, <1>10, <2>1, KeptByGzip
<1>11. CASE Restart
  BY <1>5, <1>11 DEF Restart
<1>12. ASSUME NEW k \in 1 .. MaxEntries + 1, Prune(k)
       PROVE  \A e \in history'.written : Kept(e)'
  BY <1>2, <1>12 DEF Prune
<1>13. CASE Midnight
  BY <1>2, <1>13 DEF Midnight
<1>14. CASE UNCHANGED auditVars
  BY <1>2, <1>14 DEF auditVars
<1> QED
  BY <1>3, <1>4, <1>6, <1>7, <1>8, <1>9, <1>10, <1>11, <1>12, <1>13, <1>14
     DEF Next, LogStep

-----------------------------------------------------------------------------
(* Every sink sees every event.                                             *)

LEMMA SinksStep ==
    ASSUME Typed, EventsDistinct, HandleIsCurrent, SinksSeeing, [Next]_auditVars
    PROVE  SinksSeeing'
<1> USE DEF Stages
<1>0. \A e \in Entries : stamps[e] \in Nat /\ stamps[e] + Retention \in Nat
  <2>1. \A e \in Entries : stamps[e] \in Nat
    <3>1. \A e \in Entries : stamps[e] \in Days
      BY DEF Typed, Entries
    <3> QED
      BY <3>1, DaysAreNumbers
  <2>2. \A n \in Nat : n + Retention \in Nat
    BY Constants
  <2> QED
    BY <2>1, <2>2
\* A row stays, and an event of which the file has a record keeps it.
<1>1. ASSUME NEW e \in Entries, InRows(e), stamps'[e] = stamps[e],
             rows \subseteq rows', history.rowFailed \subseteq history'.rowFailed,
             day' = day
      PROVE  InRows(e)'
  BY <1>1 DEF InRows
<1>2. \A w \in Writers : log[w].pc # "idle" => log[w].entry \in Entries
  BY BusyEntry
<1>3. history.returned \subseteq Entries
  BY DEF EventsDistinct
<1>4. ASSUME UNCHANGED <<day, stamps, log, rows, history>> PROVE SinksSeeing'
  BY <1>4 DEF SinksSeeing, InRows, InFile
<1>5. ASSUME NEW w \in Writers, Begin(w) PROVE SinksSeeing'
  <2>1. /\ log'[w].pc = "insert"
        /\ \A v \in Writers : v # w => log'[v] = log[v]
        /\ history'.returned = history.returned /\ history'.dropped = history.dropped
        /\ history'.written = history.written
        /\ history'.rowFailed = history.rowFailed
        /\ history'.fileFailed = history.fileFailed
        /\ UNCHANGED <<day, rows>>
    BY <1>5, BeginTyped DEF Begin
  <2>2. \A e \in Entries : stamps'[e] = stamps[e]
    BY <1>5, Stamped DEF Begin
  <2>3. \A e \in Entries : InRows(e) => InRows(e)'
    BY <2>1, <2>2 DEF InRows
  <2>4. \A e : InFile(e) => InFile(e)'
    BY <2>1 DEF InFile
  <2> QED
    BY <1>2, <1>3, <2>1, <2>3, <2>4 DEF SinksSeeing
<1>6. ASSUME NEW w \in Writers, InsertRow(w) \/ InsertFails(w) PROVE SinksSeeing'
  <2>1. /\ log[w].pc = "insert" /\ Goes(w, "lock") /\ UNCHANGED <<day, stamps>>
        /\ log[w].entry \in Entries /\ log[w].entry \in Nat
        /\ \/ rows' = rows \cup {log[w].entry} /\ history' = history
           \/ rows' = rows /\ Notes("rowFailed", log[w].entry)
    BY <1>6, BusyEntry DEF InsertRow, InsertFails
  <2>2. /\ rows \subseteq rows' /\ history.rowFailed \subseteq history'.rowFailed
        /\ log[w].entry \in rows' \cup history'.rowFailed
        /\ history'.returned = history.returned /\ history'.dropped = history.dropped
        /\ history'.written = history.written
        /\ history'.fileFailed = history.fileFailed
    BY <2>1, NotesShape
  <2>3. \A e \in Entries : InRows(e) => InRows(e)'
    BY <2>1, <2>2 DEF InRows
  <2>4. \A e : InFile(e) => InFile(e)'
    BY <2>2 DEF InFile
  <2>5. /\ log'[w].pc = "lock" /\ log'[w].entry = log[w].entry
        /\ \A v \in Writers : v # w => log'[v] = log[v]
    BY <2>1, GoesShape
  <2>6. \A e : e = log[w].entry => InRows(e)'
    BY <2>2 DEF InRows
  <2> QED
    BY <1>2, <1>3, <2>2, <2>3, <2>4, <2>5, <2>6 DEF SinksSeeing
<1>7. ASSUME NEW w \in Writers, Enter(w) \/ Rotate(w) PROVE SinksSeeing'
  <2>1. /\ log[w].pc \in {"lock", "rotate"}
        /\ \E pc \in {"rotate", "write"} : Goes(w, pc)
        /\ UNCHANGED <<day, stamps, rows, history>>
    BY <1>7 DEF Enter, Rotate
  <2>2. /\ log'[w].pc \in {"rotate", "write"} /\ log'[w].entry = log[w].entry
        /\ \A v \in Writers : v # w => log'[v] = log[v]
    BY <2>1, GoesShape
  <2> QED
    BY <2>1, <2>2 DEF SinksSeeing, InRows, InFile
<1>8. ASSUME NEW w \in Writers, RotateFails(w) PROVE SinksSeeing'
  <2>1. /\ log[w].pc = "rotate" /\ log' = [log EXCEPT ![w] = Idle]
        /\ history'.dropped = history.dropped \cup {log[w].entry}
        /\ history'.returned = history.returned \cup {log[w].entry}
        /\ history'.written = history.written
        /\ history'.rowFailed = history.rowFailed
        /\ history'.fileFailed = history.fileFailed
        /\ UNCHANGED <<day, stamps, rows>>
    BY <1>8, RotateFailsShape
  <2>2. /\ log'[w].pc = "idle" /\ \A v \in Writers : v # w => log'[v] = log[v]
    BY <2>1, IdleShape
  <2>3. \A e : InRows(e) => InRows(e)'
    BY <2>1 DEF InRows
  <2>4. \A e : InFile(e) => InFile(e)'
    BY <2>1 DEF InFile
  <2> QED
    BY <2>1, <2>2, <2>3, <2>4 DEF SinksSeeing
<1>9. ASSUME NEW w \in Writers, Write(w) PROVE SinksSeeing'
  <2>1. /\ log[w].pc = "write" /\ Goes(w, "ring") /\ log[w].entry \in Nat
        /\ UNCHANGED <<day, stamps, rows>>
        /\ \/ Notes("written", log[w].entry) \/ ~handle.open
           \/ Notes("fileFailed", log[w].entry)
    BY <1>9, WriteShape
  <2>2. handle.open
    BY <2>1 DEF HandleIsCurrent
  <2>3. /\ history'.returned = history.returned /\ history'.dropped = history.dropped
        /\ history'.rowFailed = history.rowFailed
        /\ history.written \subseteq history'.written
        /\ history.fileFailed \subseteq history'.fileFailed
        /\ log[w].entry \in history'.written \cup history'.fileFailed
    BY <2>1, <2>2, NotesShape
  <2>4. \A e : InRows(e) => InRows(e)'
    BY <2>1, <2>3 DEF InRows
  <2>5. \A e : InFile(e) \/ e = log[w].entry => InFile(e)'
    BY <2>3 DEF InFile
  <2>6. /\ log'[w].pc = "ring" /\ log'[w].entry = log[w].entry
        /\ \A v \in Writers : v # w => log'[v] = log[v]
    BY <2>1, GoesShape
  <2> QED
    BY <2>1, <2>3, <2>4, <2>5, <2>6 DEF SinksSeeing
<1>10. ASSUME NEW w \in Writers, Remember(w) PROVE SinksSeeing'
  <2>1. /\ log[w].pc = "ring" /\ log' = [log EXCEPT ![w] = Idle]
        /\ log[w].entry \in Nat /\ Notes("returned", log[w].entry)
        /\ UNCHANGED <<day, stamps, rows>>
    BY <1>10, RememberShape DEF Remember
  <2>2. /\ history'.returned = history.returned \cup {log[w].entry}
        /\ history'.dropped = history.dropped
        /\ history'.written = history.written
        /\ history'.rowFailed = history.rowFailed
        /\ history'.fileFailed = history.fileFailed
    BY <2>1, NotesShape
  <2>3. /\ log'[w].pc = "idle" /\ \A v \in Writers : v # w => log'[v] = log[v]
    BY <2>1, IdleShape
  <2>4. \A e : InRows(e) => InRows(e)'
    BY <2>1, <2>2 DEF InRows
  <2>5. \A e : InFile(e) => InFile(e)'
    BY <2>2 DEF InFile
  <2> QED
    BY <2>1, <2>2, <2>3, <2>4, <2>5 DEF SinksSeeing
<1>11. ASSUME NEW k \in 1 .. MaxEntries + 1, Prune(k) PROVE SinksSeeing'
  <2>1. /\ 0 < Retention /\ Retention < day
        /\ \A e \in Entries : e < k => stamps[e] <= day - Retention
        /\ rows' = {e \in rows : e >= k}
        /\ UNCHANGED <<day, stamps, log, history>>
    BY <1>11 DEF Prune
  <2>2. \A e \in Entries : e < k => stamps[e] + Retention <= day
    BY <1>0, <2>1, Constants DEF Typed
  <2>3. \A e \in Entries : e \in rows => e \in rows' \/ e < k
    <3>1. k \in Nat /\ \A e \in Entries : e \in Nat
      BY Constants DEF Entries
    <3> QED
      BY <2>1, <3>1
  <2>4. \A e \in Entries : InRows(e) => InRows(e)'
    BY <2>1, <2>2, <2>3 DEF InRows
  <2>5. \A e : InFile(e) => InFile(e)'
    BY <2>1 DEF InFile
  <2> QED
    BY <1>2, <1>3, <2>1, <2>4, <2>5 DEF SinksSeeing
<1>12. CASE Midnight
  <2>1. day' = day + 1 /\ UNCHANGED <<stamps, log, rows, history>>
    BY <1>12 DEF Midnight
  <2>2. \A e \in Entries : stamps[e] + Retention <= day => stamps[e] + Retention <= day + 1
    BY <1>0, DaysAreNumbers
  <2>3. \A e \in Entries : InRows(e) => InRows(e)'
    BY <2>1, <2>2 DEF InRows
  <2>4. \A e : InFile(e) => InFile(e)'
    BY <2>1 DEF InFile
  <2> QED
    BY <1>2, <1>3, <2>1, <2>3, <2>4 DEF SinksSeeing
<1>13. CASE Restart
  <2>1. /\ \A w \in Writers : log'[w].pc = "idle"
        /\ UNCHANGED <<day, stamps, rows, history>>
    BY <1>13 DEF Restart, Idle
  <2> QED
    BY <2>1 DEF SinksSeeing, InRows, InFile
<1>14. ASSUME NEW g \in 1 .. MaxGzips, GzipStep(g) PROVE SinksSeeing'
  BY <1>4, <1>14, GzipShape
<1>15. CASE UNCHANGED auditVars
  BY <1>4, <1>15 DEF auditVars
<1> QED
  BY <1>5, <1>6, <1>7, <1>8, <1>9, <1>10, <1>11, <1>12, <1>13, <1>14, <1>15
     DEF Next, LogStep

-----------------------------------------------------------------------------
(* The order of the ring.                                                   *)

\* What the ring keeps of its older events keeps its order; the new one is last.
LEMMA RememberOrders ==
    ASSUME Typed, EventsDistinct, RingOrdered, NEW w \in Writers, Remember(w)
    PROVE  RingOrdered'
<1> DEFINE n == Len(ring)
<1>0. PICK x : x = log[w].entry
  OBVIOUS
<1>1. /\ log[w].pc = "ring" /\ x \in Nat /\ x \notin history.returned
      /\ Notes("returned", x)
      /\ n \in Nat /\ DOMAIN ring = 1 .. n
  BY <1>0, RememberShape, BusyEntry DEF Remember
<1>2. PICK k \in 0 .. n :
         /\ DOMAIN ring' = 1 .. n + 1 - k
         /\ \A i \in DOMAIN ring' :
               ring'[i] = IF i + k = n + 1 THEN x ELSE ring[i + k]
  BY <1>0, RememberShape
<1> HIDE DEF n
<1>3. /\ history'.returned = history.returned \cup {x}
      /\ history'.dropped = history.dropped /\ history'.before = history.before
  BY <1>1, NotesShape
<1>4. \A i \in DOMAIN ring : ring[i] \in history.returned
  BY DEF RingOrdered, Elements
<1>5. \A i \in DOMAIN ring' : \/ i = n + 1 - k /\ ring'[i] = x
                              \/ i + k \in DOMAIN ring /\ ring'[i] = ring[i + k]
  BY <1>1, <1>2
<1>6. n + 1 - k \in DOMAIN ring' /\ ring'[n + 1 - k] = x
  BY <1>1, <1>2
<1>7. \A j \in DOMAIN ring : j > k => j - k \in DOMAIN ring' /\ ring'[j - k] = ring[j]
  BY <1>1, <1>2
<1>8. Elements(ring') \subseteq history'.returned
  BY <1>3, <1>4, <1>5 DEF Elements
<1>9. \A i, j \in DOMAIN ring' : ring'[i] = ring'[j] => i = j
  <2>1. \A i, j \in DOMAIN ring : ring[i] = ring[j] => i = j
    BY DEF RingOrdered
  <2> QED
    BY <1>1, <1>2, <1>4, <1>5, <2>1
<1>10. ASSUME NEW p \in history.before, p[1] \in Elements(ring'),
              p[2] \in history'.returned \ history'.dropped
       PROVE  \E i, j \in DOMAIN ring' : ring'[i] = p[1] /\ ring'[j] = p[2] /\ i < j
  <2>1. p[1] # x
    BY <1>1 DEF EventsDistinct
  <2>2. PICK a \in DOMAIN ring' : ring'[a] = p[1]
    BY <1>10 DEF Elements
  <2>3. a + k \in DOMAIN ring /\ ring[a + k] = p[1]
    BY <1>5, <2>1, <2>2
  <2>4. CASE p[2] = x
    <3>1. a < n + 1 - k
      BY <1>1, <1>2, <2>2, <2>3
    <3> QED
      BY <1>6, <2>2, <2>4, <3>1
  <2>5. CASE p[2] # x
    <3>1. p[2] \in history.returned \ history.dropped /\ p[1] \in Elements(ring)
      BY <1>3, <1>10, <2>3, <2>5 DEF Elements
    <3>2. PICK i, j \in DOMAIN ring : ring[i] = p[1] /\ ring[j] = p[2] /\ i < j
      BY <3>1 DEF RingOrdered, Ordered
    <3>3. i = a + k
      BY <2>3, <3>2 DEF RingOrdered
    <3>4. a \in Nat /\ a > 0 /\ j \in Nat /\ a < j - k /\ j > k
      BY <1>1, <1>2, <2>2, <3>2, <3>3
    <3>5. j - k \in DOMAIN ring' /\ ring'[j - k] = p[2]
      BY <1>7, <3>2, <3>4
    <3> QED
      BY <2>2, <3>4, <3>5
  <2> QED
    BY <2>4, <2>5
<1> QED
  BY <1>3, <1>8, <1>9, <1>10 DEF RingOrdered, Ordered

LEMMA RingStep ==
    ASSUME Typed, EventsDistinct, RingOrdered, [Next]_auditVars
    PROVE  RingOrdered'
<1>1. ASSUME ring' = ring, history.returned \subseteq history'.returned,
             history'.returned \ history'.dropped \subseteq
                history.returned \ history.dropped,
             \A p \in history'.before :
                p \in history.before \/ p[2] \notin history'.returned
      PROVE  RingOrdered'
  BY <1>1 DEF RingOrdered, Ordered
<1>2. ASSUME ring' = ring, history' = history PROVE RingOrdered'
  BY <1>1, <1>2
<1>3. ASSUME NEW w \in Writers, Begin(w) PROVE RingOrdered'
  <2>1. /\ history'.returned = history.returned /\ history'.dropped = history.dropped
        /\ history'.before = history.before \cup (history.returned \X {Len(stamps')})
    BY <1>3, BeginTyped DEF Typed, Histories
  <2>2. Len(stamps') \notin history.returned
    BY <1>3, Stamped DEF Begin, EventsDistinct
  <2>3. ring' = ring
    BY <1>3 DEF Begin
  <2> QED
    BY <1>1, <2>1, <2>2, <2>3
<1>4. ASSUME NEW w \in Writers,
             InsertRow(w) \/ InsertFails(w) \/ Enter(w) \/ Rotate(w) \/ Write(w)
      PROVE  RingOrdered'
  <2>1. /\ log[w].pc # "idle" /\ ring' = ring
        /\ \/ history' = history \/ Notes("rowFailed", log[w].entry)
           \/ Notes("written", log[w].entry) \/ Notes("fileFailed", log[w].entry)
    BY <1>4 DEF InsertRow, InsertFails, Enter, Rotate, Write
  <2>2. /\ history'.returned = history.returned
        /\ history'.dropped = history.dropped /\ history'.before = history.before
    BY <2>1, BusyEntry, NotesShape
  <2> QED
    BY <1>1, <2>1, <2>2
<1>5. ASSUME NEW w \in Writers, RotateFails(w) PROVE RingOrdered'
  BY <1>1, <1>5, RotateFailsShape
<1>6. ASSUME NEW w \in Writers, Remember(w) PROVE RingOrdered'
  BY <1>6, RememberOrders
<1>7. CASE Restart
  <2>1. ring' = << >> /\ history' = history
    BY <1>7 DEF Restart
  <2>2. DOMAIN ring' = {} /\ Elements(ring') = {}
    BY <2>1 DEF Elements
  <2> QED
    BY <2>1, <2>2 DEF RingOrdered
<1>8. ASSUME NEW g \in 1 .. MaxGzips, GzipStep(g) PROVE RingOrdered'
  BY <1>2, <1>8, GzipShape
<1>9. ASSUME NEW k \in 1 .. MaxEntries + 1, Prune(k) PROVE RingOrdered'
  BY <1>2, <1>9 DEF Prune
<1>10. CASE Midnight
  BY <1>2, <1>10 DEF Midnight
<1>11. CASE UNCHANGED auditVars
  BY <1>2, <1>11 DEF auditVars
<1> QED
  BY <1>3, <1>4, <1>5, <1>6, <1>7, <1>8, <1>9, <1>10, <1>11 DEF Next, LogStep

-----------------------------------------------------------------------------
(* The invariant and what follows from it.                                  *)

AuditInv ==
    /\ Typed
    /\ MutexHeld
    /\ EventsDistinct
    /\ HandleIsCurrent
    /\ CompressorsAgree
    /\ FiledInTime
    /\ SinksSeeing
    /\ RingOrdered

LEMMA AuditInvInit == Init => AuditInv /\ WrittenIsKept
<1> SUFFICES ASSUME Init PROVE AuditInv /\ WrittenIsKept
  OBVIOUS
<1>1. /\ Typed /\ day = 1 /\ day \in Nat
      /\ \A w \in Writers : log[w].pc = "idle"
      /\ Entries = {} /\ DOMAIN gzips = {} /\ DOMAIN ring = {}
      /\ mu = FALSE /\ handle.day = 1 /\ handle.open = TRUE
      /\ history.returned = {} /\ history.written = {} /\ history.before = {}
      /\ history.again = {}
  BY TypedInit DEF Init, Idle, Entries
<1>2. /\ MutexHeld /\ EventsDistinct /\ SinksSeeing /\ WrittenIsKept
  BY <1>1 DEF MutexHeld, Inside, EventsDistinct, Busy, SinksSeeing, WrittenIsKept
<1>3. \A d \in Days : /\ gz[d] = Absent
                      /\ file[d] = Absent \/ (d = 1 /\ file[d] = << >>)
  BY DEF Init
<1>4. file[handle.day] # Absent
  <2>1. << >> \in Seq(Nat)
    OBVIOUS
  <2>2. << >> # Absent
    BY <2>1, AuditAssumption
  <2> QED
    BY <1>1, <2>2, Constants DEF Init
<1>5. HandleIsCurrent /\ CompressorsAgree
  BY <1>1, <1>3, <1>4 DEF HandleIsCurrent, CompressorsAgree
<1>6. FiledInTime
  BY <1>1, <1>3, EmptyTimely DEF FiledInTime
<1>7. RingOrdered
  BY <1>1 DEF RingOrdered, Elements
<1> QED
  BY <1>1, <1>2, <1>5, <1>6, <1>7 DEF AuditInv

LEMMA AuditInvStep ==
    AuditInv /\ WrittenIsKept /\ [Next]_auditVars => AuditInv' /\ WrittenIsKept'
<1> SUFFICES ASSUME AuditInv, WrittenIsKept, [Next]_auditVars
             PROVE  AuditInv' /\ WrittenIsKept'
  OBVIOUS
<1> USE DEF AuditInv
<1>1. Typed'
  BY StepTyped
<1>2. MutexHeld' /\ EventsDistinct'
  BY MutexStep, EventsStep
<1>3. HandleIsCurrent'
  BY <1>1, HandleStep
<1>4. CompressorsAgree'
  BY <1>1, CompressorsStep
<1>5. FiledInTime'
  BY <1>1, TimelyStep
<1>6. SinksSeeing' /\ RingOrdered'
  BY SinksStep, RingStep
<1>7. WrittenIsKept'
  BY KeptStep
<1> QED
  BY <1>1, <1>2, <1>3, <1>4, <1>5, <1>6, <1>7

LEMMA AuditInvAlways == Spec => [](AuditInv /\ WrittenIsKept)
<1>1. Init => AuditInv /\ WrittenIsKept
  BY AuditInvInit
<1>2. AuditInv /\ WrittenIsKept /\ [Next]_auditVars => (AuditInv /\ WrittenIsKept)'
  BY AuditInvStep
<1> QED
  BY <1>1, <1>2, PTL DEF Spec

\* The log is well typed, and its mutex is held by exactly one goroutine while
\* it rotates or writes, and by none otherwise.
THEOREM TypeCorrect == Spec => []TypeOK
<1>1. AuditInv => TypeOK
  <2> SUFFICES ASSUME AuditInv PROVE TypeOK
    OBVIOUS
  <2>1. Cardinality({w \in Writers : log[w].pc \in {"rotate", "write"}})
            = IF mu THEN 1 ELSE 0
    <3>1. CASE mu
      <4>1. PICK w \in Writers : Inside(w)
        BY <3>1 DEF AuditInv, MutexHeld
      <4>2. {v \in Writers : log[v].pc \in {"rotate", "write"}} = {w}
        BY <4>1 DEF AuditInv, MutexHeld, Inside
      <4> QED
        BY <3>1, <4>2, FS_Singleton
    <3>2. CASE ~mu
      <4>1. {v \in Writers : log[v].pc \in {"rotate", "write"}} = {}
        BY <3>2 DEF AuditInv, MutexHeld, Inside
      <4> QED
        BY <3>2, <4>1, FS_EmptySet
    <3> QED
      BY <3>1, <3>2
  <2>2. /\ \A d \in Days : file[d] # Absent => Elements(file[d]) \subseteq Entries
        /\ \A d \in Days : gz[d] \notin {Absent, Broken}
              => Elements(gz[d]) \subseteq Entries
    BY DEF AuditInv, FiledInTime, Timely
  <2>3. Elements(ring) \subseteq Entries
    BY DEF AuditInv, RingOrdered, EventsDistinct
  <2>4. \A g \in DOMAIN gzips :
           gzips[g].pc \in {"open", "create", "copy", "remove", "done"}
    <3>1. \A g \in DOMAIN gzips : gzips[g] \in Gzips
      BY DEF AuditInv, Typed
    <3> QED
      BY <3>1 DEF Gzips
  <2> QED
    BY <2>1, <2>2, <2>3, <2>4 DEF AuditInv, Typed, TypeOK
<1> QED
  BY <1>1, AuditInvAlways, PTL

\* An event the JSONL sink wrote can be read for ever after, in its file or in
\* the archive of it, whatever rotates, is compressed, fails or ends, unless a
\* rotation away from the file failed.
THEOREM WrittenStaysReadable == Spec => []WrittenIsKept
  BY AuditInvAlways, PTL

\* Of an event whose Log returned every sink has a record, but for one that
\* failed on this very event: a failing sink costs no other its record.
THEOREM SinksSeeAll == Spec => []EverySinkSees
<1>1. AuditInv => EverySinkSees
  BY DEF AuditInv, SinksSeeing, InRows, InFile, EverySinkSees
<1> QED
  BY <1>1, AuditInvAlways, PTL

\* The ring holds no event before one that had been logged before it began, and
\* drops no event while it keeps an older one.
THEOREM RingKeepsOrder == Spec => []RingInOrder
<1>1. AuditInv => RingInOrder
  <2> SUFFICES ASSUME AuditInv, NEW p \in history.before,
                      p[1] \in Elements(ring),
                      p[2] \in history.returned \ history.dropped
               PROVE  p[2] \in Elements(ring) /\ Position(p[1]) < Position(p[2])
    BY DEF RingInOrder
  <2>1. PICK i, j \in DOMAIN ring : ring[i] = p[1] /\ ring[j] = p[2] /\ i < j
    BY DEF AuditInv, RingOrdered, Ordered
  <2>2. \A a, b \in DOMAIN ring : ring[a] = ring[b] => a = b
    BY DEF AuditInv, RingOrdered
  <2>3. Position(p[1]) = i /\ Position(p[2]) = j
    BY <2>1, <2>2 DEF Position
  <2> QED
    BY <2>1, <2>3 DEF Elements
<1> QED
  BY <1>1, AuditInvAlways, PTL

\* No event is filed under a day that was over when it was stamped, whatever
\* midnights come between the stamp, the rotation and the write.
THEOREM NothingFiledEarly == Spec => []NotFiledEarly
<1>1. AuditInv => NotFiledEarly
  BY DEF AuditInv, FiledInTime, Timely, NotFiledEarly, OnFile, InArchive
<1> QED
  BY <1>1, AuditInvAlways, PTL

-----------------------------------------------------------------------------
(* What can be read of a day.                                               *)

\* A compressor takes nothing away of a day it is alone with: the archive is
\* whole when the file goes, and the file is there while the archive is not.
LEMMA ReadableByGzip ==
    ASSUME Typed, CompressorsAgree, NEW g \in 1 .. MaxGzips, GzipStep(g),
           NEW d \in Days \ history.again
    PROVE  Readable(d)' = Readable(d)
<1> DEFINE c == gzips[g].day
<1>1. g \in DOMAIN gzips /\ c \in Days
  BY GzipShape
<1>2. /\ d # c => file'[d] = file[d] /\ gz'[d] = gz[d]
      /\ \/ file' = file /\ gz' = gz
         \/ gzips[g].pc = "create" /\ file' = file /\ gz'[c] = Broken
         \/ gzips[g].pc = "copy" /\ file' = file /\ gz'[c] = gzips[g].seen
         \/ gzips[g].pc = "remove" /\ file'[c] = Absent /\ gz' = gz
  BY GzipFiles
<1>3. CASE d # c \/ (file' = file /\ gz' = gz)
  BY <1>2, <1>3 DEF Readable
<1>4. CASE d = c /\ ~(file' = file /\ gz' = gz)
  <2>1. Copying(g)
    BY <1>1, <1>4 DEF CompressorsAgree, Once
  <2>2. /\ file[c] \in Seq(Nat) \cup {Absent}
        /\ gz[c] \in Seq(Nat) \cup {Absent, Broken}
        /\ Broken \notin Seq(Nat) /\ Absent \notin Seq(Nat)
    BY <1>1, AuditAssumption DEF Typed
  <2>3. CASE gzips[g].pc = "create" /\ file' = file /\ gz'[c] = Broken
    BY <1>4, <2>1, <2>3 DEF Copying, Readable
  <2>4. CASE gzips[g].pc = "copy" /\ file' = file /\ gz'[c] = gzips[g].seen
    <3>1. gz[c] = Broken /\ file[c] = gzips[g].seen
      BY <2>1, <2>4 DEF Copying
    <3>2. CASE file[c] = Absent
      BY <1>4, <2>4, <3>1, <3>2 DEF Readable
    <3>3. CASE file[c] # Absent
      BY <1>4, <2>4, <3>3 DEF Readable
    <3> QED
      BY <3>2, <3>3
  <2>5. CASE gzips[g].pc = "remove" /\ file'[c] = Absent /\ gz' = gz
    <3>1. file[c] = gz[c]
      BY <2>1, <2>5 DEF Copying
    <3> QED
      BY <1>4, <2>2, <2>5, <3>1 DEF Readable
  <2> QED
    BY <1>2, <1>4, <2>3, <2>4, <2>5
<1> QED
  BY <1>3, <1>4

\* Opening today's file, new or not, changes nothing of what can be read.
LEMMA ReadableByOpening ==
    ASSUME Typed, HandleIsCurrent, CompressorsAgree, OpenFile(day), gz' = gz,
           NEW d \in Days
    PROVE  Readable(d)' = Readable(d)
<1>0. /\ handle.day \in Nat /\ day \in Days /\ day \in Nat
      /\ history.again \subseteq Days /\ Days \subseteq Nat
  BY DaysAreNumbers
<1>1. CASE file[d] # Absent \/ d # day
  <2>1. file'[d] = file[d]
    BY <1>0, <1>1, OpenFileShape
  <2> QED
    BY <2>1 DEF Readable
<1>2. CASE file[d] = Absent /\ d = day
  <2>1. file'[d] = << >> /\ file'[d] # Absent
    BY <1>0, <1>2, OpenFileShape
  <2>2. gz[d] = Absent
    <3>1. d >= handle.day
      BY <1>0, <1>2 DEF HandleIsCurrent
    <3>2. d \notin history.again
      BY <1>0, <1>2 DEF HandleIsCurrent
    <3> QED
      BY <3>1, <3>2 DEF CompressorsAgree
  <2> QED
    BY <1>2, <2>1, <2>2 DEF Readable
<1> QED
  BY <1>1, <1>2

LEMMA AgainGrows ==
    ASSUME Typed, EventsDistinct, [Next]_auditVars
    PROVE  history.again \subseteq history'.again
<1>1. ASSUME NEW w \in Writers, Begin(w) \/ LogStep(w)
      PROVE  history.again \subseteq history'.again
  <2>1. CASE Begin(w)
    BY <2>1, BeginTyped
  <2>2. CASE InsertRow(w) \/ InsertFails(w) \/ Enter(w) \/ Rotate(w)
    <3>1. /\ log[w].pc # "idle"
          /\ history' = history \/ Notes("rowFailed", log[w].entry)
      BY <2>2 DEF InsertRow, InsertFails, Enter, Rotate
    <3> QED
      BY <3>1, BusyEntry, NotesShape
  <2>3. CASE RotateFails(w)
    BY <2>3, RotateFailsShape
  <2>4. CASE Write(w)
    <3>1. /\ log[w].entry \in Nat
          /\ \/ history' = history \/ Notes("written", log[w].entry)
             \/ Notes("fileFailed", log[w].entry)
      BY <2>4, WriteShape
    <3> QED
      BY <3>1, NotesShape
  <2>5. CASE Remember(w)
    BY <2>5, RememberShape, NotesShape DEF Remember
  <2> QED
    BY <1>1, <2>1, <2>2, <2>3, <2>4, <2>5 DEF LogStep
<1>2. ASSUME NEW g \in 1 .. MaxGzips, GzipStep(g)
      PROVE  history' = history
  BY <1>2, GzipShape
<1>3. ASSUME NEW k \in 1 .. MaxEntries + 1, Prune(k)
      PROVE  history' = history
  BY <1>3 DEF Prune
<1>4. Midnight \/ Restart \/ UNCHANGED auditVars => history' = history
  BY DEF Midnight, Restart, auditVars
<1> QED
  BY <1>1, <1>2, <1>3, <1>4 DEF Next

\* What can be read of a day stays, or has one more event at its end.
LEMMA ReadableStep ==
    ASSUME AuditInv, [Next]_auditVars, NEW d \in Days \ history'.again
    PROVE  \/ Readable(d)' = Readable(d)
           \/ \E w \in Writers :
                /\ log[w].pc = "write"
                /\ Readable(d)' = Append(Readable(d), log[w].entry)
<1> USE DEF AuditInv
<1>0. d \notin history.again /\ handle.day \in Days
  BY AgainGrows, DaysAreNumbers
<1>1. UNCHANGED <<file, gz>> => Readable(d)' = Readable(d)
  BY DEF Readable
<1>2. ASSUME NEW w \in Writers, Begin(w) \/ LogStep(w), ~Write(w)
      PROVE  Readable(d)' = Readable(d)
  <2>1. CASE Begin(w) \/ InsertRow(w) \/ InsertFails(w) \/ Enter(w) \/ Remember(w)
    BY <1>1, <2>1 DEF Begin, InsertRow, InsertFails, Enter, Remember
  <2>2. CASE RotateFails(w)
    BY <1>1, <2>2, RotateFailsShape
  <2>3. CASE Rotate(w)
    BY <2>3, ReadableByOpening DEF Rotate
  <2> QED
    BY <1>2, <2>1, <2>2, <2>3 DEF LogStep
<1>3. ASSUME NEW w \in Writers, Write(w)
      PROVE  \/ Readable(d)' = Readable(d)
             \/ /\ log[w].pc = "write"
                /\ Readable(d)' = Append(Readable(d), log[w].entry)
  <2>1. /\ log[w].pc = "write" /\ gz' = gz /\ log[w].entry \in Nat
        /\ \/ file' = file
           \/ /\ file[handle.day] # Absent
              /\ file' = [file EXCEPT ![handle.day] = Append(@, log[w].entry)]
    BY <1>3, WriteShape
  <2>2. CASE file' = file \/ d # handle.day
    <3>1. file'[d] = file[d]
      BY <1>0, <2>1, <2>2 DEF Typed
    <3> QED
      BY <2>1, <3>1 DEF Readable
  <2>3. CASE file' # file /\ d = handle.day
    <3>1. file'[d] = Append(file[d], log[w].entry) /\ file[d] # Absent
      BY <1>0, <2>1, <2>3 DEF Typed
    <3>2. Append(file[d], log[w].entry) \in Seq(Nat)
      BY <1>0, <2>1, <2>3, <3>1, Longer DEF Typed
    <3>3. file'[d] # Absent
      BY <3>1, <3>2, AuditAssumption
    <3>4. Readable(d)' = file'[d] /\ Readable(d) = file[d]
      BY <3>1, <3>3 DEF Readable
    <3> QED
      BY <2>1, <3>1, <3>4
  <2> QED
    BY <2>2, <2>3
<1>4. ASSUME NEW g \in 1 .. MaxGzips, GzipStep(g)
      PROVE  Readable(d)' = Readable(d)
  BY <1>0, <1>4, ReadableByGzip
<1>5. CASE Restart
  BY <1>5, ReadableByOpening DEF Restart
<1>6. ASSUME NEW k \in 1 .. MaxEntries + 1, Prune(k)
      PROVE  Readable(d)' = Readable(d)
  BY <1>1, <1>6 DEF Prune
<1>7. CASE Midnight \/ UNCHANGED auditVars
  BY <1>1, <1>7 DEF Midnight, auditVars
<1> QED
  BY <1>2, <1>3, <1>4, <1>5, <1>6, <1>7 DEF Next, LogStep

\* Whatever rotates, is compressed, fails or ends, a day's log is only ever
\* appended to: its archive is the file to the letter and in the same order,
\* and there is no moment at which neither can be read.
THEOREM DaysAreAppendOnly == Spec => DaysOnlyGrow
<1> DEFINE Grows == \A d \in Days \ history'.again :
                      \/ Readable(d)' = Readable(d)
                      \/ \E w \in Writers :
                           /\ log[w].pc = "write"
                           /\ Readable(d)' = Append(Readable(d), log[w].entry)
<1>1. AuditInv /\ [Next]_auditVars => [Grows]_auditVars
  BY ReadableStep
<1> QED
  BY <1>1, AuditInvAlways, PTL DEF Spec, DaysOnlyGrow

=============================================================================
