------------------------------- MODULE Audit --------------------------------
(***************************************************************************)
(* The audit log of the gateway (core/audit): MultiSinkLogger hands every  *)
(* event first to the SQLite sink and then to the JSONL sink, which writes *)
(* a file a day, compresses the file of a day that is over in the          *)
(* background, and keeps the newest events in a ring.  A pruner deletes    *)
(* rows of the database that are past their retention.                     *)
(*                                                                         *)
(* Events are numbered in the order in which they were stamped.  Any step  *)
(* on a file or the database may fail, and the process may end between any *)
(* two steps and start again.                                              *)
(***************************************************************************)
EXTENDS Naturals, FiniteSets, Sequences

CONSTANTS
    Writers,      \* goroutines that log
    Retention,    \* retention_days of the database, 0 to keep rows for ever
    RingMax,      \* ringMax
    MaxEntries, MaxDay, MaxFailures, MaxCrashes,  \* bounds of a run
    Absent,       \* model value: there is no such file
    Broken        \* model value: an archive cut short

ASSUME AuditAssumption ==
    /\ {Retention, MaxEntries, MaxFailures, MaxCrashes} \subseteq Nat
    /\ {RingMax, MaxDay} \subseteq Nat \ {0}
    /\ IsFiniteSet(Writers)
    /\ Absent \notin Seq(Nat) /\ Broken \notin Seq(Nat)

VARIABLES
    day,       \* the UTC day of the clock
    stamps,    \* stamps[e] is the day on which event e was stamped
    log,       \* what each writer is doing inside Log, and with which event
    rows,      \* audit_logs, the events in the database
    file,      \* audit-<day>.jsonl
    gz,        \* audit-<day>.jsonl.gz
    mu,        \* l.mu is held
    handle,    \* currentDay, and whether currentFile is open
    gzips,     \* the goroutines of gzipFile that were started
    ring,      \* ringBuffer
    failures, crashes,
    history    \* what was written, what failed, what had returned when

auditVars == <<day, stamps, log, rows, file, gz, mu, handle, gzips, ring,
               failures, crashes, history>>

Days == 1 .. MaxDay
Entries == 1 .. Len(stamps)
Elements(s) == {s[i] : i \in DOMAIN s}

Idle == [pc |-> "idle", entry |-> 0]
Stages == {"idle", "insert", "lock", "rotate", "write", "ring"}

TypeOK ==
    /\ day \in Days
    /\ stamps \in Seq(Days) /\ Len(stamps) <= MaxEntries
    /\ log \in [Writers -> [pc : Stages, entry : 0 .. MaxEntries]]
    /\ rows \subseteq Entries
    /\ \A d \in Days : file[d] # Absent => Elements(file[d]) \subseteq Entries
    /\ \A d \in Days : gz[d] \notin {Absent, Broken} => Elements(gz[d]) \subseteq Entries
    /\ mu \in BOOLEAN
    /\ handle \in [day : Days, open : BOOLEAN]
    /\ \A g \in DOMAIN gzips :
         gzips[g].pc \in {"open", "create", "copy", "remove", "done"}
    /\ Elements(ring) \subseteq Entries /\ Len(ring) <= RingMax
    /\ failures \in 0 .. MaxFailures /\ crashes \in 0 .. MaxCrashes
    \* the mutex is held exactly while somebody is between its lock and unlock
    /\ Cardinality({w \in Writers : log[w].pc \in {"rotate", "write"}}) = IF mu THEN 1 ELSE 0

Init ==
    /\ day = 1
    /\ stamps = << >>
    /\ log = [w \in Writers |-> Idle]
    /\ rows = {}
    /\ file = [d \in Days |-> IF d = 1 THEN << >> ELSE Absent]
    /\ gz = [d \in Days |-> Absent]
    /\ mu = FALSE
    /\ handle = [day |-> 1, open |-> TRUE]
    /\ gzips = << >>
    /\ ring = << >>
    /\ failures = 0 /\ crashes = 0
    /\ history = [written |-> {}, rowFailed |-> {}, fileFailed |-> {}, returned |-> {},
                  dropped |-> {}, before |-> {}, again |-> {}]

----
Goes(w, pc) == log' = [log EXCEPT ![w].pc = pc]
Fails == failures < MaxFailures /\ failures' = failures + 1
Notes(field, e) == history' = [history EXCEPT ![field] = @ \cup {e}]

\* An event is stamped and handed to the first sink.
Begin(w) ==
    /\ log[w].pc = "idle"
    /\ Len(stamps) < MaxEntries
    /\ stamps' = Append(stamps, day)
    /\ log' = [log EXCEPT ![w] = [pc |-> "insert", entry |-> Len(stamps')]]
    /\ history' = [history EXCEPT !.before =
                      @ \cup (history.returned \X {Len(stamps')})]
    /\ UNCHANGED <<day, rows, file, gz, mu, handle, gzips, ring, failures, crashes>>

\* SQLiteLogger.Log
InsertRow(w) ==
    /\ log[w].pc = "insert"
    /\ rows' = rows \cup {log[w].entry}
    /\ Goes(w, "lock")
    /\ UNCHANGED <<day, stamps, file, gz, mu, handle, gzips, ring, failures, crashes, history>>

\* An insert that fails is printed and forgotten; the next sink has its turn.
InsertFails(w) ==
    /\ log[w].pc = "insert"
    /\ Fails
    /\ Notes("rowFailed", log[w].entry)
    /\ Goes(w, "lock")
    /\ UNCHANGED <<day, stamps, rows, file, gz, mu, handle, gzips, ring, crashes>>

\* Faulty variant: the day is not looked at.
EnterAnyDay(w) ==
    /\ log[w].pc = "lock"
    /\ ~mu
    /\ mu' = TRUE
    /\ Goes(w, "write")
    /\ UNCHANGED <<day, stamps, rows, file, gz, handle, gzips, ring, failures, crashes, history>>

\* JSONLLogger.Log takes the mutex and compares the clock with currentDay.
Enter(w) ==
    /\ log[w].pc = "lock"
    /\ ~mu
    /\ mu' = TRUE
    /\ Goes(w, IF day # handle.day THEN "rotate" ELSE "write")
    /\ UNCHANGED <<day, stamps, rows, file, gz, handle, gzips, ring, failures, crashes, history>>

\* rotate: the old file is closed, if it was not, and its compression started.
Compress ==
    /\ gzips' = Append(gzips, [day |-> handle.day, pc |-> "open", seen |-> << >>])

OpenFile(d) == file' = [file EXCEPT ![d] = IF @ = Absent THEN << >> ELSE @]

\* Faulty variant: the compressor is started when the new file is open, and
\* told to compress that one.
RotateNew(w) ==
    /\ log[w].pc = "rotate"
    /\ gzips' = Append(gzips, [day |-> day, pc |-> "open", seen |-> << >>])
    /\ OpenFile(day)
    /\ handle' = [day |-> day, open |-> TRUE]
    /\ Goes(w, "write")
    /\ UNCHANGED <<day, stamps, rows, gz, mu, ring, failures, crashes, history>>

Rotate(w) ==
    /\ log[w].pc = "rotate"
    /\ Compress
    /\ OpenFile(day)
    /\ handle' = [day |-> day, open |-> TRUE]
    /\ Goes(w, "write")
    /\ UNCHANGED <<day, stamps, rows, gz, mu, ring, failures, crashes, history>>

RotationFailed(w) ==
    /\ log[w].pc = "rotate"
    /\ Fails
    /\ Compress
    /\ history' = [history EXCEPT !.again = @ \cup {handle.day},
                                  !.dropped = @ \cup {log[w].entry},
                                  !.returned = @ \cup {log[w].entry}]
    /\ log' = [log EXCEPT ![w] = Idle]
    /\ UNCHANGED <<day, stamps, rows, file, gz, ring, crashes>>

\* Faulty variant: the early return keeps the mutex.
RotateFailsLocked(w) ==
    /\ RotationFailed(w)
    /\ handle' = [handle EXCEPT !.open = FALSE]
    /\ UNCHANGED mu

\* Faulty variant: the new day counts as begun although its file is not open.
RotateFailsToday(w) ==
    /\ RotationFailed(w)
    /\ handle' = [day |-> day, open |-> FALSE]
    /\ mu' = FALSE

\* Today's file cannot be opened: Log gives the mutex back and returns, with
\* the old file closed and currentDay as it was, and the event in no file.
RotateFails(w) ==
    /\ RotationFailed(w)
    /\ handle' = [handle EXCEPT !.open = FALSE]
    /\ mu' = FALSE

\* Encode, whose error is ignored: a closed file takes nothing, and what is
\* written to a removed one is gone.
Write(w) ==
    LET e == log[w].entry
    IN  /\ log[w].pc = "write"
        /\ mu' = FALSE
        /\ Goes(w, "ring")
        /\ \/ /\ file' = IF handle.open /\ file[handle.day] # Absent
                           THEN [file EXCEPT ![handle.day] = Append(@, e)]
                           ELSE file
              /\ IF handle.open THEN Notes("written", e) ELSE UNCHANGED history
              /\ UNCHANGED failures
           \/ /\ Fails
              /\ Notes("fileFailed", e)
              /\ UNCHANGED file
        /\ UNCHANGED <<day, stamps, rows, gz, handle, gzips, ring, crashes>>

\* Faulty variant: the ring, once full, keeps what it has.
RememberOldest(w) ==
    LET longer == Append(ring, log[w].entry)
    IN  /\ log[w].pc = "ring"
        /\ ring' = SubSeq(longer, 1, IF Len(longer) > RingMax THEN RingMax ELSE Len(longer))
        /\ Notes("returned", log[w].entry)
        /\ log' = [log EXCEPT ![w] = Idle]
        /\ UNCHANGED <<day, stamps, rows, file, gz, mu, handle, gzips, failures, crashes>>

\* The ring takes the event, under a mutex of its own, and Log returns.
Remember(w) ==
    LET longer == Append(ring, log[w].entry)
    IN  /\ log[w].pc = "ring"
        /\ ring' = IF Len(longer) > RingMax
                     THEN SubSeq(longer, Len(longer) - RingMax + 1, Len(longer))
                     ELSE longer
        /\ Notes("returned", log[w].entry)
        /\ log' = [log EXCEPT ![w] = Idle]
        /\ UNCHANGED <<day, stamps, rows, file, gz, mu, handle, gzips, failures, crashes>>

----
(* gzipFile, for the file of a day.  Every error ends it silently.          *)

At(g, pc) == g \in DOMAIN gzips /\ gzips[g].pc = pc

GzipKeeps == UNCHANGED <<day, stamps, log, rows, mu, handle, ring, crashes, history>>

\* The source may have been removed by an earlier compression of it.
OpenSource(g) ==
    LET src == file[gzips[g].day]
    IN  /\ At(g, "open")
        /\ gzips' = IF src = Absent
                      THEN [gzips EXCEPT ![g].pc = "done"]
                      ELSE [gzips EXCEPT ![g].pc = "create", ![g].seen = src]
        /\ UNCHANGED <<file, gz, failures>>
        /\ GzipKeeps

\* os.Create empties an archive that is already there.
CreateArchive(g) ==
    /\ At(g, "create")
    /\ gz' = [gz EXCEPT ![gzips[g].day] = Broken]
    /\ gzips' = [gzips EXCEPT ![g].pc = "copy"]
    /\ UNCHANGED <<file, failures>>
    /\ GzipKeeps

\* io.Copy and gz.Close
WriteArchive(g) ==
    /\ At(g, "copy")
    /\ gz' = [gz EXCEPT ![gzips[g].day] = gzips[g].seen]
    /\ gzips' = [gzips EXCEPT ![g].pc = "remove", ![g].seen = << >>]
    /\ UNCHANGED <<file, failures>>
    /\ GzipKeeps

RemoveSource(g) ==
    /\ At(g, "remove")
    /\ file' = [file EXCEPT ![gzips[g].day] = Absent]
    /\ gzips' = [gzips EXCEPT ![g].pc = "done"]
    /\ UNCHANGED <<gz, failures>>
    /\ GzipKeeps

\* Faulty variant: the source is removed whether it was copied or not.
GzipFailsAnyway(g) ==
    /\ g \in DOMAIN gzips /\ gzips[g].pc # "done"
    /\ Fails
    /\ file' = [file EXCEPT ![gzips[g].day] = Absent]
    /\ gzips' = [gzips EXCEPT ![g].pc = "done"]
    /\ UNCHANGED gz
    /\ GzipKeeps

\* Open, Create, Copy, Close or Remove fails; what was not removed stays.
GzipFails(g) ==
    /\ g \in DOMAIN gzips /\ gzips[g].pc # "done"
    /\ Fails
    /\ gzips' = [gzips EXCEPT ![g].pc = "done", ![g].seen = << >>]
    /\ UNCHANGED <<file, gz>>
    /\ GzipKeeps

----
\* Pruner.PruneOnce: the cutoff lies within the day Retention days ago, and
\* every row stamped before it goes.
Prune(k) ==
    /\ 0 < Retention /\ Retention < day
    /\ \A e \in Entries :
         IF e < k THEN stamps[e] <= day - Retention ELSE stamps[e] >= day - Retention
    /\ rows' = {e \in rows : e >= k}
    /\ UNCHANGED <<day, stamps, log, file, gz, mu, handle, gzips, ring, failures, crashes, history>>

Midnight ==
    /\ day < MaxDay
    /\ day' = day + 1
    /\ UNCHANGED <<stamps, log, rows, file, gz, mu, handle, gzips, ring, failures, crashes, history>>

\* The process ends between any two steps and starts again: NewJSONLLogger
\* opens today's file and looks at no other.
Restart ==
    /\ crashes < MaxCrashes
    /\ crashes' = crashes + 1
    /\ log' = [w \in Writers |-> Idle]
    /\ OpenFile(day)
    /\ mu' = FALSE
    /\ handle' = [day |-> day, open |-> TRUE]
    /\ gzips' = << >>
    /\ ring' = << >>
    /\ UNCHANGED <<day, stamps, rows, gz, failures, history>>

LogStep(w) ==
    \/ InsertRow(w) \/ InsertFails(w)
    \/ Enter(w)
    \/ Rotate(w) \/ RotateFails(w)
    \/ Write(w)
    \/ Remember(w)

GzipStep(g) ==
    \/ OpenSource(g) \/ CreateArchive(g) \/ WriteArchive(g) \/ RemoveSource(g)
    \/ GzipFails(g)

MaxGzips == MaxDay + MaxFailures

Next ==
    \/ \E w \in Writers : Begin(w) \/ LogStep(w)
    \/ \E g \in 1 .. MaxGzips : GzipStep(g)
    \/ \E k \in 1 .. MaxEntries + 1 : Prune(k)
    \/ Midnight
    \/ Restart

\* A goroutine inside Log or gzipFile goes on; nothing makes anybody log.  Weak
\* fairness is enough for a mutex that is taken a bounded number of times.
Spec ==
    /\ Init /\ [][Next]_auditVars
    /\ \A w \in Writers : WF_auditVars(LogStep(w))
    /\ \A g \in 1 .. MaxGzips : WF_auditVars(GzipStep(g))

----
(* Properties                                                               *)

OnFile(e, d) == file[d] # Absent /\ e \in Elements(file[d])
InArchive(e, d) == gz[d] \notin {Absent, Broken} /\ e \in Elements(gz[d])

\* An event that Encode wrote can be read for ever after, in its day's file or
\* in that day's archive, unless a rotation away from that file failed, so that
\* the file was given to a second compressor.
WrittenIsKept ==
    \A e \in history.written : \E d \in Days :
      \/ OnFile(e, d) \/ InArchive(e, d)
      \/ d \in history.again /\ stamps[e] <= d

\* "JSONL files remain readable even if gzip fails" (core/audit/jsonl.go:94): an
\* event that was written can be read whenever nobody is compressing its file.
ReadableIfGzipFails ==
    \A e \in history.written : \E d \in Days :
      \/ OnFile(e, d) \/ InArchive(e, d)
      \/ \E g \in DOMAIN gzips : gzips[g].day = d /\ gzips[g].pc # "done"

\* Of an event whose Log has returned, every sink has a record, but for a sink
\* that failed on this very event and for rows past their retention: no failure
\* of one sink, or on an earlier event, costs another its record.
EverySinkSees ==
    \A e \in history.returned :
      /\ \/ e \in rows \cup history.rowFailed
         \/ 0 < Retention /\ stamps[e] + Retention <= day
      /\ e \in history.written \cup history.fileFailed \cup history.dropped

\* What a reader finds of a day: its file, or else a whole archive of it.
Readable(d) ==
    IF file[d] # Absent THEN file[d]
    ELSE IF gz[d] \in {Absent, Broken} THEN << >> ELSE gz[d]

\* What can be read of a day only ever grows, at its end, by the event that a
\* goroutine is writing: the rotation, the background compression with the
\* removal of its source (jsonl.go:100), failures and restarts change neither
\* what is there nor its order, but for a day with a second compressor.
DaysOnlyGrow ==
    [][\A d \in Days \ history'.again :
         \/ Readable(d)' = Readable(d)
         \/ \E w \in Writers :
              /\ log[w].pc = "write"
              /\ Readable(d)' = Append(Readable(d), log[w].entry)]_auditVars

Position(e) == CHOOSE i \in DOMAIN ring : ring[i] = e

\* Of two events the first of which had been logged before the other began, the
\* ring holds the first only together with the other, once that is logged too,
\* and in this order.
RingInOrder ==
    \A p \in history.before :
      p[1] \in Elements(ring) /\ p[2] \in history.returned \ history.dropped
        => p[2] \in Elements(ring) /\ Position(p[1]) < Position(p[2])

\* No event is in the file of a day that was over when the event was stamped,
\* whatever midnights come between the stamp, the rotation and the write.
NotFiledEarly ==
    \A d \in Days : \A e \in Entries : OnFile(e, d) \/ InArchive(e, d) => stamps[e] <= d

\* Nobody waits for the log for ever, whatever fails.
LogReturns == \A w \in Writers : (log[w].pc # "idle") ~> (log[w].pc = "idle")

\* The file of a day that the process rotated away from is replaced by its
\* archive, unless something failed or the process ended first; that nothing is
\* missing from the archive then is WrittenIsKept.
RotatedIsCompressed ==
    \A d \in 1 .. MaxDay - 1 :
      (d < handle.day /\ file[d] # Absent)
        ~> (file[d] = Absent \/ failures > 0 \/ crashes > 0)
=============================================================================
