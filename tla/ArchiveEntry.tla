---------------------------- MODULE ArchiveEntry ----------------------------
(***************************************************************************)
(* How one entry of an archive session is served (internal/api/archive.go):*)
(* in place from the archive file while its CRC-32 is verified in the      *)
(* background, or from an extraction that readers consume while it runs.   *)
(*                                                                         *)
(* The entry is EntrySize chunks long. Its kind and whether its bytes are  *)
(* what the archive promises are facts the code finds out: "stored" (zip,  *)
(* large), "small" (zip, verified before the first byte), "tar" (stored,   *)
(* no checksum), "deflated" and "streamed" (no declared size).             *)
(***************************************************************************)
EXTENDS Integers, FiniteSets

CONSTANTS
  NumReaders,    \* requests of a run, numbered as they arrive
  EntrySize,     \* chunks of the entry
  MaxFlights     \* bound on extractions

ASSUME EntryAssumption == {NumReaders, EntrySize, MaxFlights} \subseteq Nat /\ 0 < EntrySize

VARIABLES
  entry,         \* kind and content of the entry: constant facts
  direct,        \* sess.direct: "unknown", "yes", "no"
  verify,        \* archiveVerify: "off", "running", "ok", "mismatch", "failed"
  inflight,      \* sess.inflight: the current extraction, or 0
  extracted,     \* sess.extracted: the extraction whose file is the cached copy, or 0
  flight,        \* extractions: stage, readable chunks, registered readers, file removed
  reader,        \* requests: place, position and end of the range, extraction, verdict still awaited
  teardown       \* archiveDestroySession: "no", "cancelled", "done"

entryVars == <<entry, direct, verify, inflight, extracted, flight, reader, teardown>>

Readers == 1 .. NumReaders
Flights == 1 .. MaxFlights

InPlaceKinds == {"stored", "small", "tar"}
NoReader(l) == [at |-> l, pos |-> 0, end |-> 0, fl |-> 0, gated |-> FALSE]

EntryInit ==
  /\ entry \in [kind : InPlaceKinds \cup {"deflated", "streamed"}, content : {"good", "bad", "long"}]
  /\ entry.kind \in InPlaceKinds => entry.content # "long"
  /\ direct = "unknown" /\ verify = "off" /\ inflight = 0 /\ extracted = 0
  /\ flight = [f \in Flights |-> [st |-> "none", written |-> 0, readers |-> 0, gone |-> FALSE]]
  /\ reader = [r \in Readers |-> NoReader("idle")]
  /\ teardown = "no"

Reads(r, l) == reader' = [reader EXCEPT ![r].at = l]

\* How a response ends: "whole" (the last byte went out cleanly), "part" (a range
\* that ends earlier), "error" (before any byte) or "cut".
Ends(r, how) == reader' = [reader EXCEPT ![r] = NoReader(how)]
Ended == {"whole", "part", "error", "cut"}
Busy(r) == reader[r].at \notin Ended \cup {"idle"}

\* A request for a range, a pin on the session in its hand.
EntryStart(r) ==
  /\ reader[r].at = "idle" /\ teardown = "no" /\ \A q \in 1 .. r - 1 : reader[q].at # "idle"
  /\ \E a \in 0 .. EntrySize - 1 : \E b \in a + 1 .. EntrySize :
       reader' = [reader EXCEPT ![r] = [NoReader("open") EXCEPT !.pos = a, !.end = b]]
  /\ UNCHANGED <<entry, direct, verify, inflight, extracted, flight, teardown>>

-----------------------------------------------------------------------------
(* In place *)

\* archiveDirectExtent: the first to ask also starts the one verification; whoever
\* loses that race shares its outcome. The archive may not open.
OpenEntry(r) ==
  /\ reader[r].at = "open"
  /\ \/ /\ entry.kind \in InPlaceKinds /\ direct # "no"
        /\ direct' = "yes"
        /\ verify' = IF direct = "unknown" /\ entry.kind # "tar" THEN "running" ELSE verify
        /\ Reads(r, "gate")
     \/ /\ entry.kind \notin InPlaceKinds \/ direct # "yes"
        /\ Reads(r, "extract") /\ UNCHANGED <<direct, verify>>
  /\ UNCHANGED <<entry, inflight, extracted, flight, teardown>>

\* archiveRunVerify. A verification that cannot read the archive, or is cancelled,
\* has no verdict.
Verified ==
  /\ verify = "running"
  /\ \/ teardown = "no" /\ verify' = (IF entry.content = "good" THEN "ok" ELSE "mismatch")
     \/ verify' = "failed"
  /\ UNCHANGED <<entry, direct, inflight, extracted, flight, reader, teardown>>

\* archiveOpenInPlace: a small entry waits for the verdict, a large one is served
\* behind a gate.
Gate(r) ==
  /\ reader[r].at = "gate"
  /\ entry.kind = "small" => verify # "running"
  /\ \/ /\ verify \in {"running", "ok", "off"}
        /\ reader' = [reader EXCEPT ![r].at = "section", ![r].gated = (verify = "running")]
        /\ UNCHANGED direct
     \/ verify = "mismatch" /\ Ends(r, "error") /\ UNCHANGED direct
     \/ verify = "failed" /\ direct' = "no" /\ Reads(r, "extract")
  /\ UNCHANGED <<entry, verify, inflight, extracted, flight, teardown>>

\* Where a reader stands after n more chunks.
Advanced(r, n) ==
  IF reader[r].pos + n < reader[r].end THEN [reader[r] EXCEPT !.pos = @ + n]
  ELSE NoReader(IF reader[r].end = EntrySize THEN "whole" ELSE "part")

\* Mutant: the gate is at the chunk after the last.
SectionReadLate(r) ==
  /\ reader[r].at = "section"
  /\ \E n \in 1 .. reader[r].end - reader[r].pos :
       IF reader[r].gated /\ reader[r].pos + n > EntrySize
       THEN verify # "running" /\ Ends(r, "cut")
       ELSE reader' = [reader EXCEPT ![r] = Advanced(r, n)]
  /\ UNCHANGED <<entry, direct, verify, inflight, extracted, flight, teardown>>

\* archiveSectionFile.Read: a gated read that reaches the last byte waits for the
\* verdict.
SectionRead(r) ==
  /\ reader[r].at = "section"
  /\ \E n \in 1 .. reader[r].end - reader[r].pos :
       IF reader[r].gated /\ reader[r].pos + n >= EntrySize
       THEN \/ verify = "ok" /\ reader' = [reader EXCEPT ![r] = [Advanced(r, n) EXCEPT !.gated = FALSE]]
            \/ verify \in {"mismatch", "failed"} /\ Ends(r, "cut")
       ELSE reader' = [reader EXCEPT ![r] = Advanced(r, n)]
  /\ UNCHANGED <<entry, direct, verify, inflight, extracted, flight, teardown>>

-----------------------------------------------------------------------------
(* Extraction: readers *)

\* archiveStartExtract: the cached copy, the extraction in progress, or a new one.
\* An entry that is declared too large, or not there, is an error at once.
StartExtract(r) ==
  /\ reader[r].at = "extract"
  /\ \/ extracted # 0 /\ Reads(r, "file") /\ UNCHANGED <<inflight, flight>>
     \/ /\ extracted = 0 /\ inflight # 0
        /\ reader' = [reader EXCEPT ![r].at = "join", ![r].fl = inflight]
        /\ UNCHANGED <<inflight, flight>>
     \/ /\ extracted = 0 /\ inflight = 0
        /\ \E f \in Flights :
             /\ flight[f].st = "none" /\ \A g \in 1 .. f - 1 : flight[g].st # "none"
             /\ flight' = [flight EXCEPT ![f].st = "run"] /\ inflight' = f
             /\ reader' = [reader EXCEPT ![r].at = "join", ![r].fl = f]
     \/ extracted = 0 /\ inflight = 0 /\ Ends(r, "error") /\ UNCHANGED <<inflight, flight>>
  /\ UNCHANGED <<entry, direct, verify, extracted, teardown>>

Finished(f) == flight[f].st \in {"ok", "err"}
Dropped(f) == flight[f].st \in {"dropped", "failing", "err"}

\* A reader's handle is closed: the last one out removes the file of a failed
\* extraction (releaseReader).
Released(f) == [flight[f] EXCEPT !.readers = @ - 1, !.gone = @ \/ (Dropped(f) /\ flight[f].readers = 1)]

\* An entry without a declared size is served when it is out; otherwise the reader
\* registers before it opens the file (acquireReader), or finds it dropped and
\* waits for the error.
JoinFlight(r) ==
  LET f == reader[r].fl IN
  /\ reader[r].at = "join"
  /\ \/ /\ entry.kind = "streamed" /\ Finished(f)
        /\ (IF flight[f].st = "ok" THEN Reads(r, "file") ELSE Ends(r, "error"))
        /\ UNCHANGED flight
     \/ /\ entry.kind # "streamed" /\ Dropped(f) /\ Finished(f)
        /\ Ends(r, "error") /\ UNCHANGED flight
     \/ /\ entry.kind # "streamed" /\ ~Dropped(f)
        /\ flight' = [flight EXCEPT ![f].readers = @ + 1] /\ Reads(r, "first")
  /\ UNCHANGED <<entry, direct, verify, inflight, extracted, teardown>>

\* Close, then end.
Leave(r, how) == flight' = [flight EXCEPT ![reader[r].fl] = Released(reader[r].fl)] /\ Ends(r, how)

\* The first chunk, so that an entry that cannot be decoded is an error and not a
\* broken response (waitFor).
FirstChunk(r) ==
  LET f == reader[r].fl IN
  /\ reader[r].at = "first"
  /\ \/ flight[f].st = "err" /\ Leave(r, "error")
     \/ flight[f].st # "err" /\ flight[f].written >= 1 /\ Reads(r, "progress") /\ UNCHANGED flight
  /\ UNCHANGED <<entry, direct, verify, inflight, extracted, teardown>>

\* Mutant: the last chunk goes out as soon as it is on disk.
ProgressReadEager(r) ==
  LET f == reader[r].fl IN
  /\ reader[r].at = "progress"
  /\ \/ flight[f].st = "err" /\ Leave(r, "cut")
     \/ /\ flight[f].st # "err"
        /\ \E n \in 1 .. reader[r].end - reader[r].pos :
             /\ reader[r].pos + n <= flight[f].written
             /\ LET to == Advanced(r, n) IN
                /\ reader' = [reader EXCEPT ![r] = to]
                /\ flight' = IF to.at \in Ended THEN [flight EXCEPT ![f] = Released(f)] ELSE flight
  /\ UNCHANGED <<entry, direct, verify, inflight, extracted, teardown>>

\* archiveProgressReader.Read: what is on disk, the last chunk only once the
\* extraction has ended well.
ProgressRead(r) ==
  LET f == reader[r].fl IN
  /\ reader[r].at = "progress"
  /\ \/ flight[f].st = "err" /\ Leave(r, "cut")
     \/ /\ flight[f].st # "err"
        /\ \E n \in 1 .. reader[r].end - reader[r].pos :
             /\ reader[r].pos + n <= flight[f].written
             /\ reader[r].pos + n >= EntrySize => Finished(f)
             /\ LET to == Advanced(r, n) IN
                /\ reader' = [reader EXCEPT ![r] = to]
                /\ flight' = IF to.at \in Ended THEN [flight EXCEPT ![f] = Released(f)] ELSE flight
  /\ UNCHANGED <<entry, direct, verify, inflight, extracted, teardown>>

\* A complete copy is read like any file.
FileRead(r) ==
  /\ reader[r].at = "file"
  /\ reader' = [reader EXCEPT ![r] = Advanced(r, reader[r].end - reader[r].pos)]
  /\ UNCHANGED <<entry, direct, verify, inflight, extracted, flight, teardown>>

\* The client has gone; a registered reader closes its handle first.
ClientGone(r) ==
  /\ Busy(r)
  /\ IF reader[r].at \in {"first", "progress"} THEN Leave(r, "cut") ELSE Ends(r, "cut") /\ UNCHANGED flight
  /\ UNCHANGED <<entry, direct, verify, inflight, extracted, teardown>>

-----------------------------------------------------------------------------
(* Extraction: its goroutine *)

\* archiveCopyEntry: a chunk is written and published.
CopyChunk(f) ==
  /\ flight[f].st = "run" /\ teardown = "no" /\ flight[f].written < EntrySize
  /\ flight' = [flight EXCEPT ![f].written = @ + 1]
  /\ UNCHANGED <<entry, direct, verify, inflight, extracted, reader, teardown>>

\* Mutant: the file of a failed extraction goes at once.
DropAtOnce(f) == [flight[f] EXCEPT !.st = "dropped", !.gone = TRUE]

\* dropFile: while somebody has it open the file stays.
DropFile(f) == [flight[f] EXCEPT !.st = "dropped", !.gone = (flight[f].readers = 0)]

\* The copy ends. It fails if the content does not check out or runs past its
\* declared size, and may fail at any point, as it does when it is cancelled.
CopyEnds(f) ==
  /\ flight[f].st = "run"
  /\ \/ /\ flight[f].written = EntrySize /\ entry.content = "good"
        /\ flight' = [flight EXCEPT ![f].st = "copied"]
     \/ flight' = [flight EXCEPT ![f] = DropFile(f)]
  /\ UNCHANGED <<entry, direct, verify, inflight, extracted, reader, teardown>>

\* Then the session learns of it ...
Record(f) ==
  /\ flight[f].st \in {"copied", "dropped"}
  /\ inflight' = 0
  /\ extracted' = IF flight[f].st = "copied" THEN f ELSE extracted
  /\ flight' = [flight EXCEPT ![f].st = IF @ = "copied" THEN "cached" ELSE "failing"]
  /\ UNCHANGED <<entry, direct, verify, reader, teardown>>

\* Mutant: a failed extraction leaves its readers to themselves.
FinishOnlySuccess(f) ==
  /\ flight[f].st = "cached"
  /\ flight' = [flight EXCEPT ![f].st = "ok"]
  /\ UNCHANGED <<entry, direct, verify, inflight, extracted, reader, teardown>>

\* ... and whoever waits (finish).
FinishFlight(f) ==
  /\ flight[f].st \in {"cached", "failing"}
  /\ flight' = [flight EXCEPT ![f].st = IF @ = "cached" THEN "ok" ELSE "err"]
  /\ UNCHANGED <<entry, direct, verify, inflight, extracted, reader, teardown>>

-----------------------------------------------------------------------------
(* archiveDestroySession, of a session nobody reads *)

Cancel ==
  /\ teardown = "no" /\ \A r \in Readers : ~Busy(r)
  /\ teardown' = "cancelled"
  /\ UNCHANGED <<entry, direct, verify, inflight, extracted, flight, reader>>

\* Its goroutines have stopped, and every file goes. (After archiveDestroyWait the
\* files go regardless.)
RemoveFiles ==
  /\ teardown = "cancelled" /\ verify # "running" /\ \A f \in Flights : flight[f].st = "none" \/ Finished(f)
  /\ teardown' = "done"
  /\ UNCHANGED <<entry, direct, verify, inflight, extracted, flight, reader>>

-----------------------------------------------------------------------------
ReaderStep(r) ==
  \/ OpenEntry(r) \/ Gate(r) \/ SectionRead(r) \/ StartExtract(r) \/ JoinFlight(r) \/ FirstChunk(r)
  \/ ProgressRead(r) \/ FileRead(r)

FlightStep(f) == CopyChunk(f) \/ CopyEnds(f) \/ Record(f) \/ FinishFlight(f)

EntryNext ==
  \/ \E r \in Readers : EntryStart(r) \/ ReaderStep(r) \/ ClientGone(r)
  \/ \E f \in Flights : FlightStep(f)
  \/ Verified \/ Cancel \/ RemoveFiles

\* Goroutines run and reads of files end. That a client goes away is not assumed.
EntryFairness ==
  /\ \A r \in Readers : WF_entryVars(ReaderStep(r))
  /\ \A f \in Flights : WF_entryVars(FlightStep(f))
  /\ WF_entryVars(Verified \/ RemoveFiles)

EntrySpec == EntryInit /\ [][EntryNext]_entryVars /\ EntryFairness

-----------------------------------------------------------------------------
(* Properties *)

\* Every variable has its type.
EntryTypeOK ==
  /\ direct \in {"unknown", "yes", "no"} /\ verify \in {"off", "running", "ok", "mismatch", "failed"}
  /\ inflight \in {0} \cup Flights /\ extracted \in {0} \cup Flights
  /\ flight \in [Flights -> [st : {"none", "run", "copied", "dropped", "cached", "failing", "ok", "err"},
                             written : 0 .. EntrySize, readers : 0 .. NumReaders, gone : BOOLEAN]]
  /\ reader \in [Readers -> [at : Ended \cup {"idle", "open", "gate", "section", "extract", "join", "first", "progress", "file"},
                             pos : 0 .. EntrySize, end : 0 .. EntrySize, fl : {0} \cup Flights, gated : BOOLEAN]]

\* No file is deleted while a handle on it is open (Windows would refuse, and the
\* file stay): neither its writer's nor a reader's; and the cached copy is there.
NoOpenFileRemoved ==
  /\ \A f \in Flights : flight[f].gone =>
       /\ flight[f].st # "run"
       /\ \A r \in Readers : reader[r].at \in {"first", "progress"} => reader[r].fl # f
  /\ extracted # 0 => ~flight[extracted].gone

\* A response that reaches the end of an entry with a checksum is not clean unless
\* the entry is: corrupt and over-long ones end in an error or are cut, whether
\* they are served in place or extracted, before, while and after the check; and the
\* file it is read from is there until then.
WholeIsGood ==
  /\ EntryTypeOK /\ NoOpenFileRemoved
  /\ \A r \in Readers : reader[r].at = "whole" /\ entry.kind # "tar" => entry.content = "good"

\* Reached and kept in the end: every response has ended, whatever became of the
\* extraction or the verification it waited for, and the files of failed extractions are
\* gone.
EntrySettled ==
  /\ \A r \in Readers : ~Busy(r)
  /\ \A f \in Flights : flight[f].st = "err" => flight[f].gone

=============================================================================
