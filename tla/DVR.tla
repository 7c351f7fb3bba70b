-------------------------------- MODULE DVR --------------------------------
(***************************************************************************)
(* The recorder of live streams (internal/dvr/dvr.go): the manager, one    *)
(* supervisor per ffmpeg process, the callers of Stop and Delete, the      *)
(* retention janitor, shutdown, and a crash followed by a restart that     *)
(* finds the sidecars and media files of the previous process; and the     *)
(* player that follows a growing recording (internal/api/record.go).       *)
(*                                                                         *)
(* Manager.mu is held from start to end of an operation, but a crash may   *)
(* hit between two file operations, so those are steps of their own and    *)
(* `mu' says which operation is in between. Names, URLs and times are      *)
(* abstract: a timer may fire at any time.                                 *)
(***************************************************************************)
EXTENDS Integers, FiniteSets

CONSTANTS
  Ids,          \* the ids newID generates; never the same one twice
  Sources,      \* source URLs after Redact
  Clients,      \* requests that stop or delete
  Followers,    \* players following an active recording
  MaxActive, MaxBytes,   \* Config; MaxBytes = 0 means unlimited
  Nil,
  MaxSize,      \* bound: bytes one recorder writes
  MaxCrashes,   \* bound: crashes
  MayHang       \* whether a killed recorder may stay alive

Final == {"completed", "stopped", "failed"}
Active == {"starting", "recording"}

ASSUME DVRAssumption ==
  /\ MaxActive \in Nat \ {0} /\ MaxBytes \in Nat /\ MaxSize \in Nat \ {0} /\ MaxCrashes \in Nat
  /\ MayHang \in BOOLEAN /\ Nil \notin Ids \cup Sources \cup [op : {"start", "remove"}, id : Ids] /\ IsFiniteSet(Ids)

VARIABLES
  up, closing,       \* the process runs; Close was not called, waits or is done
  used,              \* ids given out
  status, source, stopReq, finished, size,   \* the entries of m.recs; status "none" when absent
  sup, capped,       \* the supervisors
  mu,                \* Nil, or the operation between two file operations: [op, id]
  side,              \* disk: the status in the sidecar, or "none"
  media,             \* disk: ids with a media file
  proc, opened, bytes, limit,          \* the recorders: state, output opened, bytes written, -fs
  client,            \* client -> [pc, id, del]
  follower,          \* follower -> [pc, id, sent]
  crashes

recs  == <<status, source, stopReq, finished, size>>
sups  == <<sup, capped>>
disk  == <<side, media>>
procs == <<proc, opened, bytes, limit>>
users == <<client, follower>>
vars  == <<up, closing, used, recs, sups, mu, disk, procs, users, crashes>>

IdleClient   == [pc |-> "idle", id |-> Nil, del |-> FALSE]
IdleFollower == [pc |-> "idle", id |-> Nil, sent |-> 0]

Init ==
  /\ up = TRUE /\ closing = "no" /\ used = {} /\ mu = Nil /\ crashes = 0
  /\ status = [i \in Ids |-> "none"] /\ source = [i \in Ids |-> Nil]
  /\ stopReq = [i \in Ids |-> FALSE] /\ finished = [i \in Ids |-> FALSE] /\ size = [i \in Ids |-> 0]
  /\ sup = [i \in Ids |-> "none"] /\ capped = [i \in Ids |-> FALSE]
  /\ side = [i \in Ids |-> "none"] /\ media = {}
  /\ proc = [i \in Ids |-> "none"] /\ opened = [i \in Ids |-> FALSE]
  /\ bytes = [i \in Ids |-> 0] /\ limit = [i \in Ids |-> 0]
  /\ client = [c \in Clients |-> IdleClient]
  /\ follower = [f \in Followers |-> IdleFollower]

Locked == up /\ mu = Nil     \* Manager.mu can be taken

ActiveIds == {i \in Ids : status[i] \in Active}

\* usedBytesLocked: what the files of the listed recordings hold.
Stored == {x \in Ids \X (1 .. MaxSize) : status[x[1]] # "none" /\ x[1] \in media /\ x[2] <= bytes[x[1]]}
UsedBytes == Cardinality(Stored)

-----------------------------------------------------------------------------
(* Start *)

\* Mutant: the recorder is started without -fs.
StartNoLimit(i, u) ==
  /\ Locked /\ closing = "no" /\ i \notin used
  /\ \A j \in ActiveIds : source[j] # u
  /\ Cardinality(ActiveIds) < MaxActive
  /\ MaxBytes = 0 \/ UsedBytes < MaxBytes
  /\ used' = used \cup {i}
  /\ limit' = [limit EXCEPT ![i] = MaxSize]
  /\ source' = [source EXCEPT ![i] = u]
  /\ side' = [side EXCEPT ![i] = "starting"]
  /\ mu' = [op |-> "start", id |-> i]
  /\ UNCHANGED <<up, closing, status, stopReq, finished, size, sups, media, proc, opened, bytes, users, crashes>>

\* Mutant: ids are made from the clock alone, and a deleted one may come again.
StartReusedId(i, u) ==
  /\ Locked /\ closing = "no" /\ status[i] = "none"
  /\ \A j \in ActiveIds : source[j] # u
  /\ Cardinality(ActiveIds) < MaxActive
  /\ MaxBytes = 0 \/ UsedBytes < MaxBytes
  /\ used' = used \cup {i}
  /\ limit' = [limit EXCEPT ![i] = IF MaxBytes = 0 THEN MaxSize ELSE MaxBytes - UsedBytes]
  /\ source' = [source EXCEPT ![i] = u]
  /\ side' = [side EXCEPT ![i] = "starting"]
  /\ mu' = [op |-> "start", id |-> i]
  /\ UNCHANGED <<up, closing, status, stopReq, finished, size, sups, media, proc, opened, bytes, users, crashes>>

\* The checks, then the sidecar.
Start(i, u) ==
  /\ Locked /\ closing = "no" /\ i \notin used
  /\ \A j \in ActiveIds : source[j] # u
  /\ Cardinality(ActiveIds) < MaxActive
  /\ MaxBytes = 0 \/ UsedBytes < MaxBytes
  /\ used' = used \cup {i}
  /\ limit' = [limit EXCEPT ![i] = IF MaxBytes = 0 THEN MaxSize ELSE MaxBytes - UsedBytes]
  /\ source' = [source EXCEPT ![i] = u]
  /\ side' = [side EXCEPT ![i] = "starting"]
  /\ mu' = [op |-> "start", id |-> i]
  /\ UNCHANGED <<up, closing, status, stopReq, finished, size, sups, media, proc, opened, bytes, users, crashes>>

\* ffmpeg runs, the entry is listed and supervised; the second sidecar write may fail unnoticed.
StartProc ==
  /\ up /\ mu # Nil /\ mu.op = "start"
  /\ LET i == mu.id IN
     /\ proc' = [proc EXCEPT ![i] = "run"]
     /\ status' = [status EXCEPT ![i] = "recording"]
     /\ sup' = [sup EXCEPT ![i] = "wait"]
     /\ side' \in {side, [side EXCEPT ![i] = "recording"]}
  /\ mu' = Nil
  /\ UNCHANGED <<up, closing, used, source, stopReq, finished, size, capped, media, opened, bytes, limit, users, crashes>>

\* ffmpeg cannot be started: the sidecar goes.
StartFails ==
  /\ up /\ mu # Nil /\ mu.op = "start"
  /\ side' = [side EXCEPT ![mu.id] = "none"]
  /\ source' = [source EXCEPT ![mu.id] = Nil]
  /\ mu' = Nil
  /\ UNCHANGED <<up, closing, used, status, stopReq, finished, size, sups, media, procs, users, crashes>>

-----------------------------------------------------------------------------
(* The recorder process *)

OpenOutput(i) ==
  /\ proc[i] = "run" /\ ~opened[i]
  /\ opened' = [opened EXCEPT ![i] = TRUE] /\ media' = media \cup {i}
  /\ UNCHANGED <<up, closing, used, recs, sups, mu, side, proc, bytes, limit, users, crashes>>

\* It goes on writing to an open file that was removed.
WriteOutput(i) ==
  /\ proc[i] = "run" /\ opened[i] /\ bytes[i] < limit[i] /\ bytes[i] < MaxSize
  /\ bytes' = [bytes EXCEPT ![i] = @ + 1]
  /\ UNCHANGED <<up, closing, used, recs, sups, mu, disk, proc, opened, limit, users, crashes>>

\* The source ends, -t or -fs is reached, it is told to quit, or it fails.
ProcExit(i, how) ==
  /\ proc[i] = "run"
  /\ proc' = [proc EXCEPT ![i] = how]
  /\ UNCHANGED <<up, closing, used, recs, sups, mu, disk, opened, bytes, limit, users, crashes>>

-----------------------------------------------------------------------------
(* supervise and halt *)

Exited(i) == proc[i] \in {"ok", "err"}

SetSup(i, l) == sup' = [sup EXCEPT ![i] = l]

\* Mutant: the watchdog never fires.
SuperviseNoCap(i) ==
  /\ up /\ sup[i] = "wait"
  /\ \/ Exited(i) /\ SetSup(i, "final")
     \/ stopReq[i] /\ SetSup(i, "quit")
  /\ UNCHANGED <<up, closing, used, recs, capped, mu, disk, procs, users, crashes>>

\* The select: the recorder ended, the wall-clock cap fired, or a stop was asked for.
Supervise(i) ==
  /\ up /\ sup[i] = "wait"
  /\ \/ Exited(i) /\ SetSup(i, "final") /\ UNCHANGED capped
     \/ SetSup(i, "quit") /\ capped' = [capped EXCEPT ![i] = TRUE]
     \/ stopReq[i] /\ SetSup(i, "quit") /\ UNCHANGED capped
  /\ UNCHANGED <<up, closing, used, recs, mu, disk, procs, users, crashes>>

\* halt: Quit, then Kill when StopGrace is over.
Halt(i) ==
  /\ up /\ sup[i] = "quit"
  /\ \/ Exited(i) /\ SetSup(i, "final")
     \/ SetSup(i, "kill")
  /\ UNCHANGED <<up, closing, used, recs, capped, mu, disk, procs, users, crashes>>

\* Mutant: it waits for a killed recorder for ever.
HaltKilledWaits(i) ==
  /\ up /\ sup[i] = "kill" /\ Exited(i)
  /\ SetSup(i, "final")
  /\ UNCHANGED <<up, closing, used, recs, capped, mu, disk, procs, users, crashes>>

\* ... and give up on a recorder that survives that.
HaltKilled(i) ==
  /\ up /\ sup[i] = "kill"
  /\ Exited(i) \/ MayHang
  /\ SetSup(i, "final")
  /\ UNCHANGED <<up, closing, used, recs, capped, mu, disk, procs, users, crashes>>

\* Mutant: a recorder that failed by itself gets no status.
OutcomeUnset(i) ==
  IF stopReq[i] THEN "stopped"
  ELSE IF capped[i] \/ proc[i] = "ok" THEN "completed" ELSE "unset"

Outcome(i) ==
  IF stopReq[i] THEN "stopped"
  ELSE IF capped[i] \/ proc[i] = "ok" THEN "completed" ELSE "failed"

\* The final state: an empty file goes unless the user stopped it; the sidecar
\* write may fail unnoticed.
Finalise(i) ==
  /\ Locked /\ sup[i] = "final"
  /\ status' = [status EXCEPT ![i] = Outcome(i)]
  /\ media' = IF bytes[i] = 0 /\ Outcome(i) # "stopped" THEN media \ {i} ELSE media
  /\ side' \in {side, [side EXCEPT ![i] = Outcome(i)]}
  /\ finished' = [finished EXCEPT ![i] = TRUE]
  /\ size' = [size EXCEPT ![i] = IF i \in media THEN bytes[i] ELSE @]
  /\ SetSup(i, "none")
  /\ UNCHANGED <<up, closing, used, source, stopReq, capped, mu, procs, users, crashes>>

-----------------------------------------------------------------------------
(* Stop, Delete, sweep, Close *)

SetC(c, rec) == client' = [client EXCEPT ![c] = rec]

\* Stop, alone or at the start of Delete; a recording that is not active needs no stop.
Stop(c, i, del) ==
  /\ Locked /\ client[c].pc = "idle"
  /\ \/ /\ status[i] \in Active
        /\ stopReq' = [stopReq EXCEPT ![i] = TRUE]
        /\ SetC(c, [pc |-> "wait", id |-> i, del |-> del])
     \/ /\ del /\ status[i] \in Final
        /\ UNCHANGED stopReq
        /\ SetC(c, [pc |-> "delete", id |-> i, del |-> TRUE])
  /\ UNCHANGED <<up, closing, used, status, source, finished, size, sups, mu, disk, procs, follower, crashes>>

StopReturns(c) ==
  /\ up /\ client[c].pc = "wait" /\ finished[client[c].id]
  /\ IF client[c].del THEN SetC(c, [client[c] EXCEPT !.pc = "delete"]) ELSE Locked /\ SetC(c, IdleClient)
  /\ UNCHANGED <<up, closing, used, recs, sups, mu, disk, procs, follower, crashes>>

\* Mutant: only the sidecar is removed.
RemoveMediaNot(i) == UNCHANGED media /\ mu' = [op |-> "remove", id |-> i]

\* removeFiles takes the media file first ...
RemoveMedia(i) == media' = media \ {i} /\ mu' = [op |-> "remove", id |-> i]

\* Delete's own section; another Delete or the sweep may have been faster.
Delete(c) ==
  /\ Locked /\ client[c].pc = "delete"
  /\ IF status[client[c].id] = "none" THEN UNCHANGED <<media, mu>> ELSE RemoveMedia(client[c].id)
  /\ SetC(c, IdleClient)
  /\ UNCHANGED <<up, closing, used, recs, sups, side, procs, follower, crashes>>

\* sweep: a finished recording past its retention. The janitor may still run
\* once while Close waits.
Sweep(i) ==
  /\ Locked /\ closing # "done" /\ status[i] \in Final
  /\ RemoveMedia(i)
  /\ UNCHANGED <<up, closing, used, recs, sups, side, procs, users, crashes>>

\* ... then the sidecar, and the entry.
RemoveSidecar ==
  /\ up /\ mu # Nil /\ mu.op = "remove"
  /\ side' = [side EXCEPT ![mu.id] = "none"]
  /\ status' = [status EXCEPT ![mu.id] = "none"]
  /\ source' = [source EXCEPT ![mu.id] = Nil]
  /\ mu' = Nil
  /\ UNCHANGED <<up, closing, used, stopReq, finished, size, sups, media, procs, users, crashes>>

Close ==
  /\ Locked /\ closing = "no"
  /\ closing' = "wait"
  /\ stopReq' = [i \in Ids |-> stopReq[i] \/ status[i] \in Active]
  /\ UNCHANGED <<up, used, status, source, finished, size, sups, mu, disk, procs, users, crashes>>

CloseReturns ==
  /\ up /\ closing = "wait"
  /\ \A i \in Ids : sup[i] = "none"
  /\ closing' = "done"
  /\ UNCHANGED <<up, used, recs, sups, mu, disk, procs, users, crashes>>

-----------------------------------------------------------------------------
(* Crash and restart *)

\* Everything in memory is lost. A recorder that reads this server may live on
\* once it has opened its output.
Crash ==
  /\ up /\ crashes < MaxCrashes
  /\ up' = FALSE /\ crashes' = crashes + 1
  /\ \E alive \in SUBSET {i \in Ids : proc[i] = "run" /\ opened[i]} :
       proc' = [i \in Ids |-> IF proc[i] = "run" /\ i \notin alive THEN "err" ELSE proc[i]]
  /\ closing' = "no" /\ mu' = Nil
  /\ status' = [i \in Ids |-> "none"] /\ source' = [i \in Ids |-> Nil]
  /\ stopReq' = [i \in Ids |-> FALSE] /\ finished' = [i \in Ids |-> FALSE]
  /\ sup' = [i \in Ids |-> "none"] /\ capped' = [i \in Ids |-> FALSE]
  /\ client' = [c \in Clients |-> IdleClient] /\ follower' = [f \in Followers |-> IdleFollower]
  /\ UNCHANGED <<used, size, disk, opened, bytes, limit>>

Interrupted == {i \in Ids : side[i] \in Active}

\* Mutant: recordings the crash interrupted are loaded as they are.
LoadAsIs ==
  /\ ~up /\ up' = TRUE
  /\ status' = side
  /\ finished' = [i \in Ids |-> side[i] # "none"]
  /\ UNCHANGED <<closing, used, source, stopReq, size, sups, mu, disk, procs, users, crashes>>

\* load: an interrupted recording is failed, and its file removed when empty.
\* The write of a new sidecar may fail unnoticed.
Load ==
  /\ ~up /\ up' = TRUE
  /\ status' = [i \in Ids |-> IF i \in Interrupted THEN "failed" ELSE side[i]]
  /\ finished' = [i \in Ids |-> side[i] # "none"]
  /\ media' = media \ {i \in Interrupted : bytes[i] = 0}
  /\ size' = [i \in Ids |-> IF i \in media THEN bytes[i] ELSE IF i \in Interrupted THEN 0 ELSE size[i]]
  /\ \E written \in SUBSET Interrupted :
       side' = [i \in Ids |-> IF i \in written THEN "failed" ELSE side[i]]
  /\ UNCHANGED <<closing, used, source, stopReq, sups, mu, procs, users, crashes>>

-----------------------------------------------------------------------------
(* followRecording *)

SetF(f, rec) == follower' = [follower EXCEPT ![f] = rec]

\* serveRecording of an active recording: Open looks it up under the lock ...
Follow(f, i) ==
  /\ Locked /\ follower[f].pc = "idle" /\ status[i] \in Active
  /\ SetF(f, [pc |-> "open", id |-> i, sent |-> 0])
  /\ UNCHANGED <<up, closing, used, recs, sups, mu, disk, procs, client, crashes>>

\* ... and opens the file, if it is there, after the unlock.
FollowOpen(f) ==
  /\ up /\ follower[f].pc = "open"
  /\ \/ follower[f].id \in media /\ SetF(f, [follower[f] EXCEPT !.pc = "read"])
     \/ follower[f].id \notin media /\ SetF(f, IdleFollower)
  /\ UNCHANGED <<up, closing, used, recs, sups, mu, disk, procs, client, crashes>>

\* Read and send; the end of the file leads to a look at the recording's state.
FollowRead(f) ==
  /\ up /\ follower[f].pc = "read"
  /\ IF follower[f].sent < bytes[follower[f].id]
     THEN SetF(f, [follower[f] EXCEPT !.sent = @ + 1])
     ELSE SetF(f, [follower[f] EXCEPT !.pc = "check"])
  /\ UNCHANGED <<up, closing, used, recs, sups, mu, disk, procs, client, crashes>>

\* Mutant: the response ends without another read.
FollowCheckNoDrain(f) ==
  /\ Locked /\ follower[f].pc = "check"
  /\ SetF(f, [follower[f] EXCEPT !.pc = IF status[follower[f].id] \in Active THEN "read" ELSE "done"])
  /\ UNCHANGED <<up, closing, used, recs, sups, mu, disk, procs, client, crashes>>

\* IsActive: wait for more, or drain what was flushed last.
FollowCheck(f) ==
  /\ Locked /\ follower[f].pc = "check"
  /\ SetF(f, [follower[f] EXCEPT !.pc = IF status[follower[f].id] \in Active THEN "read" ELSE "drain"])
  /\ UNCHANGED <<up, closing, used, recs, sups, mu, disk, procs, client, crashes>>

FollowDrain(f) ==
  /\ up /\ follower[f].pc = "drain"
  /\ IF follower[f].sent < bytes[follower[f].id]
     THEN SetF(f, [follower[f] EXCEPT !.sent = @ + 1])
     ELSE SetF(f, [follower[f] EXCEPT !.pc = "done"])
  /\ UNCHANGED <<up, closing, used, recs, sups, mu, disk, procs, client, crashes>>

\* The player has the end of the stream and leaves, or leaves before.
FollowLeaves(f) ==
  /\ up /\ follower[f].pc # "idle"
  /\ SetF(f, IdleFollower)
  /\ UNCHANGED <<up, closing, used, recs, sups, mu, disk, procs, client, crashes>>

-----------------------------------------------------------------------------
Next ==
  \/ \E i \in Ids :
       \/ \E u \in Sources : Start(i, u)
       \/ OpenOutput(i) \/ WriteOutput(i) \/ ProcExit(i, "ok") \/ ProcExit(i, "err")
       \/ Supervise(i) \/ Halt(i) \/ HaltKilled(i) \/ Finalise(i) \/ Sweep(i)
       \/ \E c \in Clients, del \in BOOLEAN : Stop(c, i, del)
       \/ \E f \in Followers : Follow(f, i)
  \/ StartProc \/ StartFails \/ RemoveSidecar \/ Close \/ CloseReturns \/ Crash \/ Load
  \/ \E c \in Clients : StopReturns(c) \/ Delete(c)
  \/ \E f \in Followers : FollowOpen(f) \/ FollowRead(f) \/ FollowCheck(f) \/ FollowDrain(f) \/ FollowLeaves(f)

Spec == Init /\ [][Next]_vars

\* Goroutines and timers run; the recorder itself may do nothing for ever.
FairSpec ==
  /\ Spec
  /\ \A i \in Ids : /\ WF_vars(Supervise(i)) /\ WF_vars(Halt(i)) /\ SF_vars(Finalise(i))
                    /\ WF_vars(HaltKilled(i)) /\ WF_vars(sup[i] = "kill" /\ ~MayHang /\ ProcExit(i, "err"))
  /\ WF_vars(StartProc \/ StartFails) /\ WF_vars(RemoveSidecar) /\ WF_vars(CloseReturns)
  /\ \A c \in Clients : SF_vars(StopReturns(c)) /\ SF_vars(Delete(c))

-----------------------------------------------------------------------------
(* Properties *)

\* Every variable has its type.
TypeOK ==
  /\ up \in BOOLEAN /\ closing \in {"no", "wait", "done"} /\ used \subseteq Ids /\ crashes \in Nat
  /\ status \in [Ids -> {"none"} \cup Active \cup Final] /\ side \in [Ids -> {"none"} \cup Active \cup Final]
  /\ source \in [Ids -> Sources \cup {Nil}]
  /\ stopReq \in [Ids -> BOOLEAN] /\ finished \in [Ids -> BOOLEAN] /\ capped \in [Ids -> BOOLEAN]
  /\ sup \in [Ids -> {"none", "wait", "quit", "kill", "final"}]
  /\ mu = Nil \/ mu \in [op : {"start", "remove"}, id : Ids]
  /\ media \subseteq Ids /\ opened \in [Ids -> BOOLEAN]
  /\ proc \in [Ids -> {"none", "run", "ok", "err"}]
  /\ size \in [Ids -> Nat] /\ bytes \in [Ids -> Nat] /\ limit \in [Ids -> Nat]
  /\ client \in [Clients -> [pc : {"idle", "wait", "delete"}, id : Ids \cup {Nil}, del : BOOLEAN]]
  /\ follower \in [Followers -> [pc : {"idle", "open", "read", "check", "drain", "done"}, id : Ids \cup {Nil}, sent : Nat]]

\* The durable state of a recording, read off the disk.
Phase == [i \in Ids |-> IF i \notin used THEN "new"
                        ELSE IF side[i] = "none" THEN "gone"
                        ELSE IF side[i] \in Active THEN "live" ELSE "kept"]

Abstract == INSTANCE Recordings WITH phase <- Phase

\* On disk every recording is begun once, finished at most once and never comes
\* back once deleted, whatever deletes, sweeps, supervisors and crashes overlap.
Durable == Abstract!Spec

\* A media file always has a sidecar, at every point a crash can hit: no file
\* is left that no later process lists, counts or deletes.
NoOrphanMedia == \A i \in media : side[i] # "none"

\* A listed recording is active exactly while a supervisor looks after it:
\* nothing a restart loads waits for a recorder that is gone.
ActiveSupervised ==
  \A i \in Ids : /\ status[i] \in Active <=> sup[i] # "none"
                 /\ status[i] \in Final => finished[i]

\* A player that follows a recording to its end has got all of it: no less than
\* the size the recording is listed with from then on.
FollowerComplete ==
  \A f \in Followers : follower[f].pc = "done" => follower[f].sent >= size[follower[f].id]

\* Stop and Delete return, whatever the recorder does.
StopEnds == \A c \in Clients : []<>(client[c].pc = "idle")

\* Every recording ends: the watchdog stops a recorder that stalls.
RecordingEnds == \A i \in Ids : []<>(status[i] \notin Active)

\* Close returns.
CloseEnds == []<>(closing # "wait")

\* Nothing a client or the operator asked for hangs on a recorder that neither answers nor
\* dies: calls, recordings and the shutdown all end (Stop, Delete, supervise, Close).
NothingHangs == StopEnds /\ RecordingEnds /\ CloseEnds

\* Each recorder is given the space left when it starts and nothing is reserved, and a
\* recorder that outlives a crash is not known to the next process. So MaxBytes may be
\* exceeded, but by no more than one MaxBytes for every recorder that may run beside the
\* last one: those of this process and those each crash may have left (Manager.Start).
QuotaHeld == MaxBytes > 0 /\ ~MayHang => UsedBytes <= (1 + crashes) * MaxActive * MaxBytes

=============================================================================
