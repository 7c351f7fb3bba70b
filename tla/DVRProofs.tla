----------------------------- MODULE DVRProofs -----------------------------
(***************************************************************************)
(* What DVR.tla keeps for any number of recordings, clients and crashes.   *)
(* The inductive invariant says who may touch an id: from newID to the     *)
(* sidecar's removal exactly one of Start, a supervisor or removeFiles.    *)
(* On top of it FInv follows a player and QInv counts the bytes on disk,   *)
(* those a recorder may still write included.                              *)
(***************************************************************************)
EXTENDS DVR, FiniteSetTheorems, TLAPS

\* Every trace of an id on disk or in memory comes from its Start, and every
\* listed recording has a sidecar.
Known ==
  \A i \in Ids : /\ side[i] # "none" => i \in used
                 /\ status[i] # "none" => side[i] # "none"
                 /\ finished[i] => i \in used /\ status[i] \notin Active
                 /\ i \notin used => proc[i] = "none" /\ i \notin media

\* The operation that holds Manager.mu between two file operations.
Holder ==
  mu # Nil => /\ up
              /\ mu.op = "start" => /\ side[mu.id] = "starting" /\ status[mu.id] = "none"
                                    /\ ~finished[mu.id] /\ mu.id \notin media /\ proc[mu.id] = "none"
              /\ mu.op = "remove" => status[mu.id] \in Final /\ (~MayHang => mu.id \notin media)

\* Nothing is in memory while the process is down.
Down ==
  ~up => /\ \A i \in Ids : status[i] = "none" /\ sup[i] = "none"
         /\ \A c \in Clients : client[c].pc = "idle"

\* Delete goes on only when the recording's supervisor is done.
DeleteWaits ==
  \A c \in Clients : /\ client[c].pc = "wait" => client[c].id \in Ids
                     /\ client[c].pc = "delete" => client[c].id \in Ids /\ finished[client[c].id]

\* A recorder that is still to open its output is supervised, and a supervisor
\* that is about to finalise has seen its recorder exit.
Watched ==
  ~MayHang => \A i \in Ids : /\ proc[i] = "run" /\ ~opened[i] => sup[i] # "none"
                             /\ sup[i] = "final" => Exited(i)

\* No orphans, as long as killed recorders exit.
NoOrphans == ~MayHang => NoOrphanMedia

IInv == TypeOK /\ ActiveSupervised /\ Known /\ Holder /\ Down /\ DeleteWaits /\ Watched /\ NoOrphans

\* usedBytesLocked counts a finite number of bytes.
LEMMA UsedBytesType == UsedBytes \in Nat
<1>1. IsFiniteSet(1 .. MaxSize)
  <2>1. 1 \in Int /\ MaxSize \in Int  BY DVRAssumption
  <2>2. QED  BY ONLY <2>1, FS_Interval
<1>2. IsFiniteSet(Ids \X (1 .. MaxSize))
  BY <1>1, FS_Product, DVRAssumption
<1>3. IsFiniteSet(Stored)
  BY <1>2, FS_Subset DEF Stored
<1> QED BY <1>3, FS_CardinalityType DEF UsedBytes

\* What a player's record looks like.
Player == [pc : {"idle", "open", "read", "check", "drain", "done"}, id : Ids \cup {Nil}, sent : Nat]

\* What a client's record looks like.
Caller == [pc : {"idle", "wait", "delete"}, id : Ids \cup {Nil}, del : BOOLEAN]

\* A step of one player to another player record keeps the type invariant.
LEMMA PlayerMoves ==
  ASSUME TypeOK, NEW f \in Followers, NEW r \in Player, SetF(f, r),
         UNCHANGED <<up, closing, used, status, source, stopReq, finished, size, sup, capped, mu, side, media,
                     proc, opened, bytes, limit, client, crashes>>
  PROVE  TypeOK'
<1>1. follower \in [Followers -> Player]
  BY DEF TypeOK, Player
<1>2. follower' \in [Followers -> Player]
  BY <1>1 DEF SetF
<1>3. follower' \in [Followers -> [pc : {"idle", "open", "read", "check", "drain", "done"}, id : Ids \cup {Nil}, sent : Nat]]
  BY <1>2 DEF Player
<1> QED BY <1>3 DEF TypeOK

USE DVRAssumption, UsedBytesType DEF Final, Active, recs, sups, disk, procs, users

\* Start takes an id no trace of which exists anywhere.
LEMMA StartKeeps ==
  ASSUME IInv, NEW i \in Ids, NEW u \in Sources, Start(i, u)
  PROVE  IInv'
<1>1. TypeOK'
  BY DEF IInv, TypeOK, Start, Locked, ActiveIds
<1>2. ActiveSupervised'
  BY DEF IInv, ActiveSupervised, Start, Locked, ActiveIds
<1>3. Known'
  BY DEF IInv, Known, Start, Locked, ActiveIds
<1>4. Holder'
  BY DEF IInv, TypeOK, ActiveSupervised, Known, Holder, Start, Locked, ActiveIds
<1>5. Down'
  BY DEF IInv, Down, Start, Locked, ActiveIds
<1>6. DeleteWaits'
  BY DEF IInv, DeleteWaits, Start, Locked, ActiveIds
<1>7. Watched'
  BY DEF IInv, Watched, Exited, Start, Locked, ActiveIds
<1>8. NoOrphans'
  BY DEF IInv, NoOrphans, NoOrphanMedia, Start, Locked, ActiveIds
<1> QED BY <1>1, <1>2, <1>3, <1>4, <1>5, <1>6, <1>7, <1>8 DEF IInv

\* The recorder starts under a sidecar and gets its supervisor in the same step.
LEMMA StartProcKeeps ==
  ASSUME IInv, StartProc
  PROVE  IInv'
<1>1. TypeOK'
  BY DEF IInv, TypeOK, StartProc
<1>2. ActiveSupervised'
  BY DEF IInv, TypeOK, ActiveSupervised, StartProc
<1>3. Known'
  BY DEF IInv, TypeOK, ActiveSupervised, Known, Holder, Down, DeleteWaits, Watched, NoOrphans, NoOrphanMedia, Exited, StartProc
<1>4. Holder'
  BY DEF IInv, Holder, StartProc
<1>5. Down'
  BY DEF IInv, Down, StartProc
<1>6. DeleteWaits'
  BY DEF IInv, DeleteWaits, StartProc
<1>7. Watched'
  BY DEF IInv, TypeOK, Watched, Exited, StartProc
<1>8. NoOrphans'
  BY DEF IInv, TypeOK, NoOrphans, NoOrphanMedia, StartProc
<1> QED BY <1>1, <1>2, <1>3, <1>4, <1>5, <1>6, <1>7, <1>8 DEF IInv

\* A recorder that cannot be started leaves no file.
LEMMA StartFailsKeeps ==
  ASSUME IInv, StartFails
  PROVE  IInv'
<1>1. TypeOK'
  BY DEF IInv, TypeOK, StartFails
<1>2. ActiveSupervised'
  BY DEF IInv, ActiveSupervised, StartFails
<1>3. Known'
  BY DEF IInv, TypeOK, ActiveSupervised, Known, Holder, Down, DeleteWaits, Watched, NoOrphans, NoOrphanMedia, Exited, StartFails
<1>4. Holder'
  BY DEF IInv, Holder, StartFails
<1>5. Down'
  BY DEF IInv, Down, StartFails
<1>6. DeleteWaits'
  BY DEF IInv, DeleteWaits, StartFails
<1>7. Watched'
  BY DEF IInv, Watched, Exited, StartFails
<1>8. NoOrphans'
  BY DEF IInv, TypeOK, ActiveSupervised, Known, Holder, Down, DeleteWaits, Watched, NoOrphans, NoOrphanMedia, Exited, StartFails
<1> QED BY <1>1, <1>2, <1>3, <1>4, <1>5, <1>6, <1>7, <1>8 DEF IInv

\* A recorder opens its output only while its sidecar is there.
LEMMA OpenOutputKeeps ==
  ASSUME IInv, NEW i \in Ids, OpenOutput(i)
  PROVE  IInv'
<1>1. TypeOK'
  BY DEF IInv, TypeOK, OpenOutput
<1>2. ActiveSupervised'
  BY DEF IInv, ActiveSupervised, OpenOutput
<1>3. Known'
  BY DEF IInv, Known, OpenOutput
<1>4. Holder'
  BY DEF IInv, TypeOK, ActiveSupervised, Known, Holder, Down, DeleteWaits, Watched, NoOrphans, NoOrphanMedia, Exited, OpenOutput
<1>5. Down'
  BY DEF IInv, Down, OpenOutput
<1>6. DeleteWaits'
  BY DEF IInv, DeleteWaits, OpenOutput
<1>7. Watched'
  BY DEF IInv, Watched, Exited, OpenOutput
<1>8. NoOrphans'
  BY DEF IInv, TypeOK, ActiveSupervised, Known, Holder, Down, DeleteWaits, Watched, NoOrphans, NoOrphanMedia, Exited, OpenOutput
<1> QED BY <1>1, <1>2, <1>3, <1>4, <1>5, <1>6, <1>7, <1>8 DEF IInv

\* Writing changes nothing the invariant is about.
LEMMA WriteOutputKeeps ==
  ASSUME IInv, NEW i \in Ids, WriteOutput(i)
  PROVE  IInv'
<1>1. TypeOK'
  BY DEF IInv, TypeOK, WriteOutput
<1>2. ActiveSupervised'
  BY DEF IInv, ActiveSupervised, WriteOutput
<1>3. Known'
  BY DEF IInv, Known, WriteOutput
<1>4. Holder'
  BY DEF IInv, Holder, WriteOutput
<1>5. Down'
  BY DEF IInv, Down, WriteOutput
<1>6. DeleteWaits'
  BY DEF IInv, DeleteWaits, WriteOutput
<1>7. Watched'
  BY DEF IInv, Watched, Exited, WriteOutput
<1>8. NoOrphans'
  BY DEF IInv, NoOrphans, NoOrphanMedia, WriteOutput
<1> QED BY <1>1, <1>2, <1>3, <1>4, <1>5, <1>6, <1>7, <1>8 DEF IInv

\* A recorder may exit at any time.
LEMMA ProcExitKeeps ==
  ASSUME IInv, NEW i \in Ids, NEW how \in {"ok", "err"}, ProcExit(i, how)
  PROVE  IInv'
<1>1. TypeOK'
  BY DEF IInv, TypeOK, ProcExit
<1>2. ActiveSupervised'
  BY DEF IInv, ActiveSupervised, ProcExit
<1>3. Known'
  BY DEF IInv, Known, ProcExit
<1>4. Holder'
  BY DEF IInv, Holder, ProcExit
<1>5. Down'
  BY DEF IInv, Down, ProcExit
<1>6. DeleteWaits'
  BY DEF IInv, DeleteWaits, ProcExit
<1>7. Watched'
  BY DEF IInv, Watched, Exited, ProcExit
<1>8. NoOrphans'
  BY DEF IInv, NoOrphans, NoOrphanMedia, ProcExit
<1> QED BY <1>1, <1>2, <1>3, <1>4, <1>5, <1>6, <1>7, <1>8 DEF IInv

\* The supervisor leaves its select.
LEMMA SuperviseKeeps ==
  ASSUME IInv, NEW i \in Ids, Supervise(i)
  PROVE  IInv'
<1>1. TypeOK'
  <2>1. CASE SetSup(i, "final") /\ UNCHANGED capped
    BY <2>1 DEF IInv, TypeOK, Supervise, SetSup
  <2>2. CASE SetSup(i, "quit") /\ capped' = [capped EXCEPT ![i] = TRUE]
    BY <2>2 DEF IInv, TypeOK, Supervise, SetSup
  <2>3. CASE SetSup(i, "quit") /\ UNCHANGED capped
    BY <2>3 DEF IInv, TypeOK, Supervise, SetSup
  <2> QED BY <2>1, <2>2, <2>3 DEF Supervise
<1>2. ActiveSupervised'
  BY DEF IInv, TypeOK, ActiveSupervised, Supervise, SetSup
<1>3. Known'
  BY DEF IInv, Known, Supervise, SetSup
<1>4. Holder'
  BY DEF IInv, Holder, Supervise, SetSup
<1>5. Down'
  BY DEF IInv, Down, Supervise, SetSup
<1>6. DeleteWaits'
  BY DEF IInv, DeleteWaits, Supervise, SetSup
<1>7. Watched'
  BY DEF IInv, TypeOK, Watched, Exited, Supervise, SetSup
<1>8. NoOrphans'
  BY DEF IInv, NoOrphans, NoOrphanMedia, Supervise, SetSup
<1> QED BY <1>1, <1>2, <1>3, <1>4, <1>5, <1>6, <1>7, <1>8 DEF IInv

\* The supervisor asks the recorder to quit.
LEMMA HaltKeeps ==
  ASSUME IInv, NEW i \in Ids, Halt(i)
  PROVE  IInv'
<1>1. TypeOK'
  BY DEF IInv, TypeOK, Halt, SetSup
<1>2. ActiveSupervised'
  BY DEF IInv, TypeOK, ActiveSupervised, Halt, SetSup
<1>3. Known'
  BY DEF IInv, Known, Halt, SetSup
<1>4. Holder'
  BY DEF IInv, Holder, Halt, SetSup
<1>5. Down'
  BY DEF IInv, Down, Halt, SetSup
<1>6. DeleteWaits'
  BY DEF IInv, DeleteWaits, Halt, SetSup
<1>7. Watched'
  BY DEF IInv, TypeOK, Watched, Exited, Halt, SetSup
<1>8. NoOrphans'
  BY DEF IInv, NoOrphans, NoOrphanMedia, Halt, SetSup
<1> QED BY <1>1, <1>2, <1>3, <1>4, <1>5, <1>6, <1>7, <1>8 DEF IInv

\* The supervisor kills the recorder, and leaves it alone only if it may hang.
LEMMA HaltKilledKeeps ==
  ASSUME IInv, NEW i \in Ids, HaltKilled(i)
  PROVE  IInv'
<1>1. TypeOK'
  BY DEF IInv, TypeOK, HaltKilled, SetSup
<1>2. ActiveSupervised'
  BY DEF IInv, ActiveSupervised, HaltKilled, SetSup
<1>3. Known'
  BY DEF IInv, Known, HaltKilled, SetSup
<1>4. Holder'
  BY DEF IInv, Holder, HaltKilled, SetSup
<1>5. Down'
  BY DEF IInv, Down, HaltKilled, SetSup
<1>6. DeleteWaits'
  BY DEF IInv, DeleteWaits, HaltKilled, SetSup
<1>7. Watched'
  BY DEF IInv, Watched, Exited, HaltKilled, SetSup
<1>8. NoOrphans'
  BY DEF IInv, NoOrphans, NoOrphanMedia, HaltKilled, SetSup
<1> QED BY <1>1, <1>2, <1>3, <1>4, <1>5, <1>6, <1>7, <1>8 DEF IInv

\* The supervisor's last step makes the recording final and finished together.
LEMMA FinaliseKeeps ==
  ASSUME IInv, NEW i \in Ids, Finalise(i)
  PROVE  IInv'
<1>1. TypeOK'
  <2>1. size' \in [Ids -> Nat]
    <3>1. (IF i \in media THEN bytes[i] ELSE size[i]) \in Nat
      BY DEF IInv, TypeOK
    <3> QED BY <3>1 DEF IInv, TypeOK, Finalise
  <2>2. Outcome(i) \in Final
    BY DEF Outcome
  <2>3. /\ status' \in [Ids -> {"none"} \cup Active \cup Final] /\ side' \in [Ids -> {"none"} \cup Active \cup Final]
    BY <2>2 DEF IInv, TypeOK, Finalise
  <2>4. media' \subseteq Ids
    BY DEF IInv, TypeOK, Finalise
  <2>5. /\ finished' \in [Ids -> BOOLEAN]
        /\ sup' \in [Ids -> {"none", "wait", "quit", "kill", "final"}]
    BY DEF IInv, TypeOK, Finalise, SetSup
  <2>6. UNCHANGED <<up, closing, used, source, stopReq, capped, mu, proc, opened, bytes, limit, client, follower, crashes>>
    BY DEF Finalise
  <2> QED BY <2>1, <2>3, <2>4, <2>5, <2>6 DEF IInv, TypeOK
<1>2. ActiveSupervised'
  BY DEF IInv, TypeOK, ActiveSupervised, Finalise, SetSup, Outcome, Locked
<1>3. Known'
  BY DEF IInv, TypeOK, ActiveSupervised, Known, Finalise, SetSup, Outcome, Locked
<1>4. Holder'
  BY DEF IInv, Holder, Finalise, SetSup, Outcome, Locked
<1>5. Down'
  BY DEF IInv, Down, Finalise, SetSup, Outcome, Locked
<1>6. DeleteWaits'
  BY DEF IInv, DeleteWaits, Finalise, SetSup, Outcome, Locked
<1>7. Watched'
  BY DEF IInv, Watched, Exited, Finalise, SetSup, Outcome, Locked
<1>8. NoOrphans'
  BY DEF IInv, TypeOK, NoOrphans, NoOrphanMedia, Finalise, SetSup, Outcome, Locked
<1> QED BY <1>1, <1>2, <1>3, <1>4, <1>5, <1>6, <1>7, <1>8 DEF IInv

\* The sweep removes final recordings only.
LEMMA SweepKeeps ==
  ASSUME IInv, NEW i \in Ids, Sweep(i)
  PROVE  IInv'
<1>1. TypeOK'
  BY DEF IInv, TypeOK, Sweep, RemoveMedia, Locked
<1>2. ActiveSupervised'
  BY DEF IInv, ActiveSupervised, Sweep, RemoveMedia, Locked
<1>3. Known'
  BY DEF IInv, Known, Sweep, RemoveMedia, Locked
<1>4. Holder'
  BY DEF IInv, Holder, Sweep, RemoveMedia, Locked
<1>5. Down'
  BY DEF IInv, Down, Sweep, RemoveMedia, Locked
<1>6. DeleteWaits'
  BY DEF IInv, DeleteWaits, Sweep, RemoveMedia, Locked
<1>7. Watched'
  BY DEF IInv, Watched, Exited, Sweep, RemoveMedia, Locked
<1>8. NoOrphans'
  BY DEF IInv, NoOrphans, NoOrphanMedia, Sweep, RemoveMedia, Locked
<1> QED BY <1>1, <1>2, <1>3, <1>4, <1>5, <1>6, <1>7, <1>8 DEF IInv

\* Stop asks for a stop, or Delete goes straight on when the recording is final.
LEMMA StopKeeps ==
  ASSUME IInv, NEW i \in Ids, NEW c \in Clients, NEW del \in BOOLEAN, Stop(c, i, del)
  PROVE  IInv'
<1>1. TypeOK'
  <2>1. PICK r \in [pc : {"wait", "delete"}, id : Ids, del : BOOLEAN] : SetC(c, r)
    BY DEF Stop
  <2>2. client' \in [Clients -> [pc : {"idle", "wait", "delete"}, id : Ids \cup {Nil}, del : BOOLEAN]]
    BY <2>1 DEF IInv, TypeOK, SetC
  <2>3. stopReq' \in [Ids -> BOOLEAN]
    BY DEF IInv, TypeOK, Stop
  <2> QED BY <2>2, <2>3 DEF IInv, TypeOK, Stop
<1>2. ActiveSupervised'
  BY DEF IInv, ActiveSupervised, Stop, SetC, Locked
<1>3. Known'
  BY DEF IInv, Known, Stop, SetC, Locked
<1>4. Holder'
  BY DEF IInv, Holder, Stop, SetC, Locked
<1>5. Down'
  BY DEF IInv, Down, Stop, SetC, Locked
<1>6. DeleteWaits'
  BY DEF IInv, TypeOK, ActiveSupervised, Known, DeleteWaits, Stop, SetC, Locked
<1>7. Watched'
  BY DEF IInv, Watched, Exited, Stop, SetC, Locked
<1>8. NoOrphans'
  BY DEF IInv, NoOrphans, NoOrphanMedia, Stop, SetC, Locked
<1> QED BY <1>1, <1>2, <1>3, <1>4, <1>5, <1>6, <1>7, <1>8 DEF IInv

\* Delete goes on once the supervisor has finished.
LEMMA StopReturnsKeeps ==
  ASSUME IInv, NEW c \in Clients, StopReturns(c)
  PROVE  IInv'
<1>1. TypeOK'
  <2>1. CASE client[c].del
    <3>1. SetC(c, [client[c] EXCEPT !.pc = "delete"])
      BY <2>1 DEF StopReturns
    <3>2. client[c] \in Caller /\ client \in [Clients -> Caller]
      BY DEF IInv, TypeOK, Caller
    <3>3. [client[c] EXCEPT !.pc = "delete"] \in Caller
      BY <3>2 DEF Caller
    <3>4. client' \in [Clients -> Caller]
      BY <3>1, <3>2, <3>3 DEF SetC
    <3>5. client' \in [Clients -> [pc : {"idle", "wait", "delete"}, id : Ids \cup {Nil}, del : BOOLEAN]]
      BY <3>4 DEF Caller
    <3> QED BY <3>5 DEF IInv, TypeOK, StopReturns
  <2>2. CASE ~client[c].del
    <3>1. SetC(c, IdleClient)
      BY <2>2 DEF StopReturns
    <3>2. client' \in [Clients -> [pc : {"idle", "wait", "delete"}, id : Ids \cup {Nil}, del : BOOLEAN]]
      BY <3>1 DEF IInv, TypeOK, SetC, IdleClient
    <3> QED BY <3>2 DEF IInv, TypeOK, StopReturns
  <2> QED BY <2>1, <2>2
<1>2. ActiveSupervised'
  BY DEF IInv, ActiveSupervised, StopReturns, SetC, IdleClient, Locked
<1>3. Known'
  BY DEF IInv, Known, StopReturns, SetC, IdleClient, Locked
<1>4. Holder'
  BY DEF IInv, Holder, StopReturns, SetC, IdleClient, Locked
<1>5. Down'
  BY DEF IInv, Down, StopReturns, SetC, IdleClient, Locked
<1>6. DeleteWaits'
  <2>1. CASE client[c].del
    <3>1. SetC(c, [client[c] EXCEPT !.pc = "delete"]) /\ UNCHANGED finished
      BY <2>1 DEF StopReturns
    <3>2. client[c].id \in Ids /\ finished[client[c].id]
      BY DEF IInv, DeleteWaits, StopReturns
    <3>3. [client[c] EXCEPT !.pc = "delete"].id = client[c].id
      BY DEF IInv, TypeOK
    <3> QED BY <3>1, <3>2, <3>3 DEF IInv, TypeOK, DeleteWaits, SetC
  <2>2. CASE ~client[c].del
    <3>1. SetC(c, IdleClient) /\ UNCHANGED finished
      BY <2>2 DEF StopReturns
    <3> QED BY <3>1 DEF IInv, TypeOK, DeleteWaits, SetC, IdleClient
  <2> QED BY <2>1, <2>2
<1>7. Watched'
  BY DEF IInv, Watched, Exited, StopReturns, SetC, IdleClient, Locked
<1>8. NoOrphans'
  BY DEF IInv, NoOrphans, NoOrphanMedia, StopReturns, SetC, IdleClient, Locked
<1> QED BY <1>1, <1>2, <1>3, <1>4, <1>5, <1>6, <1>7, <1>8 DEF IInv

\* By then the recording is final or already gone.
LEMMA DeleteKeeps ==
  ASSUME IInv, NEW c \in Clients, Delete(c)
  PROVE  IInv'
<1>1. TypeOK'
  BY DEF IInv, TypeOK, ActiveSupervised, Known, Holder, Down, DeleteWaits, Watched, NoOrphans, NoOrphanMedia, Exited, Delete, RemoveMedia, SetC, IdleClient, Locked
<1>2. ActiveSupervised'
  BY DEF IInv, ActiveSupervised, Delete, RemoveMedia, SetC, IdleClient, Locked
<1>3. Known'
  BY DEF IInv, Known, Delete, RemoveMedia, SetC, IdleClient, Locked
<1>4. Holder'
  BY DEF IInv, TypeOK, ActiveSupervised, Known, Holder, Down, DeleteWaits, Watched, NoOrphans, NoOrphanMedia, Exited, Delete, RemoveMedia, SetC, IdleClient, Locked
<1>5. Down'
  BY DEF IInv, Down, Delete, RemoveMedia, SetC, IdleClient, Locked
<1>6. DeleteWaits'
  BY DEF IInv, DeleteWaits, Delete, RemoveMedia, SetC, IdleClient, Locked
<1>7. Watched'
  BY DEF IInv, Watched, Exited, Delete, RemoveMedia, SetC, IdleClient, Locked
<1>8. NoOrphans'
  BY DEF IInv, NoOrphans, NoOrphanMedia, Delete, RemoveMedia, SetC, IdleClient, Locked
<1> QED BY <1>1, <1>2, <1>3, <1>4, <1>5, <1>6, <1>7, <1>8 DEF IInv

\* The sidecar goes after the media file, with the entry.
LEMMA RemoveSidecarKeeps ==
  ASSUME IInv, RemoveSidecar
  PROVE  IInv'
<1>1. TypeOK'
  BY DEF IInv, TypeOK, RemoveSidecar
<1>2. ActiveSupervised'
  BY DEF IInv, TypeOK, ActiveSupervised, Known, Holder, Down, DeleteWaits, Watched, NoOrphans, NoOrphanMedia, Exited, RemoveSidecar
<1>3. Known'
  BY DEF IInv, TypeOK, Known, RemoveSidecar
<1>4. Holder'
  BY DEF IInv, Holder, RemoveSidecar
<1>5. Down'
  BY DEF IInv, Down, RemoveSidecar
<1>6. DeleteWaits'
  BY DEF IInv, DeleteWaits, RemoveSidecar
<1>7. Watched'
  BY DEF IInv, Watched, Exited, RemoveSidecar
<1>8. NoOrphans'
  BY DEF IInv, TypeOK, ActiveSupervised, Known, Holder, Down, DeleteWaits, Watched, NoOrphans, NoOrphanMedia, Exited, RemoveSidecar
<1> QED BY <1>1, <1>2, <1>3, <1>4, <1>5, <1>6, <1>7, <1>8 DEF IInv

\* Close asks every active recording to stop.
LEMMA CloseKeeps ==
  ASSUME IInv, Close
  PROVE  IInv'
<1>1. TypeOK'
  BY DEF IInv, TypeOK, Close, Locked
<1>2. ActiveSupervised'
  BY DEF IInv, ActiveSupervised, Close, Locked
<1>3. Known'
  BY DEF IInv, Known, Close, Locked
<1>4. Holder'
  BY DEF IInv, Holder, Close, Locked
<1>5. Down'
  BY DEF IInv, Down, Close, Locked
<1>6. DeleteWaits'
  BY DEF IInv, DeleteWaits, Close, Locked
<1>7. Watched'
  BY DEF IInv, Watched, Exited, Close, Locked
<1>8. NoOrphans'
  BY DEF IInv, NoOrphans, NoOrphanMedia, Close, Locked
<1> QED BY <1>1, <1>2, <1>3, <1>4, <1>5, <1>6, <1>7, <1>8 DEF IInv

\* Close returns.
LEMMA CloseReturnsKeeps ==
  ASSUME IInv, CloseReturns
  PROVE  IInv'
<1>1. TypeOK'
  BY DEF IInv, TypeOK, CloseReturns
<1>2. ActiveSupervised'
  BY DEF IInv, ActiveSupervised, CloseReturns
<1>3. Known'
  BY DEF IInv, Known, CloseReturns
<1>4. Holder'
  BY DEF IInv, Holder, CloseReturns
<1>5. Down'
  BY DEF IInv, Down, CloseReturns
<1>6. DeleteWaits'
  BY DEF IInv, DeleteWaits, CloseReturns
<1>7. Watched'
  BY DEF IInv, Watched, Exited, CloseReturns
<1>8. NoOrphans'
  BY DEF IInv, NoOrphans, NoOrphanMedia, CloseReturns
<1> QED BY <1>1, <1>2, <1>3, <1>4, <1>5, <1>6, <1>7, <1>8 DEF IInv

\* A crash loses the memory and the recorders that had no output yet.
LEMMA CrashKeeps ==
  ASSUME IInv, Crash
  PROVE  IInv'
<1>1. TypeOK'
  <2>1. client' \in [Clients -> [pc : {"idle", "wait", "delete"}, id : Ids \cup {Nil}, del : BOOLEAN]]
    BY DEF Crash, IdleClient
  <2>2. follower' \in [Followers -> [pc : {"idle", "open", "read", "check", "drain", "done"}, id : Ids \cup {Nil}, sent : Nat]]
    BY DEF Crash, IdleFollower
  <2>3. proc' \in [Ids -> {"none", "run", "ok", "err"}]
    BY DEF IInv, TypeOK, Crash
  <2>4. /\ status' \in [Ids -> {"none"} \cup Active \cup Final] /\ source' \in [Ids -> Sources \cup {Nil}]
        /\ stopReq' \in [Ids -> BOOLEAN] /\ finished' \in [Ids -> BOOLEAN] /\ capped' \in [Ids -> BOOLEAN]
        /\ sup' \in [Ids -> {"none", "wait", "quit", "kill", "final"}]
    BY DEF Crash
  <2>5. /\ up' = FALSE /\ closing' = "no" /\ mu' = Nil /\ crashes' \in Nat
        /\ UNCHANGED <<used, size, side, media, opened, bytes, limit>>
    BY DEF IInv, TypeOK, Crash
  <2> QED BY <2>1, <2>2, <2>3, <2>4, <2>5 DEF IInv, TypeOK
<1>2. ActiveSupervised'
  BY DEF IInv, ActiveSupervised, Crash, IdleClient, IdleFollower
<1>3. Known'
  BY DEF IInv, Known, Crash, IdleClient, IdleFollower
<1>4. Holder'
  BY DEF IInv, Holder, Crash, IdleClient, IdleFollower
<1>5. Down'
  BY DEF IInv, Down, Crash, IdleClient, IdleFollower
<1>6. DeleteWaits'
  BY DEF IInv, DeleteWaits, Crash, IdleClient, IdleFollower
<1>7. Watched'
  BY DEF IInv, Watched, Exited, Crash, IdleClient, IdleFollower
<1>8. NoOrphans'
  BY DEF IInv, NoOrphans, NoOrphanMedia, Crash, IdleClient, IdleFollower
<1> QED BY <1>1, <1>2, <1>3, <1>4, <1>5, <1>6, <1>7, <1>8 DEF IInv

\* A restart lists every sidecar and none of them as active.
LEMMA LoadKeeps ==
  ASSUME IInv, Load
  PROVE  IInv'
<1>1. TypeOK'
  BY DEF IInv, TypeOK, Load, Interrupted
<1>2. ActiveSupervised'
  BY DEF IInv, TypeOK, ActiveSupervised, Known, Holder, Down, DeleteWaits, Watched, NoOrphans, NoOrphanMedia, Exited, Load, Interrupted
<1>3. Known'
  BY DEF IInv, Known, Load, Interrupted
<1>4. Holder'
  BY DEF IInv, Holder, Load, Interrupted
<1>5. Down'
  BY DEF IInv, Down, Load, Interrupted
<1>6. DeleteWaits'
  BY DEF IInv, TypeOK, ActiveSupervised, Known, Holder, Down, DeleteWaits, Watched, NoOrphans, NoOrphanMedia, Exited, Load, Interrupted
<1>7. Watched'
  BY DEF IInv, Watched, Exited, Load, Interrupted
<1>8. NoOrphans'
  BY DEF IInv, TypeOK, NoOrphans, NoOrphanMedia, Load, Interrupted
<1> QED BY <1>1, <1>2, <1>3, <1>4, <1>5, <1>6, <1>7, <1>8 DEF IInv

\* A player starts following.
LEMMA FollowKeeps ==
  ASSUME IInv, NEW i \in Ids, NEW f \in Followers, Follow(f, i)
  PROVE  IInv'
<1>1. TypeOK'
  BY DEF IInv, TypeOK, Follow, SetF
<1>2. ActiveSupervised'
  BY DEF IInv, ActiveSupervised, Follow, SetF
<1>3. Known'
  BY DEF IInv, Known, Follow, SetF
<1>4. Holder'
  BY DEF IInv, Holder, Follow, SetF
<1>5. Down'
  BY DEF IInv, Down, Follow, SetF
<1>6. DeleteWaits'
  BY DEF IInv, DeleteWaits, Follow, SetF
<1>7. Watched'
  BY DEF IInv, Watched, Exited, Follow, SetF
<1>8. NoOrphans'
  BY DEF IInv, NoOrphans, NoOrphanMedia, Follow, SetF
<1> QED BY <1>1, <1>2, <1>3, <1>4, <1>5, <1>6, <1>7, <1>8 DEF IInv

\* A player opens the file.
LEMMA FollowOpenKeeps ==
  ASSUME IInv, NEW f \in Followers, FollowOpen(f)
  PROVE  IInv'
<1>1. TypeOK'
  <2>0. /\ TypeOK
        /\ UNCHANGED <<up, closing, used, status, source, stopReq, finished, size, sup, capped, mu, side, media,
                       proc, opened, bytes, limit, client, crashes>>
    BY DEF IInv, FollowOpen
  <2>1. follower[f] \in Player
    BY <2>0 DEF TypeOK, Player
  <2>2. CASE SetF(f, [follower[f] EXCEPT !.pc = "read"])
    <3>1. [follower[f] EXCEPT !.pc = "read"] \in Player
      BY <2>1 DEF Player
    <3> QED BY <2>0, <2>2, <3>1, PlayerMoves
  <2>3. CASE SetF(f, IdleFollower)
    <3>1. IdleFollower \in Player
      BY <2>1 DEF Player, IdleFollower
    <3> QED BY <2>0, <2>3, <3>1, PlayerMoves
  <2> QED BY <2>2, <2>3 DEF FollowOpen
<1>2. ActiveSupervised'
  BY DEF IInv, ActiveSupervised, FollowOpen, SetF, IdleFollower
<1>3. Known'
  BY DEF IInv, Known, FollowOpen, SetF, IdleFollower
<1>4. Holder'
  BY DEF IInv, Holder, FollowOpen, SetF, IdleFollower
<1>5. Down'
  BY DEF IInv, Down, FollowOpen, SetF, IdleFollower
<1>6. DeleteWaits'
  BY DEF IInv, DeleteWaits, FollowOpen, SetF, IdleFollower
<1>7. Watched'
  BY DEF IInv, Watched, Exited, FollowOpen, SetF, IdleFollower
<1>8. NoOrphans'
  BY DEF IInv, NoOrphans, NoOrphanMedia, FollowOpen, SetF, IdleFollower
<1> QED BY <1>1, <1>2, <1>3, <1>4, <1>5, <1>6, <1>7, <1>8 DEF IInv

\* A player reads.
LEMMA FollowReadKeeps ==
  ASSUME IInv, NEW f \in Followers, FollowRead(f)
  PROVE  IInv'
<1>1. TypeOK'
  <2>0. /\ TypeOK
        /\ UNCHANGED <<up, closing, used, status, source, stopReq, finished, size, sup, capped, mu, side, media,
                       proc, opened, bytes, limit, client, crashes>>
    BY DEF IInv, FollowRead
  <2>1. follower[f] \in Player
    BY <2>0 DEF TypeOK, Player
  <2>2. CASE SetF(f, [follower[f] EXCEPT !.sent = @ + 1])
    <3>1. [follower[f] EXCEPT !.sent = @ + 1] \in Player
      BY <2>1 DEF Player
    <3> QED BY <2>0, <2>2, <3>1, PlayerMoves
  <2>3. CASE SetF(f, [follower[f] EXCEPT !.pc = "check"])
    <3>1. [follower[f] EXCEPT !.pc = "check"] \in Player
      BY <2>1 DEF Player
    <3> QED BY <2>0, <2>3, <3>1, PlayerMoves
  <2> QED BY <2>2, <2>3 DEF FollowRead
<1>2. ActiveSupervised'
  BY DEF IInv, ActiveSupervised, FollowRead, SetF
<1>3. Known'
  BY DEF IInv, Known, FollowRead, SetF
<1>4. Holder'
  BY DEF IInv, Holder, FollowRead, SetF
<1>5. Down'
  BY DEF IInv, Down, FollowRead, SetF
<1>6. DeleteWaits'
  BY DEF IInv, DeleteWaits, FollowRead, SetF
<1>7. Watched'
  BY DEF IInv, Watched, Exited, FollowRead, SetF
<1>8. NoOrphans'
  BY DEF IInv, NoOrphans, NoOrphanMedia, FollowRead, SetF
<1> QED BY <1>1, <1>2, <1>3, <1>4, <1>5, <1>6, <1>7, <1>8 DEF IInv

\* A player looks at the recording's state.
LEMMA FollowCheckKeeps ==
  ASSUME IInv, NEW f \in Followers, FollowCheck(f)
  PROVE  IInv'
<1>1. TypeOK'
  <2>0. /\ TypeOK
        /\ UNCHANGED <<up, closing, used, status, source, stopReq, finished, size, sup, capped, mu, side, media,
                       proc, opened, bytes, limit, client, crashes>>
    BY DEF IInv, FollowCheck
  <2>1. follower[f] \in Player
    BY <2>0 DEF TypeOK, Player
  <2>2. CASE SetF(f, [follower[f] EXCEPT !.pc = "read"])
    <3>1. [follower[f] EXCEPT !.pc = "read"] \in Player
      BY <2>1 DEF Player
    <3> QED BY <2>0, <2>2, <3>1, PlayerMoves
  <2>3. CASE SetF(f, [follower[f] EXCEPT !.pc = "drain"])
    <3>1. [follower[f] EXCEPT !.pc = "drain"] \in Player
      BY <2>1 DEF Player
    <3> QED BY <2>0, <2>3, <3>1, PlayerMoves
  <2> QED BY <2>2, <2>3 DEF FollowCheck
<1>2. ActiveSupervised'
  BY DEF IInv, ActiveSupervised, FollowCheck, SetF
<1>3. Known'
  BY DEF IInv, Known, FollowCheck, SetF
<1>4. Holder'
  BY DEF IInv, Holder, FollowCheck, SetF
<1>5. Down'
  BY DEF IInv, Down, FollowCheck, SetF
<1>6. DeleteWaits'
  BY DEF IInv, DeleteWaits, FollowCheck, SetF
<1>7. Watched'
  BY DEF IInv, Watched, Exited, FollowCheck, SetF
<1>8. NoOrphans'
  BY DEF IInv, NoOrphans, NoOrphanMedia, FollowCheck, SetF
<1> QED BY <1>1, <1>2, <1>3, <1>4, <1>5, <1>6, <1>7, <1>8 DEF IInv

\* A player drains the file.
LEMMA FollowDrainKeeps ==
  ASSUME IInv, NEW f \in Followers, FollowDrain(f)
  PROVE  IInv'
<1>1. TypeOK'
  <2>0. /\ TypeOK
        /\ UNCHANGED <<up, closing, used, status, source, stopReq, finished, size, sup, capped, mu, side, media,
                       proc, opened, bytes, limit, client, crashes>>
    BY DEF IInv, FollowDrain
  <2>1. follower[f] \in Player
    BY <2>0 DEF TypeOK, Player
  <2>2. CASE SetF(f, [follower[f] EXCEPT !.sent = @ + 1])
    <3>1. [follower[f] EXCEPT !.sent = @ + 1] \in Player
      BY <2>1 DEF Player
    <3> QED BY <2>0, <2>2, <3>1, PlayerMoves
  <2>3. CASE SetF(f, [follower[f] EXCEPT !.pc = "done"])
    <3>1. [follower[f] EXCEPT !.pc = "done"] \in Player
      BY <2>1 DEF Player
    <3> QED BY <2>0, <2>3, <3>1, PlayerMoves
  <2> QED BY <2>2, <2>3 DEF FollowDrain
<1>2. ActiveSupervised'
  BY DEF IInv, ActiveSupervised, FollowDrain, SetF
<1>3. Known'
  BY DEF IInv, Known, FollowDrain, SetF
<1>4. Holder'
  BY DEF IInv, Holder, FollowDrain, SetF
<1>5. Down'
  BY DEF IInv, Down, FollowDrain, SetF
<1>6. DeleteWaits'
  BY DEF IInv, DeleteWaits, FollowDrain, SetF
<1>7. Watched'
  BY DEF IInv, Watched, Exited, FollowDrain, SetF
<1>8. NoOrphans'
  BY DEF IInv, NoOrphans, NoOrphanMedia, FollowDrain, SetF
<1> QED BY <1>1, <1>2, <1>3, <1>4, <1>5, <1>6, <1>7, <1>8 DEF IInv

\* A player leaves.
LEMMA FollowLeavesKeeps ==
  ASSUME IInv, NEW f \in Followers, FollowLeaves(f)
  PROVE  IInv'
<1>1. TypeOK'
  <2>0. /\ TypeOK
        /\ UNCHANGED <<up, closing, used, status, source, stopReq, finished, size, sup, capped, mu, side, media,
                       proc, opened, bytes, limit, client, crashes>>
    BY DEF IInv, FollowLeaves
  <2>1. follower[f] \in Player
    BY <2>0 DEF TypeOK, Player
  <2>2. CASE SetF(f, IdleFollower)
    <3>1. IdleFollower \in Player
      BY <2>1 DEF Player, IdleFollower
    <3> QED BY <2>0, <2>2, <3>1, PlayerMoves
  <2> QED BY <2>2 DEF FollowLeaves
<1>2. ActiveSupervised'
  BY DEF IInv, ActiveSupervised, FollowLeaves, SetF, IdleFollower
<1>3. Known'
  BY DEF IInv, Known, FollowLeaves, SetF, IdleFollower
<1>4. Holder'
  BY DEF IInv, Holder, FollowLeaves, SetF, IdleFollower
<1>5. Down'
  BY DEF IInv, Down, FollowLeaves, SetF, IdleFollower
<1>6. DeleteWaits'
  BY DEF IInv, DeleteWaits, FollowLeaves, SetF, IdleFollower
<1>7. Watched'
  BY DEF IInv, Watched, Exited, FollowLeaves, SetF, IdleFollower
<1>8. NoOrphans'
  BY DEF IInv, NoOrphans, NoOrphanMedia, FollowLeaves, SetF, IdleFollower
<1> QED BY <1>1, <1>2, <1>3, <1>4, <1>5, <1>6, <1>7, <1>8 DEF IInv


\* The inductive invariant holds in every reachable state.
THEOREM Inductive == Spec => []IInv
<1>1. Init => IInv
  BY DEF Init, IInv, TypeOK, ActiveSupervised, Known, Holder, Down, DeleteWaits, Watched,
         NoOrphans, NoOrphanMedia, IdleClient, IdleFollower, Exited
<1>2. IInv /\ UNCHANGED vars => IInv'
  BY DEF vars, IInv, TypeOK, ActiveSupervised, Known, Holder, Down, DeleteWaits, Watched,
         NoOrphans, NoOrphanMedia, Exited
<1>3. IInv /\ Next => IInv'
  <2> SUFFICES ASSUME IInv, Next PROVE IInv'
    OBVIOUS
  <2>1. CASE \E i \in Ids : \E u \in Sources : Start(i, u)
    BY <2>1, StartKeeps
  <2>2. CASE \E i \in Ids : OpenOutput(i) \/ WriteOutput(i) \/ ProcExit(i, "ok") \/ ProcExit(i, "err")
    BY <2>2, OpenOutputKeeps, WriteOutputKeeps, ProcExitKeeps
  <2>3. CASE \E i \in Ids : Supervise(i) \/ Halt(i) \/ HaltKilled(i) \/ Finalise(i) \/ Sweep(i)
    BY <2>3, SuperviseKeeps, HaltKeeps, HaltKilledKeeps, FinaliseKeeps, SweepKeeps
  <2>4. CASE \E i \in Ids : \E c \in Clients, del \in BOOLEAN : Stop(c, i, del)
    BY <2>4, StopKeeps
  <2>5. CASE \E i \in Ids : \E f \in Followers : Follow(f, i)
    BY <2>5, FollowKeeps
  <2>6. CASE StartProc \/ StartFails \/ RemoveSidecar \/ Close \/ CloseReturns \/ Crash \/ Load
    BY <2>6, StartProcKeeps, StartFailsKeeps, RemoveSidecarKeeps, CloseKeeps, CloseReturnsKeeps, CrashKeeps, LoadKeeps
  <2>7. CASE \E c \in Clients : StopReturns(c) \/ Delete(c)
    BY <2>7, StopReturnsKeeps, DeleteKeeps
  <2>8. CASE \E f \in Followers : FollowOpen(f) \/ FollowRead(f) \/ FollowCheck(f) \/ FollowDrain(f) \/ FollowLeaves(f)
    BY <2>8, FollowOpenKeeps, FollowReadKeeps, FollowCheckKeeps, FollowDrainKeeps, FollowLeavesKeeps
  <2> QED BY <2>1, <2>2, <2>3, <2>4, <2>5, <2>6, <2>7, <2>8 DEF Next
<1> QED BY <1>1, <1>2, <1>3, PTL DEF Spec

\* Every variable keeps its type.
THEOREM TypeCorrect == Spec => []TypeOK
<1>1. IInv => TypeOK
  BY DEF IInv
<1> QED BY <1>1, Inductive, PTL

\* A recording is listed as active exactly while it is supervised, after any
\* number of crashes and restarts.
THEOREM Supervised == Spec => []ActiveSupervised
<1>1. IInv => ActiveSupervised
  BY DEF IInv
<1> QED BY <1>1, Inductive, PTL

\* If killed recorders exit, no crash leaves a media file without a sidecar.
THEOREM MediaListed == ASSUME ~MayHang PROVE Spec => []NoOrphanMedia
<1>1. IInv => NoOrphanMedia
  BY DEF IInv, NoOrphans
<1> QED BY <1>1, Inductive, PTL

-----------------------------------------------------------------------------
(* DVR implements Recordings *)

\* A step that neither gives out an id nor touches a sidecar is a stutter.
LEMMA SideKept ==
  ASSUME UNCHANGED <<used, side>> PROVE UNCHANGED Phase
  BY DEF Phase

\* One recording's durable state moves as Recordings allows.
LEMMA OneMoves ==
  ASSUME IInv, NEW i \in Ids, NEW s \in {"starting", "recording", "failed", "stopped", "completed", "none"},
         used' \in {used, used \cup {i}}, side' = [side EXCEPT ![i] = s]
  PROVE  Phase' = [Phase EXCEPT ![i] = IF i \notin used' THEN "new" ELSE IF s = "none" THEN "gone"
                                       ELSE IF s \in Active THEN "live" ELSE "kept"]
  BY DEF IInv, TypeOK, Phase

\* Every step of the DVR is a step of Recordings or leaves the disk alone.
LEMMA StepRefines ==
  ASSUME IInv, Next
  PROVE  Abstract!Next \/ UNCHANGED Phase
<1> USE DEF Abstract!Next, Abstract!Begin, Abstract!Finish, Abstract!Delete, Abstract!Move
<1>1. ASSUME NEW i \in Ids, NEW u \in Sources, Start(i, u) PROVE Abstract!Begin(i)
  <2>1. side' = [side EXCEPT ![i] = "starting"] /\ used' = used \cup {i} /\ i \notin used
    BY <1>1 DEF Start
  <2>2. Phase' = [Phase EXCEPT ![i] = "live"]
    BY <2>1, OneMoves
  <2> QED BY <2>1, <2>2 DEF Phase
<1>2. ASSUME StartProc PROVE UNCHANGED Phase
  <2>1. mu.id \in Ids /\ side[mu.id] = "starting"
    BY <1>2 DEF StartProc, IInv, TypeOK, Holder
  <2>2. used' = used /\ (side' = side \/ side' = [side EXCEPT ![mu.id] = "recording"])
    BY <1>2 DEF StartProc
  <2>3. CASE side' = side
    BY <2>2, <2>3, SideKept
  <2>4. CASE side' = [side EXCEPT ![mu.id] = "recording"]
    BY <2>1, <2>2, <2>4 DEF IInv, TypeOK, Phase
  <2> QED BY <2>2, <2>3, <2>4
<1>3. ASSUME StartFails PROVE \E i \in Ids : Abstract!Delete(i)
  <2>1. mu.id \in Ids /\ side[mu.id] = "starting"
    BY <1>3 DEF StartFails, IInv, TypeOK, Holder
  <2>2. used' = used /\ side' = [side EXCEPT ![mu.id] = "none"] /\ mu.id \in used
    BY <1>3, <2>1 DEF StartFails, IInv, Known
  <2>3. Phase' = [Phase EXCEPT ![mu.id] = "gone"] /\ Phase[mu.id] = "live"
    BY <2>1, <2>2, OneMoves DEF Phase
  <2> QED BY <2>1, <2>3
<1>4. ASSUME NEW i \in Ids, Finalise(i) PROVE Abstract!Finish(i) \/ UNCHANGED Phase
  <2>1. Outcome(i) \in Final
    BY DEF Outcome
  <2>2. used' = used /\ (side' = side \/ side' = [side EXCEPT ![i] = Outcome(i)])
    BY <1>4 DEF Finalise
  <2>3. side[i] # "none" /\ i \in used
    BY <1>4 DEF Finalise, IInv, TypeOK, ActiveSupervised, Known
  <2>4. CASE side' = side
    BY <2>2, <2>4, SideKept
  <2>5. CASE side' = [side EXCEPT ![i] = Outcome(i)]
    <3>1. Phase' = [Phase EXCEPT ![i] = "kept"]
      BY <2>1, <2>2, <2>3, <2>5, OneMoves
    <3>2. Phase[i] \in {"live", "kept"}
      BY <2>3 DEF Phase, IInv, TypeOK
    <3> QED BY <3>1, <3>2 DEF Phase
  <2> QED BY <2>2, <2>4, <2>5
<1>5. ASSUME RemoveSidecar PROVE \E i \in Ids : Abstract!Delete(i)
  <2>1. mu.id \in Ids /\ side[mu.id] # "none" /\ mu.id \in used
    BY <1>5 DEF RemoveSidecar, IInv, TypeOK, Holder, Known
  <2>2. used' = used /\ side' = [side EXCEPT ![mu.id] = "none"]
    BY <1>5 DEF RemoveSidecar
  <2>3. Phase' = [Phase EXCEPT ![mu.id] = "gone"] /\ Phase[mu.id] \in {"live", "kept"}
    BY <2>1, <2>2, OneMoves DEF Phase, IInv, TypeOK
  <2> QED BY <2>1, <2>3
<1>6. ASSUME Load PROVE Abstract!Recover
  <2>1. PICK written \in SUBSET Interrupted : side' = [i \in Ids |-> IF i \in written THEN "failed" ELSE side[i]]
    BY <1>6 DEF Load
  <2>2. used' = used
    BY <1>6 DEF Load
  <2>3. written \in SUBSET {i \in Ids : Phase[i] = "live"}
    BY <2>1 DEF Interrupted, Phase, IInv, Known
  <2>4. Phase' = [i \in Ids |-> IF i \in written THEN "kept" ELSE Phase[i]]
    BY <2>1, <2>2, <2>3 DEF Phase
  <2> QED BY <2>3, <2>4 DEF Abstract!Recover
<1>7. ASSUME UNCHANGED <<used, side>> PROVE UNCHANGED Phase
  BY <1>7, SideKept
<1>8. CASE \E i \in Ids : \/ OpenOutput(i) \/ WriteOutput(i) \/ ProcExit(i, "ok") \/ ProcExit(i, "err")
                          \/ Supervise(i) \/ Halt(i) \/ HaltKilled(i) \/ Sweep(i)
  BY <1>7, <1>8 DEF OpenOutput, WriteOutput, ProcExit, Supervise, Halt, HaltKilled, Sweep
<1>9. CASE \/ \E i \in Ids, c \in Clients, del \in BOOLEAN : Stop(c, i, del)
           \/ \E i \in Ids, f \in Followers : Follow(f, i)
           \/ \E c \in Clients : StopReturns(c) \/ Delete(c)
           \/ \E f \in Followers : FollowOpen(f) \/ FollowRead(f) \/ FollowCheck(f) \/ FollowDrain(f) \/ FollowLeaves(f)
           \/ Close \/ CloseReturns \/ Crash
  BY <1>7, <1>9 DEF Stop, Follow, StopReturns, Delete, FollowOpen, FollowRead, FollowCheck, FollowDrain, FollowLeaves,
                    Close, CloseReturns, Crash
<1> QED BY <1>1, <1>2, <1>3, <1>4, <1>5, <1>6, <1>8, <1>9 DEF Next

\* The DVR implements Recordings: on disk every recording is begun once,
\* finished at most once and never comes back once deleted.
THEOREM Refines == Spec => Durable
<1>1. Init => Abstract!Init
  BY DEF Init, Abstract!Init, Phase
<1>2. IInv /\ [Next]_vars => [Abstract!Next]_Phase
  <2>1. ASSUME UNCHANGED vars PROVE UNCHANGED Phase
    BY <2>1, SideKept DEF vars
  <2> QED BY <2>1, StepRefines
<1> QED BY <1>1, <1>2, Inductive, PTL DEF Spec, Durable, Abstract!Spec

-----------------------------------------------------------------------------
(* Players that follow a recording *)

\* A recording is listed with no more than its recorder has written; players come with
\* the process; the recording that a player follows is active or over, and over once the
\* player drains.
FInv ==
  /\ \A i \in Ids : size[i] <= bytes[i]
  /\ ~up => \A f \in Followers : follower[f].pc = "idle"
  /\ \A f \in Followers :
       /\ follower[f].pc # "idle" => /\ follower[f].id \in Ids
                                     /\ (status[follower[f].id] \in Active \/ finished[follower[f].id])
       /\ follower[f].pc \in {"drain", "done"} => finished[follower[f].id]
  /\ FollowerComplete

\* Steps that touch neither the players nor what they rely on.
LEMMA PlayersStay ==
  ASSUME IInv, FInv, UNCHANGED <<up, status, finished, size, bytes, follower>>
  PROVE  FInv'
BY DEF FInv, FollowerComplete

\* A step of one player, to a record that keeps what is said of players.
LEMMA PlayerStep ==
  ASSUME IInv, FInv, NEW f \in Followers, NEW r \in Player, SetF(f, r), up,
         UNCHANGED <<up, status, finished, size, bytes>>,
         r.pc # "idle" => r.id \in Ids /\ (status[r.id] \in Active \/ finished[r.id]),
         r.pc \in {"drain", "done"} => finished[r.id],
         r.pc = "done" => r.sent >= size[r.id]
  PROVE  FInv'
<1>1. follower \in [Followers -> Player]  BY DEF IInv, TypeOK, Player
<1>2. follower' = [follower EXCEPT ![f] = r]  BY DEF SetF
<1>3. follower'[f] = r /\ \A g \in Followers : g # f => follower'[g] = follower[g]  BY <1>1, <1>2
<1>4. QED  BY <1>3 DEF FInv, FollowerComplete

\* The end of a recording: nobody has taken it for over yet.
LEMMA FinaliseFollowed ==
  ASSUME IInv, FInv, NEW i \in Ids, Finalise(i)
  PROVE  FInv'
<1>1. status[i] \in Active  BY DEF Finalise, IInv, TypeOK, ActiveSupervised
<1>2. ~finished[i]  BY <1>1 DEF IInv, Known
<1>3. Outcome(i) \in Final  BY DEF Outcome
<1>4. /\ up /\ UNCHANGED <<up, bytes, follower>> /\ status' = [status EXCEPT ![i] = Outcome(i)]
      /\ finished' = [finished EXCEPT ![i] = TRUE] /\ size' = [size EXCEPT ![i] = IF i \in media THEN bytes[i] ELSE @]
  BY DEF Finalise, Locked
<1>5. \A j \in Ids : size'[j] <= bytes'[j]  BY <1>4 DEF FInv, IInv, TypeOK
<1>6. \A j \in Ids : /\ status[j] \in Active \/ finished[j] => status'[j] \in Active \/ finished'[j]
                     /\ finished[j] => finished'[j] /\ size'[j] = size[j]
  BY <1>2, <1>4 DEF IInv, TypeOK
<1>7. QED  BY <1>4, <1>5, <1>6 DEF FInv, FollowerComplete

\* The recording that begins is one that nobody has followed to its end.
LEMMA StartProcFollowed ==
  ASSUME IInv, FInv, StartProc
  PROVE  FInv'
<1>1. mu.id \in Ids  BY DEF StartProc, IInv, TypeOK
<1>2. UNCHANGED <<up, bytes, follower, finished, size>> /\ status' = [status EXCEPT ![mu.id] = "recording"]
  BY DEF StartProc
<1>3. \A j \in Ids : status[j] \in Active => status'[j] \in Active  BY <1>1, <1>2 DEF IInv, TypeOK
<1>4. QED  BY <1>2, <1>3 DEF FInv, FollowerComplete

\* A recording that is deleted is over.
LEMMA RemoveSidecarFollowed ==
  ASSUME IInv, FInv, RemoveSidecar
  PROVE  FInv'
<1>1. mu.id \in Ids /\ status[mu.id] \in Final  BY DEF RemoveSidecar, IInv, TypeOK, Holder
<1>2. finished[mu.id]  BY <1>1 DEF IInv, ActiveSupervised
<1>3. UNCHANGED <<up, bytes, follower, finished, size>> /\ status' = [status EXCEPT ![mu.id] = "none"]
  BY DEF RemoveSidecar
<1>4. \A j \in Ids : status[j] \in Active \/ finished[j] => status'[j] \in Active \/ finished[j]
  BY <1>1, <1>2, <1>3 DEF IInv, TypeOK
<1>5. QED  BY <1>3, <1>4 DEF FInv, FollowerComplete

\* A crash takes the players with it, and the next process begins without any.
LEMMA RestartFollowed ==
  ASSUME IInv, FInv, Crash \/ Load
  PROVE  FInv'
<1>1. CASE Crash
  <2>1. follower' = [f \in Followers |-> IdleFollower] /\ UNCHANGED <<size, bytes>>  BY <1>1 DEF Crash
  <2>2. QED  BY <2>1 DEF FInv, FollowerComplete, IdleFollower
<1>2. CASE Load
  <2>1. /\ ~up /\ UNCHANGED <<bytes, follower>>
        /\ size' = [i \in Ids |-> IF i \in media THEN bytes[i] ELSE IF i \in Interrupted THEN 0 ELSE size[i]]
    BY <1>2 DEF Load
  <2>2. \A i \in Ids : size'[i] <= bytes'[i]  BY <2>1 DEF FInv, IInv, TypeOK
  <2>3. QED  BY <2>1, <2>2 DEF FInv, FollowerComplete
<1>3. QED  BY <1>1, <1>2

\* The recorder writes.
LEMMA WriteFollowed ==
  ASSUME IInv, FInv, NEW i \in Ids, WriteOutput(i)
  PROVE  FInv'
<1>1. UNCHANGED <<up, status, finished, size, follower>> /\ bytes' = [bytes EXCEPT ![i] = @ + 1]
  BY DEF WriteOutput
<1>2. \A j \in Ids : size'[j] <= bytes'[j]  BY <1>1 DEF FInv, IInv, TypeOK
<1>3. QED  BY <1>1, <1>2 DEF FInv, FollowerComplete

\* The steps of the players.
LEMMA FollowSteps ==
  ASSUME IInv, FInv, NEW f \in Followers,
         \/ \E i \in Ids : Follow(f, i)
         \/ FollowOpen(f) \/ FollowRead(f) \/ FollowCheck(f) \/ FollowDrain(f) \/ FollowLeaves(f)
  PROVE  FInv'
<1>1. /\ follower[f] \in Player
      /\ follower[f].pc # "idle" => /\ follower[f].id \in Ids
                                    /\ (status[follower[f].id] \in Active \/ finished[follower[f].id])
      /\ follower[f].pc \in {"drain", "done"} => finished[follower[f].id]
  BY DEF FInv, IInv, TypeOK, Player
<1>2. up /\ UNCHANGED <<up, status, finished, size, bytes>>
  BY DEF Follow, FollowOpen, FollowRead, FollowCheck, FollowDrain, FollowLeaves, Locked
<1>3. IdleFollower \in Player /\ IdleFollower.pc = "idle"  BY DEF IdleFollower, Player
<1>4. ASSUME SetF(f, IdleFollower) PROVE FInv'  BY <1>2, <1>3, <1>4, PlayerStep
<1>5. ASSUME NEW i \in Ids, Follow(f, i) PROVE FInv'
  <2>1. PICK r : r = [pc |-> "open", id |-> i, sent |-> 0]  OBVIOUS
  <2>2. r \in Player /\ r.pc = "open" /\ r.id = i  BY <2>1 DEF Player
  <2>3. SetF(f, r) /\ status[i] \in Active  BY <1>5, <2>1 DEF Follow
  <2>4. QED  BY <1>2, <2>2, <2>3, PlayerStep
<1>6. ASSUME NEW p \in {"read", "check", "drain", "done"}, SetF(f, [follower[f] EXCEPT !.pc = p]), follower[f].pc # "idle",
             p \in {"drain", "done"} => finished[follower[f].id],
             p = "done" => follower[f].sent >= size[follower[f].id]
      PROVE  FInv'
  <2>1. PICK r : r = [follower[f] EXCEPT !.pc = p]  OBVIOUS
  <2>2. r \in Player /\ r.pc = p /\ r.id = follower[f].id /\ r.sent = follower[f].sent  BY <1>1, <2>1 DEF Player
  <2>3. SetF(f, r)  BY <1>6, <2>1
  <2>4. QED  BY <1>1, <1>2, <1>6, <2>2, <2>3, PlayerStep
<1>7. ASSUME SetF(f, [follower[f] EXCEPT !.sent = @ + 1]), follower[f].pc \in {"read", "drain"} PROVE FInv'
  <2>1. PICK r : r = [follower[f] EXCEPT !.sent = @ + 1]  OBVIOUS
  <2>2. r \in Player /\ r.pc = follower[f].pc /\ r.id = follower[f].id  BY <1>1, <2>1 DEF Player
  <2>3. SetF(f, r)  BY <1>7, <2>1
  <2>4. QED  BY <1>1, <1>2, <1>7, <2>2, <2>3, PlayerStep
<1>8. CASE FollowOpen(f)  BY <1>4, <1>6, <1>8 DEF FollowOpen
<1>9. CASE FollowRead(f)  BY <1>6, <1>7, <1>9 DEF FollowRead
<1>10. CASE FollowCheck(f)
  <2>1. follower[f].pc = "check"  BY <1>10 DEF FollowCheck
  <2>2. CASE status[follower[f].id] \in Active  BY <1>6, <1>10, <2>1, <2>2 DEF FollowCheck
  <2>3. CASE status[follower[f].id] \notin Active
    <3>1. finished[follower[f].id]  BY <1>1, <2>1, <2>3
    <3>2. SetF(f, [follower[f] EXCEPT !.pc = "drain"])  BY <1>10, <2>3 DEF FollowCheck
    <3>3. QED  BY <1>6, <2>1, <3>1, <3>2
  <2>4. QED  BY <2>2, <2>3
<1>11. CASE FollowDrain(f)
  <2>1. follower[f].pc = "drain" /\ follower[f].id \in Ids /\ finished[follower[f].id]  BY <1>1, <1>11 DEF FollowDrain
  <2>2. CASE follower[f].sent < bytes[follower[f].id]  BY <1>7, <1>11, <2>1, <2>2 DEF FollowDrain
  <2>3. CASE ~(follower[f].sent < bytes[follower[f].id])
    <3>1. SetF(f, [follower[f] EXCEPT !.pc = "done"])  BY <1>11, <2>3 DEF FollowDrain
    <3>2. /\ follower[f].sent \in Nat /\ bytes[follower[f].id] \in Nat /\ size[follower[f].id] \in Nat
          /\ size[follower[f].id] <= bytes[follower[f].id]
      BY <1>1, <2>1 DEF Player, FInv, IInv, TypeOK
    <3>3. follower[f].sent >= size[follower[f].id]  BY <2>3, <3>2
    <3>4. QED  BY <1>6, <2>1, <3>1, <3>3
  <2>4. QED  BY <2>2, <2>3
<1>12. CASE FollowLeaves(f)  BY <1>4, <1>12 DEF FollowLeaves
<1>13. QED  BY <1>5, <1>8, <1>9, <1>10, <1>11, <1>12

\* A player that follows a recording to its end has got all of it, however many players
\* follow and whenever the recorder flushes what it had left.
THEOREM FollowersGetAll == Spec => []FollowerComplete
<1>1. Init => FInv  BY DEF Init, FInv, FollowerComplete, IdleFollower
<1>2. IInv /\ FInv /\ [Next]_vars => FInv'
  <2> SUFFICES ASSUME IInv, FInv, [Next]_vars PROVE FInv'
    OBVIOUS
  <2>1. CASE UNCHANGED vars  BY <2>1, PlayersStay DEF vars
  <2>2. CASE \E i \in Ids : \/ \E u \in Sources : Start(i, u)
                            \/ OpenOutput(i) \/ ProcExit(i, "ok") \/ ProcExit(i, "err")
                            \/ Supervise(i) \/ Halt(i) \/ HaltKilled(i) \/ Sweep(i)
                            \/ \E c \in Clients, del \in BOOLEAN : Stop(c, i, del)
    BY <2>2, PlayersStay DEF Start, OpenOutput, ProcExit, Supervise, Halt, HaltKilled, Sweep, Stop
  <2>3. CASE StartFails \/ Close \/ CloseReturns \/ \E c \in Clients : StopReturns(c) \/ Delete(c)
    BY <2>3, PlayersStay DEF StartFails, Close, CloseReturns, StopReturns, Delete
  <2>4. QED
    BY <2>1, <2>2, <2>3, FinaliseFollowed, WriteFollowed, StartProcFollowed, RemoveSidecarFollowed, RestartFollowed,
       FollowSteps DEF Next
<1>3. FInv => FollowerComplete  BY DEF FInv
<1>4. QED  BY <1>1, <1>2, <1>3, Inductive, PTL DEF Spec

-----------------------------------------------------------------------------
(* The storage quota *)

\* The recording that Start is about to begin, and those that have a place of MaxActive.
Pending == {i \in Ids : mu # Nil /\ mu.op = "start" /\ mu.id = i}
Taken == ActiveIds \cup Pending

\* Recorders, and those among them that outlived their process.
Running == {i \in Ids : proc[i] = "run"}
Strays == {i \in Running : status[i] \notin Active}

\* The bytes that are on disk or that a recorder may still write.
Claimed ==
  {x \in Ids \X (1 .. MaxSize) : \/ x[1] \in Running \cup Pending /\ x[2] <= limit[x[1]]
                                 \/ x[1] \in media /\ x[2] <= bytes[x[1]]}

\* A recorder stays within its limit, which is at most the quota.
LimitHeld == \A i \in Ids : bytes[i] <= limit[i] /\ limit[i] <= MaxBytes /\ (i \notin used => bytes[i] = 0)

\* While the process is up it lists every sidecar but the one Start has just written.
Listed == up => \A i \in Ids : side[i] # "none" => status[i] # "none" \/ i \in Pending

\* How many recorders there may be.
Places == (1 + crashes) * MaxActive

QInv ==
  /\ LimitHeld /\ Listed
  /\ Cardinality(Taken) <= MaxActive /\ Cardinality(Strays) <= crashes * MaxActive
  /\ Cardinality(Claimed) <= Places * MaxBytes

\* All of these are finite, and sets of them are counted.
LEMMA QuotaFinite ==
  /\ IsFiniteSet(Taken) /\ IsFiniteSet(Running) /\ IsFiniteSet(Strays) /\ IsFiniteSet(Claimed) /\ IsFiniteSet(Stored)
  /\ Cardinality(Taken) \in Nat /\ Cardinality(Running) \in Nat /\ Cardinality(Strays) \in Nat
  /\ Cardinality(Claimed) \in Nat /\ Cardinality(Stored) \in Nat
<1>1. IsFiniteSet(Ids)  OBVIOUS
<1>2. IsFiniteSet(1 .. MaxSize)
  <2>1. 1 \in Int /\ MaxSize \in Int  OBVIOUS
  <2>2. QED  BY ONLY <2>1, FS_Interval
<1>3. IsFiniteSet(Ids \X (1 .. MaxSize))  BY <1>1, <1>2, FS_Product
<1>4. Taken \subseteq Ids /\ Running \subseteq Ids /\ Strays \subseteq Ids  BY DEF Taken, ActiveIds, Pending, Running, Strays
<1>5. Claimed \subseteq Ids \X (1 .. MaxSize) /\ Stored \subseteq Ids \X (1 .. MaxSize)  BY DEF Claimed, Stored
<1>6. IsFiniteSet(Taken) /\ IsFiniteSet(Running) /\ IsFiniteSet(Strays)  BY <1>1, <1>4, FS_Subset
<1>7. IsFiniteSet(Claimed) /\ IsFiniteSet(Stored)  BY <1>3, <1>5, FS_Subset
<1>8. QED  BY <1>6, <1>7, FS_CardinalityType

\* A part is no larger than the whole.
LEMMA Smaller ==
  ASSUME NEW S, NEW T, IsFiniteSet(T), S \subseteq T
  PROVE  IsFiniteSet(S) /\ Cardinality(S) \in Nat /\ Cardinality(T) \in Nat /\ Cardinality(S) <= Cardinality(T)
<1>1. IsFiniteSet(S) /\ Cardinality(S) <= Cardinality(T)  BY ONLY FS_Subset, IsFiniteSet(T), S \subseteq T
<1>2. QED  BY <1>1, FS_CardinalityType

\* A union is no larger than its parts together.
LEMMA Together ==
  ASSUME NEW S, NEW T, IsFiniteSet(S), IsFiniteSet(T)
  PROVE  /\ IsFiniteSet(S \cup T)
         /\ Cardinality(S \cup T) \in Nat /\ Cardinality(S) \in Nat /\ Cardinality(T) \in Nat
         /\ Cardinality(S \cup T) <= Cardinality(S) + Cardinality(T)
<1>1. IsFiniteSet(S \cup T) /\ Cardinality(S \cup T) = Cardinality(S) + Cardinality(T) - Cardinality(S \cap T)
  BY ONLY FS_Union, IsFiniteSet(S), IsFiniteSet(T)
<1>2. IsFiniteSet(S \cap T)  BY FS_Subset
<1>3. Cardinality(S \cup T) \in Nat /\ Cardinality(S) \in Nat /\ Cardinality(T) \in Nat /\ Cardinality(S \cap T) \in Nat
  BY <1>1, <1>2, FS_CardinalityType
<1>4. QED  BY <1>1, <1>3

\* Steps after which no more is claimed and no more places are taken.
LEMMA QuotaStays ==
  ASSUME IInv, QInv, LimitHeld', Listed', crashes' = crashes, Taken' \subseteq Taken, Strays' \subseteq Strays,
         Claimed' \subseteq Claimed
  PROVE  QInv'
<1>1. Places' = Places  BY DEF Places
<1>2. PICK a, b, c : a = Taken /\ b = Strays /\ c = Claimed  OBVIOUS
<1>3. PICK a1, b1, c1 : a1 = Taken' /\ b1 = Strays' /\ c1 = Claimed'  OBVIOUS
<1>4. IsFiniteSet(a) /\ IsFiniteSet(b) /\ IsFiniteSet(c)  BY <1>2, QuotaFinite
<1>5. a1 \subseteq a /\ b1 \subseteq b /\ c1 \subseteq c  BY <1>2, <1>3
<1>6. Cardinality(a1) <= Cardinality(a) /\ Cardinality(b1) <= Cardinality(b) /\ Cardinality(c1) <= Cardinality(c)
  BY ONLY <1>4, <1>5, Smaller
<1>7. Cardinality(a1) \in Nat /\ Cardinality(b1) \in Nat /\ Cardinality(c1) \in Nat
      /\ Cardinality(a) \in Nat /\ Cardinality(b) \in Nat /\ Cardinality(c) \in Nat
  BY ONLY <1>4, <1>5, Smaller
<1>8. PICK m \in Int, n \in Int : m = crashes * MaxActive /\ n = Places * MaxBytes  BY DEF IInv, TypeOK, Places
<1>9. Cardinality(a) <= MaxActive /\ Cardinality(b) <= m /\ Cardinality(c) <= n  BY <1>2, <1>8 DEF QInv
<1>10. Cardinality(a1) <= MaxActive /\ Cardinality(b1) <= m /\ Cardinality(c1) <= n  BY <1>6, <1>7, <1>8, <1>9
<1>11. m = crashes' * MaxActive /\ n = Places' * MaxBytes  BY <1>1, <1>8
<1>12. QED  BY <1>3, <1>10, <1>11 DEF QInv

\* Steps that leave the recorders, the files and the places as they are.
LEMMA QuotaApart ==
  ASSUME IInv, QInv, UNCHANGED <<up, used, status, mu, side, media, proc, bytes, limit, crashes>>
  PROVE  QInv'
BY DEF QInv, LimitHeld, Listed, Taken, ActiveIds, Strays, Running, Claimed, Pending, Places

\* What is claimed beside the files that are listed belongs to recorders.
LEMMA ClaimedBy ==
  ASSUME IInv, QInv, ~MayHang, up, mu = Nil
  PROVE  /\ Claimed \subseteq Stored \cup (Running \X (1 .. MaxBytes))
         /\ Cardinality(Running) <= Cardinality(ActiveIds) + crashes * MaxActive
<1>1. Pending = {}  BY DEF Pending
<1>2. \A i \in media : i \in Ids /\ status[i] # "none"
  BY <1>1 DEF IInv, TypeOK, NoOrphans, NoOrphanMedia, QInv, Listed
<1>3. \A i \in Ids : limit[i] \in Nat /\ limit[i] <= MaxBytes  BY DEF IInv, TypeOK, QInv, LimitHeld
<1>4. ASSUME NEW x \in Claimed PROVE x \in Stored \cup (Running \X (1 .. MaxBytes))
  <2>1. PICK j \in Ids, n \in 1 .. MaxSize : x = <<j, n>>  BY DEF Claimed
  <2>2. (j \in Running /\ n <= limit[j]) \/ (j \in media /\ n <= bytes[j])  BY <1>1, <2>1 DEF Claimed
  <2>3. CASE j \in Running /\ n <= limit[j]
    <3>1. n \in 1 .. MaxBytes  BY <1>3, <2>3
    <3>2. QED  BY <2>1, <2>3, <3>1
  <2>4. CASE j \in media /\ n <= bytes[j]  BY <1>2, <2>1, <2>4 DEF Stored
  <2>5. QED  BY <2>2, <2>3, <2>4
<1>5. Running \subseteq ActiveIds \cup Strays  BY DEF Running, ActiveIds, Strays
<1>6. PICK r, a, s : r = Running /\ a = ActiveIds /\ s = Strays  OBVIOUS
<1>7. Taken = a  BY <1>1, <1>6 DEF Taken
<1>8. IsFiniteSet(a) /\ IsFiniteSet(s)  BY <1>6, <1>7, QuotaFinite
<1>9. /\ IsFiniteSet(a \cup s) /\ Cardinality(a \cup s) \in Nat /\ Cardinality(a) \in Nat /\ Cardinality(s) \in Nat
      /\ Cardinality(a \cup s) <= Cardinality(a) + Cardinality(s)
  BY ONLY <1>8, Together
<1>10. r \subseteq a \cup s  BY <1>5, <1>6
<1>11. Cardinality(r) \in Nat /\ Cardinality(r) <= Cardinality(a \cup s)  BY ONLY <1>9, <1>10, Smaller
<1>12. PICK m \in Int : m = crashes * MaxActive  BY DEF IInv, TypeOK
<1>13. Cardinality(s) <= m  BY <1>6, <1>12 DEF QInv
<1>14. Cardinality(r) <= Cardinality(a) + m  BY <1>9, <1>11, <1>12, <1>13
<1>15. QED  BY <1>4, <1>6, <1>12, <1>14

\* The bytes of n recorders.
LEMMA RecorderBytes ==
  ASSUME NEW R, IsFiniteSet(R), NEW n \in Nat, NEW b \in Nat, Cardinality(R) <= n
  PROVE  /\ IsFiniteSet(R \X (1 .. b)) /\ Cardinality(R \X (1 .. b)) \in Nat
         /\ Cardinality(R \X (1 .. b)) <= n * b
<1>1. IsFiniteSet(1 .. b) /\ Cardinality(1 .. b) = b
  <2>1. 1 \in Int /\ b \in Int  OBVIOUS
  <2>2. IsFiniteSet(1 .. b) /\ Cardinality(1 .. b) = IF 1 > b THEN 0 ELSE b - 1 + 1  BY ONLY <2>1, FS_Interval
  <2>3. QED  BY <2>2
<1>2. IsFiniteSet(R \X (1 .. b)) /\ Cardinality(R \X (1 .. b)) = Cardinality(R) * b
  BY <1>1, FS_Product
<1>3. Cardinality(R) \in Nat  BY FS_CardinalityType
<1>4. Cardinality(R) * b <= n * b /\ Cardinality(R) * b \in Nat  BY <1>3
<1>5. QED  BY <1>2, <1>4

\* Start: the places that are left and the space that is left.
LEMMA StartQuota ==
  ASSUME IInv, QInv, MaxBytes > 0, ~MayHang, NEW i \in Ids, NEW u \in Sources, Start(i, u)
  PROVE  QInv'
<1>1. /\ up /\ mu = Nil /\ i \notin used /\ Cardinality(ActiveIds) < MaxActive /\ UsedBytes < MaxBytes
      /\ limit' = [limit EXCEPT ![i] = MaxBytes - UsedBytes] /\ side' = [side EXCEPT ![i] = "starting"]
      /\ mu' = [op |-> "start", id |-> i] /\ UNCHANGED <<up, status, media, proc, bytes, crashes>>
      /\ used' = used \cup {i}
  <2>1. MaxBytes # 0  OBVIOUS
  <2>2. QED  BY <2>1 DEF Start, Locked
<1>2. proc[i] = "none" /\ i \notin media /\ bytes[i] = 0  BY <1>1 DEF IInv, Known, QInv, LimitHeld
<1>3. Pending = {} /\ Pending' = {i}
  <2>1. mu'.op = "start" /\ mu'.id = i /\ mu' \in [op : {"start", "remove"}, id : Ids]  BY <1>1
  <2>2. mu' # Nil  BY <2>1
  <2>3. QED  BY <1>1, <2>1, <2>2 DEF Pending
<1>4. MaxBytes - UsedBytes \in 0 .. MaxBytes  BY <1>1
<1>5. LimitHeld'  BY <1>1, <1>2, <1>4 DEF QInv, LimitHeld, IInv, TypeOK
<1>6. Listed'  BY <1>1, <1>3 DEF QInv, Listed, IInv, TypeOK
<1>7. Strays' = Strays /\ Running' = Running /\ ActiveIds' = ActiveIds  BY <1>1 DEF Strays, Running, ActiveIds
<1>8. PICK a : a = ActiveIds  OBVIOUS
<1>9. Taken = a /\ Taken' = a \cup {i}  BY <1>3, <1>7, <1>8 DEF Taken
<1>10. IsFiniteSet(a)  BY <1>9, QuotaFinite
<1>11. IsFiniteSet({i}) /\ Cardinality({i}) = 1  BY FS_Singleton
<1>12. Cardinality(a \cup {i}) \in Nat /\ Cardinality(a) \in Nat /\ Cardinality(a \cup {i}) <= Cardinality(a) + 1
  BY <1>10, <1>11, Together
<1>13. Cardinality(Taken') <= MaxActive  BY <1>1, <1>8, <1>9, <1>12
<1>14. Cardinality(Claimed') <= Places * MaxBytes
  <2>1. PICK st, r, c : st = Stored /\ r = Running /\ c = Claimed'  OBVIOUS
  <2>2. PICK d \in Nat : d = MaxBytes - UsedBytes  BY <1>4
  <2>3. Claimed' \subseteq Claimed \cup ({i} \X (1 .. d))
    <3>1. SUFFICES ASSUME NEW x \in Claimed' PROVE x \in Claimed \cup ({i} \X (1 .. d))
      OBVIOUS
    <3>2. PICK j \in Ids, n \in 1 .. MaxSize : x = <<j, n>>  BY DEF Claimed
    <3>3. (j \in Running \cup {i} /\ n <= limit'[j]) \/ (j \in media /\ n <= bytes[j])
      BY <1>1, <1>3, <1>7, <3>1, <3>2 DEF Claimed
    <3>4. CASE j = i
      <4>1. n <= d  BY <1>1, <1>2, <2>2, <3>3, <3>4 DEF IInv, TypeOK
      <4>2. QED  BY <2>2, <3>2, <3>4, <4>1
    <3>5. CASE j # i
      <4>1. limit'[j] = limit[j]  BY <1>1, <3>5 DEF IInv, TypeOK
      <4>2. QED  BY <3>2, <3>3, <3>5, <4>1 DEF Claimed
    <3>6. QED  BY <3>4, <3>5
  <2>4. Claimed \subseteq st \cup (r \X (1 .. MaxBytes)) /\ Cardinality(r) <= Cardinality(a) + crashes * MaxActive
    BY <1>1, <1>8, <2>1, ClaimedBy
  <2>5. PICK p \in Nat : p = Places - 1
    <3>1. crashes \in Nat  BY DEF IInv, TypeOK
    <3>2. Places \in Nat /\ Places >= 1  BY <3>1 DEF Places
    <3>3. QED  BY <3>2
  <2>6. Cardinality(r) <= p
    <3>1. crashes \in Nat /\ crashes * MaxActive \in Nat  BY DEF IInv, TypeOK
    <3>2. p = MaxActive + crashes * MaxActive - 1  BY <2>5, <3>1 DEF Places
    <3>3. Cardinality(a) <= MaxActive - 1  BY <1>1, <1>8, <1>12
    <3>4. Cardinality(r) \in Nat  BY <2>1, QuotaFinite
    <3>5. QED  BY <1>12, <2>4, <3>1, <3>2, <3>3, <3>4
  <2>7. IsFiniteSet(r) /\ IsFiniteSet(st) /\ Cardinality(st) = UsedBytes  BY <2>1, QuotaFinite DEF UsedBytes
  <2>8. PICK v : v = r \X (1 .. MaxBytes)  OBVIOUS
  <2>9. IsFiniteSet(v) /\ Cardinality(v) \in Nat /\ Cardinality(v) <= p * MaxBytes
    BY <2>6, <2>7, <2>8, RecorderBytes
  <2>10. PICK w : w = {i} \X (1 .. d)  OBVIOUS
  <2>11. IsFiniteSet(w) /\ Cardinality(w) \in Nat /\ Cardinality(w) <= d
    <3>1. PICK S : S = {i}  OBVIOUS
    <3>2. IsFiniteSet(S) /\ Cardinality(S) <= 1 /\ 1 \in Nat  BY <1>11, <3>1
    <3>3. /\ IsFiniteSet(S \X (1 .. d)) /\ Cardinality(S \X (1 .. d)) \in Nat
          /\ Cardinality(S \X (1 .. d)) <= 1 * d
      BY ONLY <3>2, d \in Nat, RecorderBytes
    <3>4. QED  BY <2>10, <3>1, <3>3
  <2>12. /\ IsFiniteSet(st \cup v) /\ Cardinality(st \cup v) \in Nat /\ Cardinality(st) \in Nat
         /\ Cardinality(st \cup v) <= Cardinality(st) + Cardinality(v)
    BY ONLY <2>7, <2>9, Together
  <2>13. /\ IsFiniteSet((st \cup v) \cup w) /\ Cardinality((st \cup v) \cup w) \in Nat
         /\ Cardinality((st \cup v) \cup w) <= Cardinality(st \cup v) + Cardinality(w)
    BY ONLY <2>11, <2>12, Together
  <2>14. c \subseteq (st \cup v) \cup w  BY <2>1, <2>3, <2>4, <2>8, <2>10
  <2>15. Cardinality(c) \in Nat /\ Cardinality(c) <= Cardinality((st \cup v) \cup w)  BY ONLY <2>13, <2>14, Smaller
  <2>16. PICK q \in Nat : q = p * MaxBytes  OBVIOUS
  <2>17. Cardinality(c) <= q + MaxBytes
    BY <2>2, <2>7, <2>9, <2>11, <2>12, <2>13, <2>15, <2>16
  <2>18. q + MaxBytes = Places * MaxBytes
    <3>1. Places \in Int /\ Places = p + 1
      <4>1. crashes \in Nat  BY DEF IInv, TypeOK
      <4>2. Places \in Int  BY <4>1 DEF Places
      <4>3. QED  BY <2>5, <4>2
    <3>2. (p + 1) * MaxBytes = p * MaxBytes + MaxBytes  OBVIOUS
    <3>3. QED  BY <2>16, <3>1, <3>2
  <2>19. QED  BY <2>1, <2>17, <2>18
<1>15. Places' = Places  BY <1>1 DEF Places
<1>16. QED  BY <1>1, <1>5, <1>6, <1>7, <1>13, <1>14, <1>15 DEF QInv

\* The recorder begins on the place that Start took.
LEMMA StartProcQuota ==
  ASSUME IInv, QInv, StartProc
  PROVE  QInv'
<1>1. PICK i \in Ids : mu # Nil /\ mu.op = "start" /\ mu.id = i  BY DEF StartProc, IInv, TypeOK
<1>2. /\ mu' = Nil /\ proc' = [proc EXCEPT ![i] = "run"] /\ status' = [status EXCEPT ![i] = "recording"]
      /\ side' \in {side, [side EXCEPT ![i] = "recording"]} /\ UNCHANGED <<up, used, media, bytes, limit, crashes>>
  BY <1>1 DEF StartProc
<1>3. Pending = {i} /\ Pending' = {}  BY <1>1, <1>2 DEF Pending
<1>4. side[i] = "starting"  BY <1>1 DEF IInv, Holder
<1>5. Running' = Running \cup {i} /\ ActiveIds' = ActiveIds \cup {i}  BY <1>2 DEF Running, ActiveIds, IInv, TypeOK
<1>6. Taken' = Taken  BY <1>3, <1>5 DEF Taken
<1>7. Strays' \subseteq Strays  BY <1>2, <1>5 DEF Strays, Running, IInv, TypeOK
<1>8. Claimed' \subseteq Claimed  BY <1>2, <1>3, <1>5 DEF Claimed
<1>9. Listed'  BY <1>2, <1>3, <1>4 DEF QInv, Listed, IInv, TypeOK
<1>10. LimitHeld'  BY <1>2 DEF QInv, LimitHeld
<1>11. QED  BY <1>2, <1>6, <1>7, <1>8, <1>9, <1>10, QuotaStays

\* The recorder cannot be started: the place is given back.
LEMMA StartFailsQuota ==
  ASSUME IInv, QInv, StartFails
  PROVE  QInv'
<1>1. PICK i \in Ids : mu # Nil /\ mu.op = "start" /\ mu.id = i  BY DEF StartFails, IInv, TypeOK
<1>2. mu' = Nil /\ side' = [side EXCEPT ![i] = "none"] /\ UNCHANGED <<up, used, status, media, proc, bytes, limit, crashes>>
  BY <1>1 DEF StartFails
<1>3. Pending = {i} /\ Pending' = {}  BY <1>1, <1>2 DEF Pending
<1>4. Running' = Running /\ ActiveIds' = ActiveIds /\ Strays' = Strays  BY <1>2 DEF Running, ActiveIds, Strays
<1>5. Taken' \subseteq Taken  BY <1>3, <1>4 DEF Taken
<1>6. Claimed' \subseteq Claimed  BY <1>2, <1>3, <1>4 DEF Claimed
<1>7. Listed'  BY <1>2, <1>3 DEF QInv, Listed, IInv, TypeOK
<1>8. LimitHeld'  BY <1>2 DEF QInv, LimitHeld
<1>9. QED  BY <1>2, <1>4, <1>5, <1>6, <1>7, <1>8, QuotaStays

\* The recorder opens its output and writes what it has claimed.
LEMMA OutputQuota ==
  ASSUME IInv, QInv, NEW i \in Ids, OpenOutput(i) \/ WriteOutput(i)
  PROVE  QInv'
<1>1. /\ proc[i] = "run" /\ media' \in {media, media \cup {i}} /\ UNCHANGED <<up, used, status, mu, side, proc, limit, crashes>>
      /\ bytes' = bytes \/ (bytes[i] < limit[i] /\ bytes' = [bytes EXCEPT ![i] = @ + 1])
  BY DEF OpenOutput, WriteOutput
<1>2. i \in used /\ i \in Running  BY <1>1 DEF IInv, Known, Running
<1>3. LimitHeld'  BY <1>1, <1>2 DEF QInv, LimitHeld, IInv, TypeOK
<1>4. /\ Running' = Running /\ ActiveIds' = ActiveIds /\ Strays' = Strays /\ Pending' = Pending /\ Taken' = Taken
  BY <1>1 DEF Running, ActiveIds, Strays, Pending, Taken
<1>5. Listed'  BY <1>1, <1>4 DEF QInv, Listed
<1>6. ASSUME NEW x \in Claimed' PROVE x \in Claimed
  <2>1. PICK j \in Ids, n \in 1 .. MaxSize : x = <<j, n>>  BY <1>6 DEF Claimed
  <2>2. (j \in Running \cup Pending /\ n <= limit[j]) \/ (j \in media' /\ n <= bytes'[j])
    BY <1>1, <1>4, <1>6, <2>1 DEF Claimed
  <2>3. CASE j = i
    <3>1. bytes'[i] \in Nat /\ limit[i] \in Nat /\ bytes'[i] <= limit[i]  BY <1>1, <1>3 DEF LimitHeld, IInv, TypeOK
    <3>2. n <= limit[i]  BY <2>2, <2>3, <3>1
    <3>3. QED  BY <1>2, <2>1, <2>3, <3>2 DEF Claimed
  <2>4. CASE j # i
    <3>1. bytes'[j] = bytes[j] /\ (j \in media' => j \in media)  BY <1>1, <2>4 DEF IInv, TypeOK
    <3>2. QED  BY <2>1, <2>2, <3>1 DEF Claimed
  <2>5. QED  BY <2>3, <2>4
<1>7. QED  BY <1>1, <1>3, <1>4, <1>5, <1>6, QuotaStays

\* Steps after which there are fewer recorders or files, and none that is listed or taken
\* is new.
LEMMA QuotaShrinks ==
  ASSUME IInv, QInv, UNCHANGED <<used, bytes, limit, crashes>>, Listed', Pending' \subseteq Pending, media' \subseteq media,
         Running' \subseteq Running, ActiveIds' \subseteq ActiveIds, \A i \in Running' : status[i] \in Active => status'[i] \in Active
  PROVE  QInv'
<1>1. LimitHeld'  BY DEF QInv, LimitHeld
<1>2. Taken' \subseteq Taken  BY DEF Taken
<1>3. Strays' \subseteq Strays  BY DEF Strays
<1>4. Claimed' \subseteq Claimed  BY DEF Claimed
<1>5. QED  BY <1>1, <1>2, <1>3, <1>4, QuotaStays

\* The recorder exits.
LEMMA ExitQuota ==
  ASSUME IInv, QInv, NEW i \in Ids, NEW how \in {"ok", "err"}, ProcExit(i, how)
  PROVE  QInv'
<1>1. UNCHANGED <<up, used, status, mu, side, media, bytes, limit, crashes>> /\ proc' = [proc EXCEPT ![i] = how]
  BY DEF ProcExit
<1>2. Running' \subseteq Running  BY <1>1 DEF Running, IInv, TypeOK
<1>3. Pending' = Pending /\ ActiveIds' = ActiveIds  BY <1>1 DEF Pending, ActiveIds
<1>4. Listed'  BY <1>1, <1>3 DEF QInv, Listed
<1>5. QED  BY <1>1, <1>2, <1>3, <1>4, QuotaShrinks

\* The end of a recording, whose recorder has exited.
LEMMA FinaliseQuota ==
  ASSUME IInv, QInv, ~MayHang, NEW i \in Ids, Finalise(i)
  PROVE  QInv'
<1>1. Exited(i)  BY DEF Finalise, IInv, Watched
<1>2. Outcome(i) \in Final  BY DEF Outcome
<1>3. /\ UNCHANGED <<up, used, mu, proc, bytes, limit, crashes>> /\ mu = Nil
      /\ media' \subseteq media /\ status' = [status EXCEPT ![i] = Outcome(i)]
      /\ side' \in {side, [side EXCEPT ![i] = Outcome(i)]}
  BY DEF Finalise, Locked
<1>4. Running' = Running /\ Pending' = Pending /\ i \notin Running  BY <1>1, <1>3 DEF Running, Pending, Exited
<1>5. ActiveIds' \subseteq ActiveIds  BY <1>2, <1>3 DEF ActiveIds, IInv, TypeOK
<1>6. \A j \in Running' : status[j] \in Active => status'[j] \in Active  BY <1>3, <1>4 DEF IInv, TypeOK
<1>7. Listed'  BY <1>2, <1>3, <1>4 DEF QInv, Listed, IInv, TypeOK
<1>8. QED  BY <1>3, <1>4, <1>5, <1>6, <1>7, QuotaShrinks

\* The removal of a file, and of its sidecar.
LEMMA RemovalQuota ==
  ASSUME IInv, QInv, (\E i \in Ids : Sweep(i)) \/ (\E c \in Clients : Delete(c)) \/ RemoveSidecar
  PROVE  QInv'
<1>1. CASE (\E i \in Ids : Sweep(i)) \/ (\E c \in Clients : Delete(c))
  <2>1. /\ UNCHANGED <<up, used, status, side, proc, bytes, limit, crashes>> /\ mu = Nil /\ media' \subseteq media
        /\ mu' = Nil \/ mu'.op = "remove"
    BY <1>1 DEF Sweep, Delete, Locked, RemoveMedia
  <2>2. Pending = {} /\ Pending' = {}  BY <2>1 DEF Pending
  <2>3. Running' = Running /\ ActiveIds' = ActiveIds  BY <2>1 DEF Running, ActiveIds
  <2>4. Listed'  BY <2>1, <2>2 DEF QInv, Listed
  <2>5. QED  BY <2>1, <2>2, <2>3, <2>4, QuotaShrinks
<1>2. CASE RemoveSidecar
  <2>1. PICK i \in Ids : mu # Nil /\ mu.op = "remove" /\ mu.id = i  BY <1>2 DEF RemoveSidecar, IInv, TypeOK
  <2>2. /\ mu' = Nil /\ side' = [side EXCEPT ![i] = "none"] /\ status' = [status EXCEPT ![i] = "none"]
        /\ UNCHANGED <<up, used, media, proc, bytes, limit, crashes>>
    BY <1>2, <2>1 DEF RemoveSidecar
  <2>3. status[i] \in Final  BY <2>1 DEF IInv, Holder
  <2>4. Pending = {} /\ Pending' = {} /\ Running' = Running  BY <2>1, <2>2 DEF Pending, Running
  <2>5. ActiveIds' = ActiveIds /\ \A j \in Ids : status[j] \in Active => status'[j] \in Active
    BY <2>2, <2>3 DEF ActiveIds, IInv, TypeOK
  <2>6. Listed'  BY <2>2, <2>4 DEF QInv, Listed, IInv, TypeOK
  <2>7. QED  BY <2>2, <2>4, <2>5, <2>6, QuotaShrinks DEF Running
<1>3. QED  BY <1>1, <1>2

\* The next process lists what it finds, as over.
LEMMA LoadQuota ==
  ASSUME IInv, QInv, Load
  PROVE  QInv'
<1>1. /\ ~up /\ status' = [i \in Ids |-> IF i \in Interrupted THEN "failed" ELSE side[i]]
      /\ media' \subseteq media /\ UNCHANGED <<used, mu, proc, bytes, limit, crashes>>
  BY DEF Load
<1>2. PICK written \in SUBSET Interrupted : side' = [i \in Ids |-> IF i \in written THEN "failed" ELSE side[i]]
  BY DEF Load
<1>3. Running' = Running /\ Pending' = Pending  BY <1>1 DEF Running, Pending
<1>4. \A i \in Ids : status'[i] \notin Active /\ status[i] \notin Active  BY <1>1 DEF Interrupted, IInv, TypeOK, Down
<1>5. ActiveIds' = {} /\ ActiveIds = {}  BY <1>4 DEF ActiveIds
<1>6. \A i \in Ids : side'[i] # "none" => status'[i] # "none"  BY <1>1, <1>2 DEF Interrupted
<1>7. Listed'  BY <1>6 DEF Listed
<1>8. QED  BY <1>1, <1>3, <1>4, <1>5, <1>7, QuotaShrinks DEF Running

\* A crash: whoever recorded may go on as a stray.
LEMMA CrashQuota ==
  ASSUME IInv, QInv, MaxBytes > 0, Crash
  PROVE  QInv'
<1>1. /\ up' = FALSE /\ crashes' = crashes + 1 /\ mu' = Nil /\ status' = [i \in Ids |-> "none"]
      /\ UNCHANGED <<used, side, media, bytes, limit>>
  BY DEF Crash
<1>2. PICK alive \in SUBSET {i \in Ids : proc[i] = "run" /\ opened[i]} :
        proc' = [i \in Ids |-> IF proc[i] = "run" /\ i \notin alive THEN "err" ELSE proc[i]]
  BY DEF Crash
<1>3. Running' \subseteq Running  BY <1>2 DEF Running
<1>4. Pending' = {} /\ ActiveIds' = {} /\ Strays' \subseteq Running  BY <1>1, <1>3 DEF Pending, ActiveIds, Strays
<1>5. LimitHeld' /\ Listed'  BY <1>1 DEF QInv, LimitHeld, Listed
<1>6. PICK t, s, c, s1, c1 : t = Taken /\ s = Strays /\ c = Claimed /\ s1 = Strays' /\ c1 = Claimed'  OBVIOUS
<1>7. IsFiniteSet(t) /\ IsFiniteSet(s) /\ IsFiniteSet(c)  BY <1>6, QuotaFinite
<1>8. s1 \subseteq t \cup s  BY <1>4, <1>6 DEF Running, Strays, Taken, ActiveIds
<1>9. c1 \subseteq c  BY <1>1, <1>3, <1>4, <1>6 DEF Claimed
<1>10. Cardinality(c1) \in Nat /\ Cardinality(c) \in Nat /\ Cardinality(c1) <= Cardinality(c)  BY ONLY <1>7, <1>9, Smaller
<1>11. /\ IsFiniteSet(t \cup s) /\ Cardinality(t \cup s) \in Nat /\ Cardinality(t) \in Nat /\ Cardinality(s) \in Nat
       /\ Cardinality(t \cup s) <= Cardinality(t) + Cardinality(s)
  BY ONLY <1>7, Together
<1>12. Cardinality(s1) \in Nat /\ Cardinality(s1) <= Cardinality(t \cup s)  BY ONLY <1>8, <1>11, Smaller
<1>13. PICK m \in Nat, n \in Nat : m = crashes * MaxActive /\ n = Places * MaxBytes  BY DEF IInv, TypeOK, Places
<1>14. Cardinality(t) <= MaxActive /\ Cardinality(s) <= m /\ Cardinality(c) <= n  BY <1>6, <1>13 DEF QInv
<1>15. crashes' * MaxActive = m + MaxActive
  <2>1. crashes \in Nat  BY DEF IInv, TypeOK
  <2>2. QED  BY <1>1, <1>13, <2>1
<1>16. Places' * MaxBytes >= n
  <2>1. crashes \in Nat  BY DEF IInv, TypeOK
  <2>2. Places \in Nat /\ Places' = Places + MaxActive  BY <1>1, <2>1 DEF Places
  <2>3. PICK p \in Nat : p = Places  BY <2>2
  <2>4. (p + MaxActive) * MaxBytes = p * MaxBytes + MaxActive * MaxBytes /\ MaxActive * MaxBytes \in Nat  OBVIOUS
  <2>5. QED  BY <1>13, <2>2, <2>3, <2>4
<1>17. Cardinality(Taken') <= MaxActive
  <2>1. Taken' = {}  BY <1>4 DEF Taken
  <2>2. Cardinality({}) = 0  BY FS_EmptySet
  <2>3. QED  BY <2>1, <2>2
<1>18. Cardinality(s1) <= crashes' * MaxActive  BY <1>11, <1>12, <1>13, <1>14, <1>15
<1>19. Cardinality(c1) <= Places' * MaxBytes
  <2>1. Places' * MaxBytes \in Int
    <3>1. crashes' \in Nat  BY <1>1 DEF IInv, TypeOK
    <3>2. QED  BY <3>1 DEF Places
  <2>2. QED  BY <1>10, <1>13, <1>14, <1>16, <2>1
<1>20. QED  BY <1>5, <1>6, <1>17, <1>18, <1>19 DEF QInv

\* Whatever recordings overlap, and whatever recorders outlive a crash, the quota is
\* exceeded by no more than one quota for each recorder that may run.
THEOREM QuotaKept == ASSUME ~MayHang, MaxBytes > 0 PROVE Spec => []QuotaHeld
<1>1. Init => QInv
  <2> SUFFICES ASSUME Init PROVE QInv
    OBVIOUS
  <2>1. Taken = {} /\ Strays = {} /\ Claimed = {}
    BY DEF Init, Taken, ActiveIds, Pending, Strays, Running, Claimed
  <2>2. LimitHeld /\ Listed  BY DEF Init, LimitHeld, Listed
  <2>3. Cardinality({}) = 0  BY FS_EmptySet
  <2>4. crashes = 0 /\ Places * MaxBytes \in Nat  BY DEF Init, Places
  <2>5. QED  BY <2>1, <2>2, <2>3, <2>4 DEF QInv
<1>2. IInv /\ QInv /\ [Next]_vars => QInv'
  <2> SUFFICES ASSUME IInv, QInv, [Next]_vars PROVE QInv'
    OBVIOUS
  <2>1. CASE UNCHANGED vars  BY <2>1, QuotaApart DEF vars
  <2>2. CASE \E i \in Ids : \/ Supervise(i) \/ Halt(i) \/ HaltKilled(i)
                            \/ \E c \in Clients, del \in BOOLEAN : Stop(c, i, del)
                            \/ \E f \in Followers : Follow(f, i)
    BY <2>2, QuotaApart DEF Supervise, Halt, HaltKilled, Stop, Follow
  <2>3. CASE \/ Close \/ CloseReturns \/ \E c \in Clients : StopReturns(c)
             \/ \E f \in Followers : FollowOpen(f) \/ FollowRead(f) \/ FollowCheck(f) \/ FollowDrain(f) \/ FollowLeaves(f)
    BY <2>3, QuotaApart DEF Close, CloseReturns, StopReturns, FollowOpen, FollowRead, FollowCheck, FollowDrain, FollowLeaves
  <2>4. QED
    BY <2>1, <2>2, <2>3, StartQuota, StartProcQuota, StartFailsQuota, OutputQuota, ExitQuota, FinaliseQuota, RemovalQuota,
       LoadQuota, CrashQuota DEF Next
<1>3. IInv /\ QInv => QuotaHeld
  <2> SUFFICES ASSUME IInv, QInv PROVE UsedBytes <= Places * MaxBytes
    BY DEF QuotaHeld, Places
  <2>1. PICK s, c : s = Stored /\ c = Claimed  OBVIOUS
  <2>2. IsFiniteSet(c) /\ s \subseteq c  BY <2>1, QuotaFinite DEF Stored, Claimed
  <2>3. Cardinality(s) \in Nat /\ Cardinality(c) \in Nat /\ Cardinality(s) <= Cardinality(c)  BY ONLY <2>2, Smaller
  <2>4. PICK n \in Int : n = Places * MaxBytes
    <3>1. crashes \in Nat  BY DEF IInv, TypeOK
    <3>2. Places * MaxBytes \in Int  BY <3>1 DEF Places
    <3>3. QED  BY <3>2
  <2>5. Cardinality(c) <= n  BY <2>1, <2>4 DEF QInv
  <2>6. Cardinality(s) <= n  BY ONLY <2>3, <2>4, <2>5
  <2>7. QED  BY <2>1, <2>4, <2>6 DEF UsedBytes
<1>4. QED  BY <1>1, <1>2, <1>3, Inductive, PTL DEF Spec

=============================================================================
