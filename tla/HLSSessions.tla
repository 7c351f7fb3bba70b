---------------------------- MODULE HLSSessions ----------------------------
(***************************************************************************)
(* The life of HLS transcode sessions (internal/media/hls.go, persist.go): *)
(* StartHLS, HLSFile and DeleteHLS calls, the idle reaper with its         *)
(* session.json flushes, CloseHLS, and the next process that finds the     *)
(* session directories of this one.                                        *)
(*                                                                         *)
(* A session object is <<id, generation>>: an id that was deleted may be   *)
(* started again, in the same directory <base>/<id>, while calls on the    *)
(* old object are still running. Media, probe results and file contents    *)
(* are abstract; a file is known by the session that wrote it. m.mu is     *)
(* held within an action and never across two.                             *)
(***************************************************************************)
EXTENDS Integers, FiniteSets

CONSTANTS
  Ids,          \* session ids
  Clients,      \* HTTP requests
  Reaper,       \* the reaper goroutine, and CloseHLS once it has stopped
  MaxSessions,  \* HLSConfig.MaxSessions
  Nil,
  MaxGen,       \* bound: sessions made for one id
  MaxExits      \* bound: restarts

ASSUME HLSAssumption ==
  /\ IsFiniteSet(Clients) /\ Reaper \notin Clients
  /\ MaxGen \in Nat /\ Nil \notin Ids \X (1 .. MaxGen)

Inst  == Ids \X (1 .. MaxGen)
Procs == Clients \cup {Reaper}

VARIABLES
  persist, up, closing,     \* HLSConfig.Persist; the process runs; CloseHLS: "no", "wait", "flush", "done"
  sessions, draining, gen,  \* id -> generation, 0 when absent; the generations made so far
  inFlight, deleted, removed, probed,   \* fields of the session objects
  idle, dirty,              \* registered sessions whose lastAccess is past the TTL; has moved since
                            \* session.json was written
  dirs, files, json,        \* disk: directories, who wrote files into them, whose session.json
  pc, at, todo,             \* the goroutines, the session each works on, the reaper's list
  exits

disk   == <<dirs, files, json>>
objs   == <<inFlight, deleted, removed, probed, idle, dirty>>
procs  == <<pc, at, todo>>
hlsVars == <<persist, up, closing, sessions, draining, gen, objs, disk, procs, exits>>

HLSInit ==
  /\ persist \in BOOLEAN /\ up = TRUE /\ closing = "no" /\ exits = 0
  /\ sessions = [i \in Ids |-> 0] /\ draining = [i \in Ids |-> 0] /\ gen = [i \in Ids |-> 0]
  /\ inFlight = [s \in Inst |-> 0]
  /\ deleted = {} /\ removed = {} /\ probed = {} /\ idle = {} /\ dirty = {}
  /\ dirs = {} /\ files = {} /\ json = [i \in Ids |-> 0]
  /\ pc = [p \in Procs |-> IF p = Reaper THEN "sleep" ELSE "idle"]
  /\ at = [p \in Procs |-> Nil] /\ todo = {}

Registered == {s \in Inst : sessions[s[1]] = s[2]}

Enter(p, s, l) == pc' = [pc EXCEPT ![p] = l] /\ at' = [at EXCEPT ![p] = s] /\ UNCHANGED todo
Goto(p, l) == Enter(p, IF l \in {"idle", "victims", "flush"} THEN Nil ELSE at[p], l)

\* The place to go back to: a request is over, the reaper has its list.
Back(p, l) == IF p = Reaper THEN l ELSE "idle"

\* lastAccess.Store(now); of a session that is gone nobody reads it again.
Touch(s) == idle' = idle \ {s} /\ dirty' = dirty \cup ({s} \cap Registered)

\* The HTTP servers are drained before CloseHLS: it sees no new request.
Serving(c) == up /\ closing # "done" /\ pc[c] = "idle"

-----------------------------------------------------------------------------
(* StartHLS *)

\* Mutant: an id that is being deleted may be started again.
StartNoDrain(c, i) ==
  /\ Serving(c)
  /\ \/ /\ sessions[i] # 0
        /\ Enter(c, <<i, sessions[i]>>, "touch")
        /\ UNCHANGED <<sessions, gen, dirs, objs>>
     \/ /\ sessions[i] = 0
        /\ Cardinality(Registered) < MaxSessions /\ gen[i] < MaxGen
        /\ gen' = [gen EXCEPT ![i] = @ + 1] /\ sessions' = [sessions EXCEPT ![i] = gen[i] + 1]
        /\ dirs' = dirs \cup {i}
        /\ Enter(c, <<i, gen[i] + 1>>, "touch") /\ dirty' = dirty \cup {<<i, gen[i] + 1>>}
        /\ UNCHANGED <<inFlight, deleted, removed, probed, idle>>
  /\ UNCHANGED <<persist, up, closing, draining, files, json, exits>>

\* The section of m.mu: look up or create, unless the id is still being deleted
\* or there are too many.
StartHLS(c, i) ==
  /\ Serving(c)
  /\ \/ /\ sessions[i] # 0
        /\ Enter(c, <<i, sessions[i]>>, "touch")
        /\ UNCHANGED <<sessions, gen, dirs, objs>>
     \/ /\ sessions[i] = 0 /\ draining[i] = 0
        /\ Cardinality(Registered) < MaxSessions /\ gen[i] < MaxGen
        /\ gen' = [gen EXCEPT ![i] = @ + 1] /\ sessions' = [sessions EXCEPT ![i] = gen[i] + 1]
        /\ dirs' = dirs \cup {i}
        /\ Enter(c, <<i, gen[i] + 1>>, "touch") /\ dirty' = dirty \cup {<<i, gen[i] + 1>>}
        /\ UNCHANGED <<inFlight, deleted, removed, probed, idle>>
  /\ UNCHANGED <<persist, up, closing, draining, files, json, exits>>

\* lastAccess again, after the unlock; a session with a duration needs no probe.
StartTouch(c) ==
  /\ pc[c] = "touch"
  /\ Touch(at[c]) /\ Goto(c, IF at[c] \in probed THEN "idle" ELSE "probe")
  /\ UNCHANGED <<persist, up, closing, sessions, draining, gen, inFlight, deleted, removed, probed, disk, exits>>

\* The probe fails, finds no duration or its caller goes away; or its result is
\* stored, by the first caller that has one, who goes on to persist the session.
StartProbe(c) ==
  /\ pc[c] = "probe"
  /\ \/ UNCHANGED probed /\ Goto(c, "idle")
     \/ probed' = probed \cup {at[c]} /\ Goto(c, IF at[c] \notin probed /\ persist THEN "check" ELSE "idle")
  /\ UNCHANGED <<persist, up, closing, sessions, draining, gen, inFlight, deleted, removed, idle, dirty, disk, exits>>

-----------------------------------------------------------------------------
(* persistSession, called by StartHLS, the reaper and CloseHLS *)

\* Only the registered session is written, if it has a duration ...
PersistCheck(p) ==
  /\ pc[p] = "check"
  /\ Goto(p, IF at[p] \in Registered \cap probed THEN "write" ELSE Back(p, "flush"))
  /\ UNCHANGED <<persist, up, closing, sessions, draining, gen, objs, disk, exits>>

\* ... after the unlock. The temporary file and its rename need the directory.
PersistWrite(p) ==
  /\ pc[p] = "write"
  /\ IF at[p][1] \in dirs
     THEN json' = [json EXCEPT ![at[p][1]] = at[p][2]] /\ dirty' = dirty \ {at[p]}
     ELSE UNCHANGED <<json, dirty>>
  /\ Goto(p, Back(p, "flush"))
  /\ UNCHANGED <<persist, up, closing, sessions, draining, gen, inFlight, deleted, removed, probed, idle, dirs, files, exits>>

-----------------------------------------------------------------------------
(* HLSFile *)

HLSFile(c, i) ==
  /\ Serving(c) /\ sessions[i] # 0
  /\ LET s == <<i, sessions[i]>> IN
     /\ Touch(s) /\ inFlight' = [inFlight EXCEPT ![s] = @ + 1]
     /\ Enter(c, s, "work")
  /\ UNCHANGED <<persist, up, closing, sessions, draining, gen, deleted, removed, probed, disk, exits>>

\* A playlist, a segment or a subtitle is written, or there is nothing to write
\* or the work fails.
FileWork(c) ==
  /\ pc[c] = "work"
  /\ files' \in {files, IF at[c][1] \in dirs THEN files \cup {at[c]} ELSE files}
  /\ Goto(c, "exit")
  /\ UNCHANGED <<persist, up, closing, sessions, draining, gen, objs, dirs, json, exits>>

\* The deferred exit: inFlight goes down first ...
FileExit(c) ==
  /\ pc[c] = "exit"
  /\ Touch(at[c]) /\ inFlight' = [inFlight EXCEPT ![at[c]] = @ - 1]
  /\ Goto(c, IF inFlight[at[c]] = 1 THEN "left" ELSE "idle")
  /\ UNCHANGED <<persist, up, closing, sessions, draining, gen, deleted, removed, probed, disk, exits>>

\* Mutant: the last call does not look.
FileLeftUnchecked(c) ==
  /\ pc[c] = "left" /\ Goto(c, "idle")
  /\ UNCHANGED <<persist, up, closing, sessions, draining, gen, objs, disk, exits>>

\* ... and the call that took it to 0 looks whether the session was deleted.
FileLeft(c) ==
  /\ pc[c] = "left"
  /\ Goto(c, IF at[c] \in deleted THEN "remove" ELSE "idle")
  /\ UNCHANGED <<persist, up, closing, sessions, draining, gen, objs, disk, exits>>

-----------------------------------------------------------------------------
(* DeleteHLS and removeDeletedSession *)

DeleteHLS(c, i) ==
  /\ Serving(c) /\ sessions[i] # 0
  /\ LET s == <<i, sessions[i]>> IN
     /\ draining' = [draining EXCEPT ![i] = s[2]] /\ deleted' = deleted \cup {s}
     /\ idle' = idle \ {s} /\ dirty' = dirty \ {s}
     /\ IF inFlight[s] = 0 THEN Enter(c, s, "remove") ELSE UNCHANGED procs
  /\ sessions' = [sessions EXCEPT ![i] = 0]
  /\ UNCHANGED <<persist, up, closing, gen, inFlight, removed, probed, disk, exits>>

\* The compare-and-swap on s.removed.
RemoveOnce(p) ==
  /\ pc[p] = "remove"
  /\ removed' = removed \cup {at[p]}
  /\ Goto(p, IF at[p] \in removed THEN Back(p, "victims") ELSE "rmdir")
  /\ UNCHANGED <<persist, up, closing, sessions, draining, gen, inFlight, deleted, probed, idle, dirty, disk, exits>>

\* os.RemoveAll(s.dir)
RemoveDir(p) ==
  /\ pc[p] = "rmdir" /\ Goto(p, "clear")
  /\ dirs' = dirs \ {at[p][1]} /\ files' = {s \in files : s[1] # at[p][1]}
  /\ json' = [json EXCEPT ![at[p][1]] = 0]
  /\ UNCHANGED <<persist, up, closing, sessions, draining, gen, objs, exits>>

ClearDraining(p) ==
  /\ pc[p] = "clear" /\ Goto(p, Back(p, "victims"))
  /\ draining' = IF draining[at[p][1]] = at[p][2] THEN [draining EXCEPT ![at[p][1]] = 0] ELSE draining
  /\ UNCHANGED <<persist, up, closing, sessions, gen, objs, disk, exits>>

-----------------------------------------------------------------------------
(* The reaper and CloseHLS *)

\* A TTL goes by.
GoIdle(s) ==
  /\ s \in Registered \ idle /\ idle' = idle \cup {s}
  /\ UNCHANGED <<persist, up, closing, sessions, draining, gen, inFlight, deleted, removed, probed, dirty, disk, procs, exits>>

Dirty == Registered \cap dirty

\* Mutant: sessions with calls in flight are evicted too.
ExpiredBusy == Registered \cap idle

Expired == {s \in Registered \cap idle : inFlight[s] = 0}

\* evictIdle, the section of m.mu.
EvictIdle ==
  /\ up /\ pc[Reaper] = "sleep"
  /\ sessions' = [i \in Ids |-> IF <<i, sessions[i]>> \in Expired THEN 0 ELSE sessions[i]]
  /\ draining' = [i \in Ids |-> IF <<i, sessions[i]>> \in Expired THEN sessions[i] ELSE draining[i]]
  /\ deleted' = deleted \cup Expired
  /\ idle' = idle \ Expired /\ dirty' = dirty \ Expired
  /\ todo' = Expired /\ pc' = [pc EXCEPT ![Reaper] = "victims"] /\ UNCHANGED at
  /\ UNCHANGED <<persist, up, closing, gen, inFlight, removed, probed, disk, exits>>

\* The reaper takes the next session of its list to the steps at l.
Take(l) ==
  \E s \in todo : /\ todo' = todo \ {s} /\ at' = [at EXCEPT ![Reaper] = s]
                  /\ pc' = [pc EXCEPT ![Reaper] = l]

\* After the victims, flushAccess lists the sessions accessed since they were written.
ReapVictims ==
  /\ pc[Reaper] = "victims"
  /\ \/ Take("remove")
     \/ /\ todo = {} /\ UNCHANGED at
        /\ IF persist THEN todo' = Dirty /\ pc' = [pc EXCEPT ![Reaper] = "flush"]
           ELSE pc' = [pc EXCEPT ![Reaper] = "sleep"] /\ UNCHANGED todo
  /\ UNCHANGED <<persist, up, closing, sessions, draining, gen, objs, disk, exits>>

FlushAccess ==
  /\ pc[Reaper] = "flush"
  /\ \/ Take("check")
     \/ todo = {} /\ Goto(Reaper, IF closing = "flush" THEN "stopped" ELSE "sleep")
  /\ UNCHANGED <<persist, up, closing, sessions, draining, gen, objs, disk, exits>>

\* CloseHLS signals the reaper ...
CloseHLS ==
  /\ up /\ closing = "no" /\ closing' = "wait"
  /\ UNCHANGED <<persist, up, sessions, draining, gen, objs, disk, procs, exits>>

\* ... which stops; with persistence CloseHLS has waited for that and flushes.
ReaperStops ==
  /\ pc[Reaper] = "sleep" /\ closing # "no" /\ UNCHANGED at
  /\ IF persist THEN /\ closing' = "flush" /\ todo' = Dirty /\ pc' = [pc EXCEPT ![Reaper] = "flush"]
     ELSE pc' = [pc EXCEPT ![Reaper] = "stopped"] /\ UNCHANGED <<closing, todo>>
  /\ UNCHANGED <<persist, up, sessions, draining, gen, objs, disk, exits>>

\* The maps are dropped and, without persistence, the base directory is removed.
CloseClears ==
  /\ up /\ IF persist THEN closing = "flush" /\ pc[Reaper] = "stopped" ELSE closing = "wait"
  /\ closing' = "done"
  /\ sessions' = [i \in Ids |-> 0] /\ draining' = [i \in Ids |-> 0]
  /\ idle' = {} /\ dirty' = {}
  /\ IF persist THEN UNCHANGED disk ELSE dirs' = {} /\ files' = {} /\ json' = [i \in Ids |-> 0]
  /\ UNCHANGED <<persist, up, gen, inFlight, deleted, removed, probed, procs, exits>>

-----------------------------------------------------------------------------
(* The process ends, after CloseHLS or not, and another one loads its sessions *)

ProcessEnds ==
  /\ up /\ persist /\ exits < MaxExits
  /\ up' = FALSE /\ exits' = exits + 1 /\ closing' = "no"
  /\ sessions' = [i \in Ids |-> 0] /\ draining' = [i \in Ids |-> 0]
  /\ inFlight' = [s \in Inst |-> 0]
  /\ deleted' = {} /\ removed' = {} /\ probed' = {} /\ idle' = {} /\ dirty' = {}
  /\ pc' = [p \in Procs |-> IF p = Reaper THEN "sleep" ELSE "idle"]
  /\ at' = [p \in Procs |-> Nil] /\ todo' = {}
  /\ UNCHANGED <<persist, gen, disk>>

\* loadPersisted: a directory without a session.json goes; one may go because it
\* is idle, its settings changed or there are too many. The session takes the
\* files it finds in its directory for its own.
LoadPersisted ==
  /\ ~up /\ up' = TRUE
  /\ \E kept \in SUBSET {i \in dirs : json[i] # 0} :
       /\ Cardinality(kept) <= MaxSessions
       /\ sessions' = [i \in Ids |-> IF i \in kept THEN json[i] ELSE 0]
       /\ probed' = {s \in Inst : s[1] \in kept /\ s[2] = json[s[1]]}
       /\ dirs' = kept
       /\ files' = {s \in Inst : s[1] \in kept /\ s[2] = json[s[1]] /\ \E f \in files : f[1] = s[1]}
       /\ json' = [i \in Ids |-> IF i \in kept THEN json[i] ELSE 0]
  /\ UNCHANGED <<persist, closing, draining, gen, inFlight, deleted, removed, idle, dirty, procs, exits>>

-----------------------------------------------------------------------------
Removes(p) == RemoveOnce(p) \/ RemoveDir(p) \/ ClearDraining(p)

ClientStep(c) ==
  \/ StartTouch(c) \/ StartProbe(c) \/ FileWork(c) \/ FileExit(c) \/ FileLeft(c)

HLSNext ==
  \/ \E c \in Clients : \/ ClientStep(c)
                        \/ \E i \in Ids : StartHLS(c, i) \/ HLSFile(c, i) \/ DeleteHLS(c, i)
  \/ \E p \in Procs : PersistCheck(p) \/ PersistWrite(p) \/ Removes(p)
  \/ \E s \in Inst : GoIdle(s)
  \/ EvictIdle \/ ReapVictims \/ FlushAccess \/ CloseHLS \/ ReaperStops \/ CloseClears
  \/ ProcessEnds \/ LoadPersisted

HLSSpec == HLSInit /\ [][HLSNext]_hlsVars

\* Goroutines run, and every HLSFile call ends: each transcode has a deadline.
HLSFairness ==
  /\ \A c \in Clients : WF_hlsVars(ClientStep(c))
  /\ \A p \in Procs : WF_hlsVars(PersistCheck(p) \/ PersistWrite(p) \/ Removes(p))
  /\ WF_hlsVars(ReapVictims \/ FlushAccess)

HLSFairSpec == HLSSpec /\ HLSFairness

-----------------------------------------------------------------------------
(* Properties *)

\* Every variable has its type.
SessionTypeOK ==
  /\ persist \in BOOLEAN /\ up \in BOOLEAN /\ closing \in {"no", "wait", "flush", "done"}
  /\ \A f \in {sessions, draining, gen, json} : f \in [Ids -> 0 .. MaxGen]
  /\ inFlight \in [Inst -> Nat]
  /\ \A s \in {deleted, removed, probed, idle, dirty, files, todo} : s \subseteq Inst
  /\ dirs \subseteq Ids
  /\ pc \in [Procs -> {"idle", "touch", "probe", "check", "write", "work", "exit", "left", "remove", "rmdir",
                       "clear", "sleep", "victims", "flush", "stopped"}]
  /\ at \in [Procs -> Inst \cup {Nil}] /\ exits \in Nat

Live == up /\ closing # "done"

\* A session that is registered has its directory.
RegisteredDir == Live => \A s \in Registered : s[1] \in dirs

Removing == {p \in Procs : pc[p] \in {"rmdir", "clear"}}

\* What is being removed is the session that is draining under its id, no new
\* session of the id is registered before that is over, and one goroutine does it.
RemovalOwn ==
  Live => \A p \in Removing : /\ draining[at[p][1]] = at[p][2] /\ sessions[at[p][1]] = 0
                             /\ \A q \in Removing : at[q] = at[p] => q = p

\* The reaper removes no directory of a session with a call in flight.
ReaperSpares == pc[Reaper] \in {"remove", "rmdir"} => inFlight[at[Reaper]] = 0

\* The files in a directory are of the session that is registered or draining
\* under that id, or of one whose directory was removed under a late call.
FilesOwn == Live => \A s \in files : s[2] \in {sessions[s[1]], draining[s[1]]} \/ s \in removed

\* However calls, deletions, evictions, restarts and the end of the process cross,
\* removals hit the session they are for, and no count of calls in flight goes
\* below zero.
SessionDirsKept == SessionTypeOK /\ RegisteredDir /\ RemovalOwn /\ ReaperSpares /\ FilesOwn

\* An id that is being deleted becomes free again.
DrainEnds == \A i \in Ids : []<>(draining[i] = 0)

=============================================================================
