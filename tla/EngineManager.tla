--------------------------- MODULE EngineManager ---------------------------
(***************************************************************************)
(* The torrent manager of internal/engine/engine.go: the map of live       *)
(* engines, the purge protocol that deletes an engine's cache directory    *)
(* outside the manager lock, the active-engine cap, the readers that pin   *)
(* an engine, and the janitor's size and idle passes.                      *)
(*                                                                         *)
(* A step is one section of the code under m.mu or under one e.mu. The     *)
(* code takes e.mu inside m.mu, and e.mu alone does not exclude m.mu: a    *)
(* reader may open between the janitor's check of openReaders and the      *)
(* Drop that follows it under the same m.mu. Those sections are therefore  *)
(* two steps here, with variable mu recording who still holds m.mu.        *)
(*                                                                         *)
(* An engine instance (a Go pointer) is its infohash and a generation. A   *)
(* generation is used again once nothing refers to the instance, as the    *)
(* collector guarantees for pointers. The channel of a purge is named by   *)
(* the instance it purges, and is open while a goroutine still has to run  *)
(* that instance's finish function.                                        *)
(***************************************************************************)
EXTENDS Integers, FiniteSets

CONSTANTS
  Hashes,      \* infohashes
  Clients,     \* goroutines serving API requests
  Janitor,     \* the goroutine of StartJanitor
  Free,        \* no goroutine holds m.mu across steps
  Nil,         \* the nil pointer
  MaxEngines,  \* m.maxEngines; <= 0 is unlimited
  Grace,       \* graceWindow of evict
  Idle,        \* cfg.IdleTimeout; <= 0 disables evictIdle
  Budgets,     \* what cacheSizeFn may return on a tick
  MaxGen,      \* bound: instances of one infohash referred to at one time
  MaxTime      \* bound: the clock stops here

ASSUME ConstantsAssumption ==
  /\ IsFiniteSet(Hashes)
  /\ Nil \notin Hashes \X (1..MaxGen)
  /\ MaxEngines \in Int /\ Grace \in Nat \ {0} /\ Idle \in Int
  /\ Budgets \subseteq Int
  /\ MaxGen \in Nat \ {0} /\ MaxTime \in Nat
  /\ Janitor \notin Clients /\ Free \notin Clients \cup {Janitor}

Inst      == Hashes \X (1..MaxGen)
HashOf(i) == i[1]
Procs     == Clients \cup {Janitor}

VARIABLES
  engines,      \* m.engines: infohash -> instance
  purging,      \* m.purging: infohash -> the instance being purged
  dir,          \* infohash -> the instance whose data is in the cache directory
  lastAccess,   \* e.lastAccess
  openReaders,  \* e.openReaders
  fresh,        \* history: instances EnsureEngine handed out since a readerless pass read its clock
  stopped,      \* m.done is closed
  now,          \* time.Now
  mu,           \* who holds m.mu between two steps
  pc,           \* where each goroutine is
  target,       \* the infohash a client asked for
  ref,          \* the instance a client holds, or waits for in "wait"
  todo,         \* instances whose finish function a goroutine has still to run
  cur,          \* the one whose finish function is running
  ret,          \* where it continues after the last finish function
  jan           \* the janitor's local variables

manVars   == <<engines, purging, dir>>
useVars   == <<lastAccess, openReaders, fresh>>
finVars   == <<todo, cur, ret>>
localVars == <<target, ref>>
vars == <<manVars, useVars, stopped, now, mu, pc, localVars, finVars, jan>>

(***************************************************************************)
(* The janitor's locals: the running pass, the snapshot still to visit,    *)
(* the lastAccess, reader count and size it read for each entry, the total *)
(* size, the budget, the pass's own "now" and the engine about to go.      *)
(***************************************************************************)
NoEntry == [la |-> 0, pinned |-> FALSE, size |-> 0]
JanInit ==
  [pass |-> "none", unread |-> {}, rest |-> {}, entry |-> [i \in Inst |-> NoEntry],
   total |-> 0, budget |-> 0, now |-> 0, victim |-> Nil]

Init ==
  /\ engines = [h \in Hashes |-> Nil]
  /\ purging = [h \in Hashes |-> Nil]
  /\ dir = [h \in Hashes |-> Nil]
  /\ lastAccess = [i \in Inst |-> 0]
  /\ openReaders = [i \in Inst |-> 0]
  /\ fresh = {}
  /\ stopped = FALSE
  /\ now = 0
  /\ mu = Free
  /\ pc = [p \in Procs |-> "idle"]
  /\ target \in {[c \in Clients |-> h] : h \in Hashes}
  /\ ref = [c \in Clients |-> Nil]
  /\ todo = [p \in Procs |-> {}]
  /\ cur = [p \in Procs |-> Nil]
  /\ ret = [p \in Procs |-> "idle"]
  /\ jan = JanInit

LiveHashes == {h \in Hashes : engines[h] # Nil}
Live       == {engines[h] : h \in LiveHashes}

\* The torrent of i was dropped: i left the map, or the client was closed.
Dropped(i) == stopped \/ i \notin Live

\* Instances of h nothing points to: a new engine is one of them.
Unused(h) ==
  {i \in {h} \X (1..MaxGen) :
     /\ i \notin Live
     /\ purging[h] # i
     /\ \A c \in Clients : ref[c] # i
     /\ \A p \in Procs : i \notin todo[p]
     /\ i \notin jan.unread \cup jan.rest
     /\ i # jan.victim}

Goto(p, l) == pc' = [pc EXCEPT ![p] = l]
Grant(i)   == fresh' = IF jan.pass \in {"grace", "idle"} THEN fresh \cup {i} ELSE {}
Bump(i)    == lastAccess' = [lastAccess EXCEPT ![i] = now]

-----------------------------------------------------------------------------
(* EnsureEngine *)

\* Mutant: the bump of lastAccess on reuse is forgotten.
ReuseNoBump(c, h) ==
  /\ engines[h] # Nil
  /\ Grant(engines[h])
  /\ ref' = [ref EXCEPT ![c] = engines[h]]
  /\ Goto(c, "have")
  /\ UNCHANGED <<manVars, lastAccess, openReaders, mu, jan, finVars>>

\* An engine exists: bump lastAccess while m.mu is held and hand it out.
Reuse(c, h) ==
  /\ engines[h] # Nil
  /\ Bump(engines[h])
  /\ Grant(engines[h])
  /\ ref' = [ref EXCEPT ![c] = engines[h]]
  /\ Goto(c, "have")
  /\ UNCHANGED <<manVars, openReaders, mu, jan, finVars>>

\* The directory is being deleted: wait on the purge's channel.
AwaitPurge(c, h) ==
  /\ engines[h] = Nil /\ purging[h] # Nil
  /\ ref' = [ref EXCEPT ![c] = purging[h]]
  /\ Goto(c, "wait")
  /\ UNCHANGED <<manVars, useVars, mu, jan, finVars>>

\* First look, under m.mu.RLock, on entry and after every retry.
EnsureFast(c, h) ==
  /\ pc[c] = "idle" \/ (pc[c] = "fast" /\ target[c] = h)
  /\ mu = Free
  /\ target' = [target EXCEPT ![c] = h]
  /\ \/ Reuse(c, h)
     \/ AwaitPurge(c, h)
     \/ /\ engines[h] = Nil /\ purging[h] = Nil
        /\ Goto(c, "slow")
        /\ UNCHANGED <<manVars, useVars, mu, jan, ref, finVars>>
  /\ UNCHANGED <<stopped, now>>

EnsureWait(c) ==
  /\ pc[c] = "wait"
  /\ \A p \in Procs : ref[c] \notin todo[p]
  /\ ref' = [ref EXCEPT ![c] = Nil]
  /\ Goto(c, "fast")
  /\ UNCHANGED <<manVars, useVars, stopped, now, mu, target, finVars, jan>>

\* Mutant: the cap is tested with > instead of >=.
AtCapLate == MaxEngines > 0 /\ Cardinality(LiveHashes) > MaxEngines

AtCap == MaxEngines > 0 /\ Cardinality(LiveHashes) >= MaxEngines

\* oldestIdleLocked: the least recently used engines without readers.
IdleLive   == {i \in Live : openReaders[i] = 0}

\* Mutant: a nil victim is returned when every engine is read, and purged.
OldestIdleOrNil == IF IdleLive = {} THEN {Nil} ELSE IdleLive

OldestIdle == {i \in IdleLive : \A j \in IdleLive : lastAccess[i] <= lastAccess[j]}

\* The torrent is added and a new instance enters the map.
Create(c, h) ==
  /\ ~AtCap /\ ~stopped
  /\ \E i \in Unused(h) :
       /\ \A j \in Unused(h) : i[2] <= j[2]
       /\ engines' = [engines EXCEPT ![h] = i]
       /\ Bump(i)
       /\ Grant(i)
       /\ openReaders' = [openReaders EXCEPT ![i] = 0]
       /\ ref' = [ref EXCEPT ![c] = i]
  /\ Goto(c, "have")
  /\ UNCHANGED <<purging, dir, mu, jan, finVars>>

\* The cap is reached: pick a victim and keep m.mu, or fail when all are read.
PickVictim(c, h) ==
  /\ AtCap
  /\ \/ /\ OldestIdle = {}
        /\ Goto(c, "idle")
        /\ UNCHANGED <<ref, mu>>
     \/ \E v \in OldestIdle :
          /\ ref' = [ref EXCEPT ![c] = v]
          /\ mu' = c
          /\ Goto(c, "victim")
  /\ UNCHANGED <<manVars, useVars, jan, finVars>>

\* A bad .torrent or a closed client: the error is returned, nothing is added.
AddFails(c) ==
  /\ ~AtCap
  /\ Goto(c, "idle")
  /\ UNCHANGED <<manVars, useVars, mu, jan, ref, finVars>>

\* Mutant: the second look does not ask whether the directory is being deleted.
EnsureSlowUnchecked(c) ==
  /\ pc[c] = "slow" /\ mu = Free
  /\ \/ Reuse(c, target[c])
     \/ /\ engines[target[c]] = Nil
        /\ Create(c, target[c]) \/ PickVictim(c, target[c]) \/ AddFails(c)
  /\ UNCHANGED <<stopped, now, target>>

\* Second look, under m.mu.Lock.
EnsureSlow(c) ==
  LET h == target[c] IN
  /\ pc[c] = "slow"
  /\ mu = Free
  /\ \/ Reuse(c, h)
     \/ AwaitPurge(c, h)
     \/ /\ engines[h] = Nil /\ purging[h] = Nil
        /\ Create(c, h) \/ PickVictim(c, h) \/ AddFails(c)
  /\ UNCHANGED <<stopped, now, target>>

-----------------------------------------------------------------------------
(* Purging: beginPurge under m.mu, then the finish function without it. *)

\* Mutant: the engine leaves the map without a mark in m.purging.
BeginPurgeUnmarked(p, vs, l) ==
  /\ engines' = [h \in Hashes |-> IF engines[h] \in vs THEN Nil ELSE engines[h]]
  /\ todo' = [todo EXCEPT ![p] = vs]
  /\ ret' = [ret EXCEPT ![p] = l]
  /\ Goto(p, "rmdir")
  /\ UNCHANGED <<purging, dir, cur>>

\* beginPurge for the instances vs; p runs their finish functions, then goes to l.
BeginPurge(p, vs, l) ==
  /\ engines' = [h \in Hashes |-> IF engines[h] \in vs THEN Nil ELSE engines[h]]
  /\ purging' = [h \in Hashes |-> IF engines[h] \in vs THEN engines[h] ELSE purging[h]]
  /\ todo' = [todo EXCEPT ![p] = vs]
  /\ ret' = [ret EXCEPT ![p] = l]
  /\ Goto(p, "rmdir")
  /\ UNCHANGED <<dir, cur>>

\* EnsureEngine drops its victim, releases m.mu, and will look again.
DropVictim(c) ==
  /\ pc[c] = "victim"
  /\ BeginPurge(c, {ref[c]}, "fast")
  /\ ref' = [ref EXCEPT ![c] = Nil]
  /\ mu' = Free
  /\ UNCHANGED <<useVars, stopped, now, target, jan>>

RemoveEngine(c, h) ==
  /\ pc[c] = "idle" /\ mu = Free
  /\ engines[h] # Nil
  /\ BeginPurge(c, {engines[h]}, "idle")
  /\ UNCHANGED <<useVars, stopped, now, mu, localVars, jan>>

RemoveAll(c) ==
  /\ pc[c] = "idle" /\ mu = Free
  /\ Live # {}
  /\ BeginPurge(c, Live, "idle")
  /\ UNCHANGED <<useVars, stopped, now, mu, localVars, jan>>

\* Mutant: the cache root is removed instead of the engine's directory.
RmDirRoot(p) ==
  /\ pc[p] = "rmdir"
  /\ \E v \in todo[p] :
       /\ dir' = [h \in Hashes |-> Nil]
       /\ cur' = [cur EXCEPT ![p] = v]
  /\ Goto(p, "clear")
  /\ UNCHANGED <<engines, purging, useVars, stopped, now,
                 mu, localVars, todo, ret, jan>>

\* os.RemoveAll(e.path): whatever is in the directory goes.
RmDir(p) ==
  /\ pc[p] = "rmdir"
  /\ \E v \in todo[p] :
       /\ dir' = [dir EXCEPT ![HashOf(v)] = Nil]
       /\ cur' = [cur EXCEPT ![p] = v]
  /\ Goto(p, "clear")
  /\ UNCHANGED <<engines, purging, useVars, stopped, now,
                 mu, localVars, todo, ret, jan>>

\* delete(m.purging, ih) under m.mu.
ClearMark(p) ==
  /\ pc[p] = "clear" /\ mu = Free
  /\ purging' = [purging EXCEPT ![HashOf(cur[p])] = Nil]
  /\ Goto(p, "close")
  /\ UNCHANGED <<engines, dir, useVars, stopped, now, mu,
                 localVars, finVars, jan>>

\* Mutant: finish returns without close(done).
CloseDoneNever(p) ==
  /\ pc[p] = "close"
  /\ cur' = [cur EXCEPT ![p] = Nil]
  /\ Goto(p, ret[p])
  /\ UNCHANGED <<engines, purging, dir, useVars, stopped, now, mu,
                 localVars, todo, ret, jan>>

\* close(done) wakes the waiters; the next finish function, or the caller, goes on.
CloseDone(p) ==
  /\ pc[p] = "close"
  /\ todo' = [todo EXCEPT ![p] = @ \ {cur[p]}]
  /\ cur' = [cur EXCEPT ![p] = Nil]
  /\ Goto(p, IF todo'[p] = {} THEN ret[p] ELSE "rmdir")
  /\ UNCHANGED <<engines, purging, dir, useVars, stopped, now, mu,
                 localVars, ret, jan>>

-----------------------------------------------------------------------------
(* What a client does with the engine it holds. None of it takes m.mu. *)

\* GetEngine hands out an engine without touching lastAccess.
GetEngine(c, h) ==
  /\ pc[c] = "idle" /\ mu = Free
  /\ engines[h] # Nil
  /\ ref' = [ref EXCEPT ![c] = engines[h]]
  /\ target' = [target EXCEPT ![c] = h]
  /\ Goto(c, "have")
  /\ UNCHANGED <<manVars, useVars, stopped, now, mu, finVars, jan>>

\* Engine.Stats refreshes the idle clock.
Stats(c) ==
  /\ pc[c] = "have"
  /\ Bump(ref[c])
  /\ UNCHANGED <<manVars, openReaders, fresh, stopped, now, mu, pc, localVars, finVars, jan>>

\* NewReader, first section of e.mu: the touch before any blocking work.
NewReaderTouch(c) ==
  /\ pc[c] = "have"
  /\ Bump(ref[c])
  /\ Goto(c, "pin")
  /\ UNCHANGED <<manVars, openReaders, fresh, stopped, now, mu, localVars, finVars, jan>>

\* NewReader, second section: the pin. No check that the engine is still live.
NewReaderPin(c) ==
  /\ pc[c] = "pin"
  /\ openReaders' = [openReaders EXCEPT ![ref[c]] = @ + 1]
  /\ Goto(c, "reading")
  /\ UNCHANGED <<manVars, lastAccess, fresh, stopped, now, mu, localVars, finVars, jan>>

\* The handler ends, or NewReader fails (no metadata, bad index).
Release(c) ==
  /\ pc[c] \in {"have", "pin"}
  /\ ref' = [ref EXCEPT ![c] = Nil]
  /\ Goto(c, "idle")
  /\ UNCHANGED <<manVars, useVars, stopped, now, mu, target, finVars, jan>>

\* pinnedReader.Close: unpin, and the idle clock restarts here.
CloseReader(c) ==
  /\ pc[c] = "reading"
  /\ openReaders' = [openReaders EXCEPT ![ref[c]] = @ - 1]
  /\ Bump(ref[c])
  /\ ref' = [ref EXCEPT ![c] = Nil]
  /\ Goto(c, "idle")
  /\ UNCHANGED <<manVars, fresh, stopped, now, mu, target, finVars, jan>>

\* Piece data of a torrent that was not dropped reaches its directory.
Download(h) ==
  /\ engines[h] # Nil /\ ~Dropped(engines[h])
  /\ dir[h] # engines[h]
  /\ dir' = [dir EXCEPT ![h] = engines[h]]
  /\ UNCHANGED <<engines, purging, useVars, stopped, now, mu,
                 pc, localVars, finVars, jan>>

\* manager.Close: the client drops every torrent; the map is left as it is.
Shutdown ==
  /\ ~stopped
  /\ stopped' = TRUE
  /\ UNCHANGED <<engines, purging, dir, useVars, now, mu, pc, localVars,
                 finVars, jan>>

Tick ==
  /\ now < MaxTime
  /\ now' = now + 1
  /\ UNCHANGED <<manVars, useVars, stopped, mu, pc, localVars, finVars, jan>>

-----------------------------------------------------------------------------
(* The janitor: evictTick, then evictIdle, on every tick. (The third call of  *)
(* a tick, enforceSeedRatio, only switches a torrent's upload on and off.)    *)

\* Go on at label l with the locals j.
JanGo(l, j) == Goto(Janitor, l) /\ jan' = j

JanFrame == UNCHANGED <<manVars, lastAccess, openReaders, stopped, now, localVars, finVars>>

\* The snapshot a readerless pass works on.
Readerless(p) == [JanInit EXCEPT !.pass = p, !.rest = Live]

\* A tick. cacheQuiet may spare a positive budget the walk.
JanTick ==
  /\ pc[Janitor] = "idle"
  /\ \E b \in Budgets :
       \/ b # 0 /\ JanGo("idlePass", JanInit)
       \/ /\ b >= 0 /\ mu = Free
          /\ IF b = 0
             THEN JanGo("clock", Readerless("grace"))
             ELSE JanGo("measure", [JanInit EXCEPT !.pass = "size", !.unread = Live, !.budget = b])
  /\ fresh' = {} /\ UNCHANGED mu /\ JanFrame

\* The size pass first walks the directory of each engine of its snapshot ...
JanMeasure ==
  /\ pc[Janitor] = "measure"
  /\ \/ \E e \in jan.unread :
          LET size == IF dir[HashOf(e)] # Nil THEN 1 ELSE 0 IN
          JanGo("measure", [jan EXCEPT !.unread = @ \ {e}, !.rest = @ \cup {e}, !.total = @ + size,
                                       !.entry[e] = [la |-> 0, pinned |-> FALSE, size |-> size]])
     \/ jan.unread = {} /\ JanGo("read", [jan EXCEPT !.unread = jan.rest, !.rest = {}])
  /\ UNCHANGED <<mu, fresh>> /\ JanFrame

\* ... then reads lastAccess and openReaders of each under its e.mu.
JanRead ==
  /\ pc[Janitor] = "read"
  /\ \E e \in jan.unread :
       JanGo("read", [jan EXCEPT !.unread = @ \ {e}, !.rest = @ \cup {e},
                                 !.entry[e] = [la |-> lastAccess[e], pinned |-> openReaders[e] > 0,
                                               size |-> @.size]])
  /\ UNCHANGED <<mu, fresh>> /\ JanFrame

\* Within budget, or the eviction loop starts and reads the clock.
JanMeasured ==
  /\ pc[Janitor] = "read" /\ jan.unread = {}
  /\ IF jan.total <= jan.budget THEN JanGo("idlePass", JanInit)
                                ELSE JanGo("size", [jan EXCEPT !.now = now])
  /\ UNCHANGED <<mu, fresh>> /\ JanFrame

\* The loop runs in lastAccess order and never reaches the last entry.
SizeLoopRuns == Cardinality(jan.rest) > 1 /\ jan.total > jan.budget
OldestEntries ==
  {e \in jan.rest : \A f \in jan.rest : jan.entry[e].la <= jan.entry[f].la}

\* One round: skip on the values read before, or look again under m.mu, where
\* only the map entry and openReaders are checked.
JanSize ==
  /\ pc[Janitor] = "size" /\ SizeLoopRuns
  /\ \E e \in OldestEntries :
       LET next    == [jan EXCEPT !.rest = @ \ {e}]
           spared  == jan.entry[e].pinned \/ jan.now - jan.entry[e].la < Grace
           refused == engines[HashOf(e)] # e \/ openReaders[e] > 0
       IN \/ /\ spared \/ (mu = Free /\ refused)
             /\ JanGo("size", [next EXCEPT !.entry[e] = NoEntry]) /\ UNCHANGED mu
          \/ /\ ~spared /\ ~refused /\ mu = Free
             /\ mu' = Janitor
             /\ JanGo("drop", [next EXCEPT !.victim = e])
  /\ UNCHANGED fresh /\ JanFrame

JanSizeEnd ==
  /\ pc[Janitor] = "size" /\ ~SizeLoopRuns
  /\ JanGo("idlePass", JanInit)
  /\ UNCHANGED <<mu, fresh>> /\ JanFrame

\* evictIdle takes its snapshot.
JanIdlePass ==
  /\ pc[Janitor] = "idlePass"
  /\ \/ Idle <= 0 /\ JanGo("idle", JanInit)
     \/ /\ Idle > 0 /\ mu = Free
        /\ JanGo("clock", Readerless("idle"))
  /\ fresh' = {} /\ UNCHANGED mu /\ JanFrame

\* purgeReaderless reads the clock once, before its loop.
JanClock ==
  /\ pc[Janitor] = "clock"
  /\ JanGo("readerless", [jan EXCEPT !.now = now])
  /\ fresh' = {} /\ UNCHANGED mu /\ JanFrame

Threshold == IF jan.pass = "grace" THEN Grace ELSE Idle

\* One round of purgeReaderless. The look before m.mu and the one under it
\* test the same conditions, so the step stands for both.
JanReaderless ==
  /\ pc[Janitor] = "readerless"
  /\ \E e \in jan.rest :
       LET next   == [jan EXCEPT !.rest = @ \ {e}]
           spared == openReaders[e] > 0 \/ jan.now - lastAccess[e] < Threshold
       IN \/ /\ spared \/ (mu = Free /\ engines[HashOf(e)] # e)
             /\ JanGo("readerless", next) /\ UNCHANGED mu
          \/ /\ ~spared /\ engines[HashOf(e)] = e /\ mu = Free
             /\ mu' = Janitor
             /\ JanGo("drop", [next EXCEPT !.victim = e])
  /\ UNCHANGED fresh /\ JanFrame

JanReaderlessEnd ==
  /\ pc[Janitor] = "readerless" /\ jan.rest = {}
  /\ JanGo(IF jan.pass = "grace" THEN "idlePass" ELSE "idle", JanInit)
  /\ UNCHANGED <<mu, fresh>> /\ JanFrame

\* beginPurge of the chosen engine, still under m.mu.
JanDrop ==
  /\ pc[Janitor] = "drop"
  /\ BeginPurge(Janitor, {jan.victim}, IF jan.pass = "size" THEN "size" ELSE "readerless")
  /\ mu' = Free
  /\ jan' = [jan EXCEPT !.victim = Nil, !.total = @ - jan.entry[jan.victim].size,
                        !.entry[jan.victim] = NoEntry]
  /\ UNCHANGED <<useVars, stopped, now, localVars>>

JanHalt ==
  /\ pc[Janitor] = "idle" /\ stopped
  /\ JanGo("halt", JanInit)
  /\ UNCHANGED <<mu, fresh>> /\ JanFrame

-----------------------------------------------------------------------------
EnsureEngine(c) == (\E h \in Hashes : EnsureFast(c, h)) \/ EnsureWait(c) \/ EnsureSlow(c) \/ DropVictim(c)
Finish(p)       == RmDir(p) \/ ClearMark(p) \/ CloseDone(p)
UseEngine(c)    == Stats(c) \/ NewReaderTouch(c) \/ NewReaderPin(c) \/ Release(c) \/ CloseReader(c)
Remove(c)       == RemoveAll(c) \/ \E h \in Hashes : RemoveEngine(c, h) \/ GetEngine(c, h)
JanitorStep     == \/ JanTick \/ JanMeasure \/ JanRead \/ JanMeasured \/ JanSize \/ JanSizeEnd \/ JanIdlePass
                   \/ JanClock \/ JanReaderless \/ JanReaderlessEnd \/ JanDrop \/ JanHalt

Next ==
  \/ \E c \in Clients : EnsureEngine(c) \/ UseEngine(c) \/ Remove(c)
  \/ \E p \in Procs : Finish(p)
  \/ \E h \in Hashes : Download(h)
  \/ JanitorStep
  \/ Shutdown
  \/ Tick

(***************************************************************************)
(* Goroutines that have begun a purge run on, and a Go mutex in starvation *)
(* mode is handed to its longest waiter, hence strong fairness where m.mu  *)
(* is needed.                                                              *)
(***************************************************************************)
Fairness ==
  /\ \A c \in Clients : WF_vars(DropVictim(c)) /\ WF_vars(EnsureWait(c))
  /\ \A p \in Procs : WF_vars(RmDir(p)) /\ SF_vars(ClearMark(p)) /\ WF_vars(CloseDone(p))
  /\ WF_vars(JanDrop)

Spec     == Init /\ [][Next]_vars
FairSpec == Spec /\ Fairness

-----------------------------------------------------------------------------
(* Properties *)

Instance == Inst \cup {Nil}
Entry    == [la : Nat, pinned : BOOLEAN, size : Nat]
Label    == {"idle", "fast", "wait", "slow", "victim", "rmdir", "clear", "close", "have", "pin",
             "reading", "measure", "read", "size", "idlePass", "clock", "readerless", "drop", "halt"}
Return   == {"idle", "fast", "size", "readerless"}
Pass     == {"none", "size", "grace", "idle"}
Locals   == [pass : Pass, unread : SUBSET Inst, rest : SUBSET Inst, entry : [Inst -> Entry],
             total : Int, budget : Int, now : Nat, victim : Instance]

\* Every variable has its type.
TypeOK ==
  /\ engines \in [Hashes -> Instance] /\ purging \in [Hashes -> Instance]
  /\ dir \in [Hashes -> Instance]
  /\ lastAccess \in [Inst -> Nat] /\ openReaders \in [Inst -> Int] /\ fresh \subseteq Inst
  /\ stopped \in BOOLEAN /\ now \in Nat /\ mu \in Procs \cup {Free}
  /\ pc \in [Procs -> Label]
  /\ target \in [Clients -> Hashes] /\ ref \in [Clients -> Instance]
  /\ todo \in [Procs -> SUBSET Inst] /\ cur \in [Procs -> Instance] /\ ret \in [Procs -> Return]
  /\ jan \in Locals

\* RIVULET_MAX_ENGINES holds however the checks and the victims' purges
\* interleave: EnsureEngine re-checks the cap after every purge it waited for.
CapRespected == MaxEngines > 0 => Cardinality(LiveHashes) <= MaxEngines

\* EnsureEngine never recreates an engine whose directory is still being
\* deleted by RemoveEngine, RemoveAll, the cap or the janitor.
PurgeExclusion == \A h \in Hashes : purging[h] # Nil => engines[h] = Nil

\* A cache directory with data belongs to the engine in the map, or to the one
\* whose purge is about to delete it: no purge leaves an orphan behind.
DirOwned == \A h \in Hashes : dir[h] # Nil => dir[h] \in {engines[h], purging[h]}

\* os.RemoveAll, which runs without the lock, only ever deletes the data of
\* a dropped torrent, never that of an engine created meanwhile.
OnlyDroppedDirsDeleted ==
  [][\A h \in Hashes : dir[h] # Nil /\ dir'[h] = Nil => Dropped(dir[h])]_vars

\* The janitor drops e in this step.
JanitorDrops(e) == e = jan.victim /\ pc[Janitor] = "drop" /\ pc'[Janitor] = "rmdir"

\* purgeReaderless, for the idle timeout and for "no caching", never drops an
\* engine that EnsureEngine handed out since the pass began: both reuse paths
\* bump lastAccess while m.mu is held, and the pass looks again under m.mu.
IdlePassHonoursGrant ==
  [][\A e \in Inst : JanitorDrops(e) /\ jan.pass \in {"grace", "idle"} => e \notin fresh]_vars

\* Every EnsureEngine that waits for a purge is woken: the finish functions
\* always get to close the channel it waits on.
PurgeWaitersWake == \A c \in Clients : pc[c] = "wait" ~> pc[c] # "wait"

=============================================================================
