------------------------ MODULE EngineManagerProofs ------------------------
(***************************************************************************)
(* Proofs about EngineManager for any finite set of infohashes, any set of *)
(* clients and any bounds. The inductive invariant IInv says what the      *)
(* purge protocol relies on: an instance is stored under its own infohash, *)
(* m.mu is held from the choice of a victim to its Drop, and every finish  *)
(* function that has not yet cleared its mark owns that mark alone.        *)
(***************************************************************************)
EXTENDS EngineManager, FiniteSetTheorems, TLAPS

\* An engine is stored under its own infohash.
OwnHash == \A h \in Hashes : engines[h] # Nil => HashOf(engines[h]) = h

\* A goroutine that chose a victim holds m.mu, and the victim stays in the map.
VictimHeld ==
  /\ \A c \in Clients : pc[c] = "victim" => mu = c /\ ref[c] \in Live
  /\ pc[Janitor] = "drop" => mu = Janitor /\ jan.victim \in Live

\* The instances whose mark p has still to clear.
Pending(p) == IF pc[p] = "close" THEN todo[p] \ {cur[p]} ELSE todo[p]

\* The running finish function is one of p's; its directory is gone already.
Running(p) ==
  /\ pc[p] \in {"clear", "close"} => cur[p] \in todo[p]
  /\ pc[p] = "clear" => dir[HashOf(cur[p])] = Nil

\* Each unfinished purge has its mark, and no two goroutines share one.
MarksOwned ==
  /\ \A p \in Procs : \A v \in Pending(p) : purging[HashOf(v)] = v
  /\ \A p, q \in Procs : p # q => Pending(p) \cap Pending(q) = {}
  /\ \A p \in Procs : Running(p)

\* What the readerless pass relies on: a grant since it began is not older than it.
GrantsRecent ==
  /\ \/ pc[Janitor] \in {"measure", "read", "size"}
     \/ pc[Janitor] \in {"rmdir", "clear", "close"} /\ ret[Janitor] = "size"
     => jan.pass = "size"
  /\ jan.pass = "idle" => Idle > 0
  /\ jan.pass \in {"grace", "idle"} =>
       /\ jan.now <= now
       /\ \A e \in fresh : jan.now <= lastAccess[e]
       /\ pc[Janitor] = "drop" => jan.victim \notin fresh

IInv ==
  /\ TypeOK /\ OwnHash /\ PurgeExclusion /\ VictimHeld /\ MarksOwned
  /\ DirOwned /\ GrantsRecent

-----------------------------------------------------------------------------
(* Type correctness *)

\* The locals the janitor starts a pass with are well typed.
LEMMA JanInitType == NoEntry \in Entry /\ JanInit \in Locals
  <1>1. NoEntry \in Entry
    BY DEF NoEntry, Entry
  <1>2. [i \in Inst |-> NoEntry] \in [Inst -> Entry]
    BY <1>1
  <1> QED
    BY <1>1, <1>2 DEF JanInit, Locals, Instance, Pass

\* The initial state is well typed.
LEMMA TypeInit == Init => TypeOK
  <1> SUFFICES ASSUME Init PROVE TypeOK
    OBVIOUS
  <1>1. jan \in Locals
    BY JanInitType DEF Init
  <1>2. target \in [Clients -> Hashes]
    BY DEF Init
  <1>3. pc \in [Procs -> Label] /\ ret \in [Procs -> Return] /\ mu \in Procs \cup {Free}
    BY DEF Init, Label, Return
  <1>4. todo \in [Procs -> SUBSET Inst] /\ cur \in [Procs -> Instance]
    BY DEF Init, Instance
  <1>5. engines \in [Hashes -> Instance] /\ purging \in [Hashes -> Instance] /\ dir \in [Hashes -> Instance]
    BY DEF Init, Instance
  <1>6. lastAccess \in [Inst -> Nat] /\ openReaders \in [Inst -> Int]
    BY DEF Init
  <1>7. ref \in [Clients -> Instance]
    BY DEF Init, Instance
  <1>8. fresh \subseteq Inst /\ stopped \in BOOLEAN /\ now \in Nat
    BY DEF Init
  <1> QED
    BY <1>1, <1>2, <1>3, <1>4, <1>5, <1>6, <1>7, <1>8 DEF TypeOK

\* Engines in the map, and those picked from it, are instances.
LEMMA LiveType == TypeOK => Live \subseteq Inst /\ OldestIdle \subseteq Inst
  BY DEF TypeOK, Instance, OldestIdle, IdleLive, Live, LiveHashes

\* Every step of a client keeps the types.
LEMMA ClientType ==
  ASSUME TypeOK, VictimHeld, NEW c \in Clients, EnsureEngine(c) \/ UseEngine(c) \/ Remove(c)
  PROVE  TypeOK'
  <1> USE ConstantsAssumption DEF TypeOK, Instance, Goto, manVars, useVars, finVars, localVars, Procs, Label, Return
  <1>1. ASSUME NEW h \in Hashes, EnsureFast(c, h) PROVE TypeOK'
    BY <1>1 DEF EnsureFast, Reuse, AwaitPurge, Bump, Grant
  <1>2. CASE EnsureWait(c)
    BY <1>2 DEF EnsureWait
  <1>3. CASE EnsureSlow(c)
    <2>1. Unused(target[c]) \subseteq Inst
      BY DEF Unused, Inst
    <2>2. CASE Reuse(c, target[c]) \/ AwaitPurge(c, target[c]) \/ AddFails(c)
      BY <1>3, <2>2 DEF EnsureSlow, Reuse, AwaitPurge, AddFails, Bump, Grant
    <2>3. CASE Create(c, target[c])
      BY <1>3, <2>1, <2>3 DEF EnsureSlow, Create, Bump, Grant
    <2>4. CASE PickVictim(c, target[c])
      BY <1>3, <2>4, LiveType DEF EnsureSlow, PickVictim
    <2> QED
      BY <1>3, <2>2, <2>3, <2>4 DEF EnsureSlow
  <1>4. CASE DropVictim(c)
    BY <1>4, LiveType DEF DropVictim, BeginPurge, VictimHeld
  <1>5. CASE UseEngine(c)
    BY <1>5 DEF UseEngine, Stats, NewReaderTouch, NewReaderPin, Release, CloseReader, Bump
  <1>6. CASE RemoveAll(c)
    BY <1>6, LiveType DEF RemoveAll, BeginPurge
  <1>7. ASSUME NEW h \in Hashes, RemoveEngine(c, h) \/ GetEngine(c, h) PROVE TypeOK'
    BY <1>7 DEF RemoveEngine, GetEngine, BeginPurge
  <1> QED
    BY <1>1, <1>2, <1>3, <1>4, <1>5, <1>6, <1>7 DEF EnsureEngine, Remove

\* Updating one field of the janitor's locals with a value of its type.
LEMMA LocalsUpdate ==
  ASSUME NEW j \in Locals
  PROVE  /\ \A x \in Pass : [j EXCEPT !.pass = x] \in Locals
         /\ \A x \in SUBSET Inst : [j EXCEPT !.unread = x] \in Locals /\ [j EXCEPT !.rest = x] \in Locals
         /\ \A x \in Int : [j EXCEPT !.total = x] \in Locals /\ [j EXCEPT !.budget = x] \in Locals
         /\ \A x \in Nat : [j EXCEPT !.now = x] \in Locals
         /\ \A x \in Instance : [j EXCEPT !.victim = x] \in Locals
         /\ \A x \in Entry, e \in Inst : [j EXCEPT !.entry[e] = x] \in Locals
  BY DEF Locals

\* Every step of the janitor keeps the type of its locals.
LEMMA JanLocalsType ==
  ASSUME TypeOK, VictimHeld, JanitorStep
  PROVE  jan' \in Locals
  <1> USE ConstantsAssumption, JanInitType, LiveType DEF JanGo
  <1>0. ASSUME NEW p \in Pass PROVE Readerless(p) \in Locals
    <2>1. [JanInit EXCEPT !.pass = p] \in Locals
      BY LocalsUpdate
    <2>2. [[JanInit EXCEPT !.pass = p] EXCEPT !.rest = Live] \in Locals
      BY <2>1, LocalsUpdate
    <2> QED
      BY <2>2 DEF Readerless
  <1>1. CASE JanTick
    <2>1. ASSUME NEW b \in Budgets PROVE [JanInit EXCEPT !.pass = "size", !.unread = Live, !.budget = b] \in Locals
      <3>1. [JanInit EXCEPT !.pass = "size"] \in Locals
        BY LocalsUpdate DEF Pass
      <3>2. [[JanInit EXCEPT !.pass = "size"] EXCEPT !.unread = Live] \in Locals
        BY <3>1, LocalsUpdate
      <3>3. [[[JanInit EXCEPT !.pass = "size"] EXCEPT !.unread = Live] EXCEPT !.budget = b] \in Locals
        BY <3>2, LocalsUpdate
      <3> QED
        BY <3>3
    <2> QED
      BY <1>0, <1>1, <2>1 DEF JanTick, Pass
  <1>b. ASSUME NEW e \in jan.unread, NEW n \in Int, NEW entry \in Entry
        PROVE  [jan EXCEPT !.unread = @ \ {e}, !.rest = @ \cup {e}, !.total = n, !.entry[e] = entry] \in Locals
    <2> DEFINE j1 == [jan EXCEPT !.unread = jan.unread \ {e}]
               j2 == [j1 EXCEPT !.rest = jan.rest \cup {e}]
               j3 == [j2 EXCEPT !.total = n]
               j4 == [j3 EXCEPT !.entry[e] = entry]
    <2>1. e \in Inst /\ jan \in Locals /\ jan.unread \ {e} \in SUBSET Inst /\ jan.rest \cup {e} \in SUBSET Inst
      BY DEF TypeOK, Locals
    <2>2. j1 \in Locals
      BY <2>1, LocalsUpdate
    <2>3. j2 \in Locals
      BY <2>1, <2>2, LocalsUpdate
    <2>4. j3 \in Locals
      BY <2>3, LocalsUpdate
    <2>5. j4 \in Locals
      BY <2>1, <2>4, LocalsUpdate
    <2>6. [jan EXCEPT !.unread = @ \ {e}, !.rest = @ \cup {e}, !.total = n, !.entry[e] = entry] = j4
      BY <2>1 DEF Locals
    <2> QED
      BY <2>5, <2>6
  <1>2. CASE JanMeasure
    <2>1. CASE jan' = [jan EXCEPT !.unread = jan.rest, !.rest = {}]
      <3>1. jan \in Locals /\ jan.rest \in SUBSET Inst
        BY DEF TypeOK, Locals
      <3>2. [jan EXCEPT !.unread = jan.rest] \in Locals
        BY <3>1, LocalsUpdate
      <3>3. [[jan EXCEPT !.unread = jan.rest] EXCEPT !.rest = {}] \in Locals
        BY <3>2, LocalsUpdate
      <3> QED
        BY <2>1, <3>3
    <2>2. ASSUME NEW e \in jan.unread, NEW size \in {0, 1},
                 jan' = [jan EXCEPT !.unread = @ \ {e}, !.rest = @ \cup {e}, !.total = @ + size,
                                    !.entry[e] = [la |-> 0, pinned |-> FALSE, size |-> size]]
          PROVE  jan' \in Locals
      <3>1. [la |-> 0, pinned |-> FALSE, size |-> size] \in Entry /\ jan.total + size \in Int
        <4>1. [la |-> 0, pinned |-> FALSE, size |-> size] \in Entry
          BY DEF Entry
        <4>2. jan.total + size \in Int
          BY DEF TypeOK, Locals
        <4> QED
          BY <4>1, <4>2
      <3>2. jan' = [jan EXCEPT !.unread = @ \ {e}, !.rest = @ \cup {e}, !.total = jan.total + size,
                               !.entry[e] = [la |-> 0, pinned |-> FALSE, size |-> size]]
        BY <2>2
      <3> QED
        BY <1>b, <3>1, <3>2
    <2> QED
      BY <1>2, <2>1, <2>2 DEF JanMeasure
  <1>c. CASE JanRead
    <2>1. PICK e \in jan.unread : 
             jan' = [jan EXCEPT !.unread = @ \ {e}, !.rest = @ \cup {e},
                                !.entry[e] = [la |-> lastAccess[e], pinned |-> openReaders[e] > 0, size |-> @.size]]
      BY <1>c DEF JanRead
    <2> DEFINE entry == [la |-> lastAccess[e], pinned |-> openReaders[e] > 0, size |-> jan.entry[e].size]
               j1 == [jan EXCEPT !.unread = jan.unread \ {e}]
               j2 == [j1 EXCEPT !.rest = jan.rest \cup {e}]
               j3 == [j2 EXCEPT !.entry[e] = entry]
    <2>2. e \in Inst /\ jan \in Locals /\ jan.unread \ {e} \in SUBSET Inst /\ jan.rest \cup {e} \in SUBSET Inst
      BY DEF TypeOK, Locals
    <2>3. entry \in Entry
      BY <2>2 DEF TypeOK, Locals, Entry
    <2>4. j1 \in Locals
      BY <2>2, LocalsUpdate
    <2>5. j2 \in Locals
      BY <2>2, <2>4, LocalsUpdate
    <2>6. j3 \in Locals
      BY <2>2, <2>3, <2>5, LocalsUpdate
    <2>7. jan' = j3
      BY <2>1, <2>2 DEF Locals
    <2> QED
      BY <2>6, <2>7
  <1>3. CASE JanMeasured
    BY <1>3, LocalsUpdate DEF JanMeasured, TypeOK
  <1>a. ASSUME NEW e \in jan.rest
        PROVE  /\ [jan EXCEPT !.rest = @ \ {e}] \in Locals
               /\ [[jan EXCEPT !.rest = @ \ {e}] EXCEPT !.entry[e] = NoEntry] \in Locals
               /\ [[jan EXCEPT !.rest = @ \ {e}] EXCEPT !.victim = e] \in Locals
    <2>1. e \in Inst /\ jan \in Locals /\ jan.rest \ {e} \in SUBSET Inst
      BY DEF TypeOK, Locals
    <2>2. [jan EXCEPT !.rest = @ \ {e}] \in Locals
      BY <2>1, LocalsUpdate
    <2> QED
      BY <2>1, <2>2, LocalsUpdate DEF Instance
  <1>4. CASE JanSize
    BY <1>4, <1>a DEF JanSize, OldestEntries
  <1>5. CASE JanSizeEnd
    BY <1>5 DEF JanSizeEnd
  <1>6. CASE JanIdlePass
    BY <1>6, <1>0 DEF JanIdlePass, Pass
  <1>d. CASE JanClock
    BY <1>d, LocalsUpdate DEF JanClock, TypeOK
  <1>7. CASE JanReaderless
    BY <1>7, <1>a DEF JanReaderless
  <1>8. CASE JanReaderlessEnd
    BY <1>8 DEF JanReaderlessEnd
  <1>9. CASE JanDrop
    <2> DEFINE v == jan.victim
               j1 == [jan EXCEPT !.victim = Nil]
               j2 == [j1 EXCEPT !.total = jan.total - jan.entry[v].size]
               j3 == [j2 EXCEPT !.entry[v] = NoEntry]
    <2>1. v \in Inst /\ jan \in Locals
      BY <1>9 DEF JanDrop, VictimHeld, TypeOK
    <2>2. jan.total - jan.entry[v].size \in Int
      BY <2>1 DEF Locals, Entry
    <2>3. j1 \in Locals
      BY <2>1, LocalsUpdate DEF Instance
    <2>4. j2 \in Locals
      BY <2>2, <2>3, LocalsUpdate
    <2>5. j3 \in Locals
      BY <2>1, <2>4, LocalsUpdate
    <2>6. jan' = j3
      BY <1>9, <2>1 DEF JanDrop, Locals
    <2> QED
      BY <2>5, <2>6
  <1>10. CASE JanHalt
    BY <1>10 DEF JanHalt
  <1> QED
    BY <1>1, <1>2, <1>c, <1>d, <1>3, <1>4, <1>5, <1>6, <1>7, <1>8, <1>9, <1>10 DEF JanitorStep

\* Every step of the janitor keeps the types.
LEMMA JanitorType ==
  ASSUME TypeOK, VictimHeld, JanitorStep
  PROVE  TypeOK'
  <1>1. jan' \in Locals
    BY JanLocalsType
  <1> USE <1>1 DEF TypeOK, Goto, JanGo, JanFrame, manVars, useVars, localVars, finVars, Procs, Label, Return
  <1>2. CASE JanDrop
    BY <1>2, LiveType DEF JanDrop, BeginPurge, VictimHeld, Instance
  <1>3. CASE JanTick \/ JanMeasure \/ JanRead \/ JanMeasured \/ JanIdlePass \/ JanClock
    BY <1>3 DEF JanTick, JanMeasure, JanRead, JanMeasured, JanIdlePass, JanClock
  <1>4. CASE JanSize \/ JanReaderless
    BY <1>4 DEF JanSize, JanReaderless
  <1>5. CASE JanSizeEnd \/ JanReaderlessEnd \/ JanHalt
    BY <1>5 DEF JanSizeEnd, JanReaderlessEnd, JanHalt
  <1> QED
    BY <1>2, <1>3, <1>4, <1>5 DEF JanitorStep

\* Every step keeps the types.
LEMMA TypeStep ==
  ASSUME TypeOK, VictimHeld, [Next]_vars
  PROVE  TypeOK'
  <1>1. ASSUME NEW p \in Procs, Finish(p) PROVE TypeOK'
    <2> USE DEF TypeOK, Goto, Instance, Label, Return, manVars, useVars, localVars, finVars
    <2>1. CASE RmDir(p)
      <3>1. PICK v \in todo[p] : dir' = [dir EXCEPT ![HashOf(v)] = Nil] /\ cur' = [cur EXCEPT ![p] = v]
        BY <2>1 DEF RmDir
      <3>2. cur' \in [Procs -> Instance] /\ dir' \in [Hashes -> Instance]
        BY <1>1, <3>1
      <3> QED
        BY <1>1, <2>1, <3>2 DEF RmDir
    <2>2. CASE ClearMark(p)
      BY <1>1, <2>2 DEF ClearMark
    <2>3. CASE CloseDone(p)
      BY <1>1, <2>3 DEF CloseDone
    <2> QED
      BY <1>1, <2>1, <2>2, <2>3 DEF Finish
  <1>2. ASSUME NEW h \in Hashes, Download(h) PROVE TypeOK'
    BY <1>2 DEF TypeOK, Download, useVars, localVars, finVars
  <1>3. CASE Shutdown
    BY <1>3 DEF TypeOK, Shutdown, useVars, localVars, finVars
  <1>4. CASE Tick
    BY <1>4 DEF TypeOK, Tick, manVars, useVars, localVars, finVars
  <1>5. CASE UNCHANGED vars
    BY <1>5 DEF TypeOK, vars, manVars, useVars, localVars, finVars
  <1> QED
    BY <1>1, <1>2, <1>3, <1>4, <1>5, ClientType, JanitorType DEF Next

-----------------------------------------------------------------------------
(* The map, the marks and the lock *)

\* Only these variables matter to the parts of IInv about purging.
LEMMA PurgeFrame ==
  ASSUME UNCHANGED <<engines, purging, dir, mu, pc, ref, todo, cur, jan>>,
         OwnHash, PurgeExclusion, VictimHeld, MarksOwned, DirOwned
  PROVE  (OwnHash /\ PurgeExclusion /\ VictimHeld /\ MarksOwned /\ DirOwned)'
  BY DEF OwnHash, PurgeExclusion, VictimHeld, MarksOwned, DirOwned, Live, LiveHashes, Pending, Running

\* An instance in the map is not one whose purge is unfinished.
LEMMA PendingNotLive ==
  ASSUME TypeOK, OwnHash, PurgeExclusion, MarksOwned, NEW p \in Procs, NEW v \in Pending(p)
  PROVE  /\ v \in Inst /\ v # Nil /\ HashOf(v) \in Hashes
         /\ purging[HashOf(v)] = v /\ engines[HashOf(v)] = Nil /\ v \notin Live
  <1>1. v \in Inst /\ v # Nil /\ HashOf(v) \in Hashes
    BY ConstantsAssumption DEF Pending, TypeOK, Inst, HashOf
  <1>2. purging[HashOf(v)] = v /\ engines[HashOf(v)] = Nil
    BY <1>1 DEF MarksOwned, PurgeExclusion
  <1> QED
    BY <1>1, <1>2 DEF OwnHash, Live, LiveHashes

\* BeginPurge of engines in the map, by the goroutine that holds m.mu.
LEMMA PurgeStarts ==
  ASSUME TypeOK, OwnHash, PurgeExclusion, MarksOwned, DirOwned,
         NEW p \in Procs, NEW vs \in SUBSET Live, NEW l \in Return,
         BeginPurge(p, vs, l)
  PROVE  (OwnHash /\ PurgeExclusion /\ MarksOwned /\ DirOwned)'
  <1>1. \A v \in vs : v \in Inst /\ HashOf(v) \in Hashes /\ engines[HashOf(v)] = v /\ v # Nil
    BY LiveType, ConstantsAssumption DEF OwnHash, Live, LiveHashes, Inst, HashOf
  <1>2. OwnHash' /\ PurgeExclusion'
    BY <1>1 DEF OwnHash, PurgeExclusion, BeginPurge, TypeOK
  <1>3. DirOwned'
    BY <1>1 DEF DirOwned, PurgeExclusion, BeginPurge, TypeOK
  <1>4. Pending(p)' = vs /\ \A q \in Procs \ {p} : Pending(q)' = Pending(q) /\ (Running(q) => Running(q)')
    BY DEF Pending, Running, BeginPurge, Goto, TypeOK
  <1>5. \A q \in Procs \ {p} : \A v \in Pending(q) : v \notin Live /\ purging'[HashOf(v)] = v
    BY <1>1, PendingNotLive DEF BeginPurge
  <1>6. \A v \in vs : purging'[HashOf(v)] = v
    BY <1>1 DEF BeginPurge
  <1>7. Running(p)'
    BY DEF Running, BeginPurge, Goto, TypeOK
  <1>8. MarksOwned'
    <2>1. \A q \in Procs : \A v \in Pending(q)' : purging'[HashOf(v)] = v
      BY <1>4, <1>5, <1>6
    <2>2. \A q, r \in Procs : q # r => Pending(q)' \cap Pending(r)' = {}
      BY <1>4, <1>5 DEF MarksOwned
    <2>3. \A q \in Procs : Running(q)'
      BY <1>4, <1>7 DEF MarksOwned
    <2> QED
      BY <2>1, <2>2, <2>3 DEF MarksOwned
  <1> QED
    BY <1>2, <1>3, <1>8

\* A step of a finish function.
LEMMA FinishKeeps ==
  ASSUME TypeOK, OwnHash, PurgeExclusion, VictimHeld, MarksOwned, DirOwned,
         NEW p \in Procs, Finish(p)
  PROVE  (OwnHash /\ PurgeExclusion /\ VictimHeld /\ MarksOwned /\ DirOwned)'
  <1>1. CASE RmDir(p)
    <2>1. PICK v \in todo[p] : dir' = [dir EXCEPT ![HashOf(v)] = Nil] /\ cur' = [cur EXCEPT ![p] = v]
      BY <1>1 DEF RmDir
    <2>2. OwnHash' /\ PurgeExclusion' /\ VictimHeld'
      BY <1>1 DEF RmDir, OwnHash, PurgeExclusion, VictimHeld, Live, LiveHashes, Goto, TypeOK, localVars
    <2>3. DirOwned'
      BY <1>1, <2>1 DEF RmDir, DirOwned, TypeOK
    <2>4. \A q \in Procs : Pending(q)' = Pending(q)
      BY <1>1 DEF RmDir, Pending, Goto, TypeOK
    <2>5. v \in Pending(p)
      BY <1>1, <2>1 DEF RmDir, Pending
    <2>6. \A q \in Procs : Running(q)'
      <3>1. Running(p)'
        BY <1>1, <2>1, <2>5, PendingNotLive DEF RmDir, Running, Goto, TypeOK
      <3>2. ASSUME NEW q \in Procs \ {p} PROVE Running(q)'
        BY <1>1, <2>1 DEF RmDir, Running, Goto, TypeOK, MarksOwned
      <3> QED
        BY <3>1, <3>2
    <2>7. MarksOwned'
      BY <1>1, <2>4, <2>6 DEF RmDir, MarksOwned
    <2> QED
      BY <2>2, <2>3, <2>7
  <1>2. CASE ClearMark(p)
    <2>1. cur[p] \in Pending(p) /\ dir[HashOf(cur[p])] = Nil
      BY <1>2 DEF ClearMark, MarksOwned, Running, Pending
    <2>2. OwnHash' /\ PurgeExclusion' /\ VictimHeld' /\ DirOwned'
      BY <1>2, <2>1 DEF ClearMark, OwnHash, PurgeExclusion, VictimHeld, DirOwned, Live, LiveHashes, Goto, TypeOK, localVars
    <2>3. Pending(p)' = Pending(p) \ {cur[p]} /\ \A q \in Procs \ {p} : Pending(q)' = Pending(q)
      BY <1>2 DEF ClearMark, Pending, Goto, TypeOK, finVars
    <2>4. \A q \in Procs : \A v \in Pending(q)' : purging'[HashOf(v)] = v
      <3> SUFFICES ASSUME NEW q \in Procs, NEW v \in Pending(q)' PROVE purging'[HashOf(v)] = v
        OBVIOUS
      <3>1. v \in Pending(q) /\ v # cur[p]
        BY <2>1, <2>3 DEF MarksOwned
      <3>2. HashOf(v) # HashOf(cur[p]) /\ HashOf(v) \in Hashes /\ purging[HashOf(v)] = v
        BY <2>1, <3>1, PendingNotLive
      <3> QED
        BY <1>2, <3>2 DEF ClearMark, TypeOK
    <2>5. \A q \in Procs : Running(q)'
      BY <1>2 DEF ClearMark, Running, Goto, TypeOK, MarksOwned, finVars
    <2>6. MarksOwned'
      BY <2>3, <2>4, <2>5 DEF MarksOwned
    <2> QED
      BY <2>2, <2>6
  <1>3. CASE CloseDone(p)
    <2>1. OwnHash' /\ PurgeExclusion' /\ DirOwned'
      BY <1>3 DEF CloseDone, OwnHash, PurgeExclusion, DirOwned
    <2>2. pc'[p] \in Return \cup {"rmdir"} /\ \A q \in Procs \ {p} : pc'[q] = pc[q]
      BY <1>3 DEF CloseDone, Goto, TypeOK
    <2>3. VictimHeld'
      BY <1>3, <2>2 DEF CloseDone, VictimHeld, Live, LiveHashes, Procs, Return, localVars
    <2>4. \A q \in Procs : Pending(q)' = Pending(q)
      BY <1>3, <2>2 DEF CloseDone, Pending, TypeOK, Return
    <2>5. \A q \in Procs : Running(q)'
      BY <1>3, <2>2 DEF CloseDone, Running, TypeOK, Return, MarksOwned
    <2>6. MarksOwned'
      BY <1>3, <2>4, <2>5 DEF CloseDone, MarksOwned
    <2> QED
      BY <2>1, <2>3, <2>6
  <1> QED
    BY <1>1, <1>2, <1>3 DEF Finish

\* The five parts of IInv about the map, the marks, the directories and m.mu.
Purges == OwnHash /\ PurgeExclusion /\ VictimHeld /\ MarksOwned /\ DirOwned

\* A client moves between steps that hold no lock and run no finish function.
LEMMA ClientMoves ==
  ASSUME TypeOK, Purges, NEW c \in Clients, NEW l \in Label \ {"victim", "clear", "close"},
         pc[c] \notin {"victim", "clear", "close"}, Goto(c, l),
         \A d \in Clients \ {c} : ref'[d] = ref[d],
         UNCHANGED <<manVars, mu, finVars, jan>>
  PROVE  Purges'
  <1>1. \A q \in Procs : pc'[q] = IF q = c THEN l ELSE pc[q]
    BY DEF Goto, TypeOK, Procs
  <1>2. OwnHash' /\ PurgeExclusion' /\ DirOwned'
    BY DEF Purges, OwnHash, PurgeExclusion, DirOwned, manVars
  <1>3. VictimHeld'
    BY <1>1, ConstantsAssumption DEF Purges, VictimHeld, Live, LiveHashes, manVars, Procs
  <1>4. \A q \in Procs : Pending(q)' = Pending(q) /\ Running(q)'
    BY <1>1 DEF Purges, MarksOwned, Pending, Running, manVars, finVars
  <1>5. MarksOwned'
    BY <1>4 DEF Purges, MarksOwned, manVars
  <1> QED
    BY <1>2, <1>3, <1>5 DEF Purges

\* EnsureEngine under m.mu: reuse, wait, create, pick a victim or fail.
LEMMA SlowKeeps ==
  ASSUME TypeOK, Purges, NEW c \in Clients, EnsureSlow(c)
  PROVE  Purges'
  <1> DEFINE h == target[c]
  <1>1. CASE Reuse(c, h)
    BY <1>1, ClientMoves DEF Reuse, EnsureSlow, TypeOK, Label, manVars, finVars
  <1>2. CASE AwaitPurge(c, h)
    BY <1>2, ClientMoves DEF AwaitPurge, EnsureSlow, TypeOK, Label, manVars, finVars
  <1>3. CASE AddFails(c)
    BY <1>3, ClientMoves DEF AddFails, EnsureSlow, TypeOK, Label, manVars, finVars
  <1>4. ASSUME engines[h] = Nil, purging[h] = Nil, Create(c, h) PROVE Purges'
    <2>1. PICK i \in Unused(h) : engines' = [engines EXCEPT ![h] = i] /\ ref' = [ref EXCEPT ![c] = i]
      BY <1>4 DEF Create
    <2>2. h \in Hashes /\ i \in Inst /\ HashOf(i) = h /\ dir[h] = Nil
      BY <1>4 DEF TypeOK, Unused, Inst, HashOf, Purges, DirOwned
    <2>3. OwnHash' /\ PurgeExclusion' /\ DirOwned'
      BY <1>4, <2>1, <2>2 DEF Create, TypeOK, Purges, OwnHash, PurgeExclusion, DirOwned
    <2>4. \A q \in Procs : pc'[q] = IF q = c THEN "have" ELSE pc[q]
      BY <1>4 DEF Create, Goto, TypeOK, Procs
    <2>5. VictimHeld'
      BY <1>4, <2>4, ConstantsAssumption DEF Create, EnsureSlow, Purges, VictimHeld, Procs
    <2>6. \A q \in Procs : Pending(q)' = Pending(q) /\ Running(q)'
      BY <1>4, <2>4 DEF EnsureSlow, Create, Purges, MarksOwned, Pending, Running, finVars
    <2>7. MarksOwned'
      BY <1>4, <2>6 DEF Create, Purges, MarksOwned
    <2> QED
      BY <2>3, <2>5, <2>7 DEF Purges
  <1>5. CASE PickVictim(c, h)
    <2>1. CASE pc' = [pc EXCEPT ![c] = "idle"] /\ UNCHANGED <<ref, mu>>
      BY <1>5, <2>1, ClientMoves DEF PickVictim, EnsureSlow, TypeOK, Label, manVars, finVars, Goto
    <2>2. CASE /\ mu' = c /\ pc' = [pc EXCEPT ![c] = "victim"]
               /\ \E v \in OldestIdle : ref' = [ref EXCEPT ![c] = v]
      <3>1. \A q \in Procs : pc'[q] = IF q = c THEN "victim" ELSE pc[q]
        BY <2>2 DEF TypeOK, Procs
      <3>2. VictimHeld'
        <4>1. ref'[c] \in Live
          BY <2>2 DEF OldestIdle, IdleLive, TypeOK
        <4>2. \A d \in Clients \ {c} : pc[d] # "victim"
          BY <1>5, ConstantsAssumption DEF EnsureSlow, Purges, VictimHeld
        <4>3. pc[Janitor] # "drop"
          BY <1>5, ConstantsAssumption DEF EnsureSlow, Purges, VictimHeld
        <4> QED
          BY <1>5, <2>2, <3>1, <4>1, <4>2, <4>3, ConstantsAssumption
          DEF VictimHeld, Procs, PickVictim, manVars, Live, LiveHashes
      <3>3. \A q \in Procs : Pending(q)' = Pending(q) /\ Running(q)'
        BY <1>5, <3>1 DEF EnsureSlow, PickVictim, Purges, MarksOwned, Pending, Running, finVars, manVars
      <3>4. MarksOwned'
        BY <1>5, <3>3 DEF PickVictim, Purges, MarksOwned, manVars
      <3> QED
        BY <1>5, <3>2, <3>4 DEF PickVictim, Purges, OwnHash, PurgeExclusion, DirOwned, manVars
    <2> QED
      BY <1>5, <2>1, <2>2 DEF PickVictim, Goto
  <1> QED
    BY <1>1, <1>2, <1>3, <1>4, <1>5 DEF EnsureSlow

\* Every step of a client.
LEMMA ClientKeeps ==
  ASSUME TypeOK, Purges, NEW c \in Clients, EnsureEngine(c) \/ UseEngine(c) \/ Remove(c)
  PROVE  Purges'
  <1> USE DEF TypeOK, Label, manVars, useVars, finVars, localVars
  <1>1. ASSUME NEW h \in Hashes, EnsureFast(c, h) PROVE Purges'
    <2>1. CASE Reuse(c, h)
      BY <1>1, <2>1, ClientMoves DEF Reuse, EnsureFast
    <2>2. CASE AwaitPurge(c, h)
      BY <1>1, <2>2, ClientMoves DEF AwaitPurge, EnsureFast
    <2> QED
      BY <1>1, <2>1, <2>2, ClientMoves DEF EnsureFast
  <1>2. CASE EnsureWait(c)
    BY <1>2, ClientMoves DEF EnsureWait
  <1>3. CASE DropVictim(c)
    <2>1. {ref[c]} \in SUBSET Live /\ c \in Procs /\ "fast" \in Return /\ BeginPurge(c, {ref[c]}, "fast")
      BY <1>3 DEF DropVictim, Purges, VictimHeld, Procs, Return
    <2>2. (OwnHash /\ PurgeExclusion /\ MarksOwned /\ DirOwned)'
      BY <2>1, PurgeStarts DEF Purges
    <2>3. VictimHeld'
      BY <1>3, ConstantsAssumption DEF DropVictim, BeginPurge, Goto, Purges, VictimHeld, Procs
    <2> QED
      BY <2>2, <2>3 DEF Purges
  <1>4. CASE UseEngine(c)
    <2>1. CASE Stats(c)
      BY <2>1, PurgeFrame DEF Stats, Purges
    <2>2. CASE NewReaderTouch(c)
      BY <2>2, ClientMoves DEF NewReaderTouch
    <2>3. CASE NewReaderPin(c)
      BY <2>3, ClientMoves DEF NewReaderPin
    <2>4. CASE Release(c)
      BY <2>4, ClientMoves DEF Release
    <2>5. CASE CloseReader(c)
      BY <2>5, ClientMoves DEF CloseReader
    <2> QED
      BY <1>4, <2>1, <2>2, <2>3, <2>4, <2>5 DEF UseEngine
  <1>5. ASSUME NEW vs \in SUBSET Live, BeginPurge(c, vs, "idle"), mu = Free, UNCHANGED <<mu, jan>> PROVE Purges'
    <2>1. (OwnHash /\ PurgeExclusion /\ MarksOwned /\ DirOwned)'
      BY <1>5, PurgeStarts DEF Purges, Procs, Return
    <2>2. VictimHeld'
      BY <1>5, ConstantsAssumption DEF BeginPurge, Goto, Purges, VictimHeld, Procs
    <2> QED
      BY <2>1, <2>2 DEF Purges
  <1>6. CASE RemoveAll(c)
    BY <1>5, <1>6 DEF RemoveAll
  <1>7. ASSUME NEW h \in Hashes, RemoveEngine(c, h) PROVE Purges'
    <2>1. {engines[h]} \in SUBSET Live
      BY <1>7 DEF RemoveEngine, Live, LiveHashes
    <2> QED
      BY <1>5, <1>7, <2>1 DEF RemoveEngine
  <1>8. ASSUME NEW h \in Hashes, GetEngine(c, h) PROVE Purges'
    BY <1>8, ClientMoves DEF GetEngine
  <1> QED
    BY <1>1, <1>2, <1>3, <1>4, <1>6, <1>7, <1>8, SlowKeeps DEF EnsureEngine, Remove

\* The janitor moves between steps of its passes without holding m.mu.
LEMMA JanitorMoves ==
  ASSUME TypeOK, Purges, pc[Janitor] \notin {"drop", "clear", "close"},
         NEW l \in Label \ {"drop", "clear", "close"}, Goto(Janitor, l),
         UNCHANGED <<manVars, mu, localVars, finVars>>
  PROVE  Purges'
  <1>1. \A q \in Procs : pc'[q] = IF q = Janitor THEN l ELSE pc[q]
    BY DEF Goto, TypeOK, Procs
  <1>2. OwnHash' /\ PurgeExclusion' /\ DirOwned'
    BY DEF Purges, OwnHash, PurgeExclusion, DirOwned, manVars
  <1>3. VictimHeld'
    BY <1>1, ConstantsAssumption DEF Purges, VictimHeld, Live, LiveHashes, manVars, localVars, Procs
  <1>4. \A q \in Procs : Pending(q)' = Pending(q) /\ Running(q)'
    BY <1>1 DEF Purges, MarksOwned, Pending, Running, manVars, finVars
  <1>5. MarksOwned'
    BY <1>4 DEF Purges, MarksOwned, manVars
  <1> QED
    BY <1>2, <1>3, <1>5 DEF Purges

\* The janitor takes m.mu for a victim that is in the map.
LEMMA JanitorPicks ==
  ASSUME TypeOK, Purges, mu = Free, mu' = Janitor, Goto(Janitor, "drop"),
         pc[Janitor] \notin {"clear", "close"}, jan'.victim \in Live,
         UNCHANGED <<manVars, localVars, finVars>>
  PROVE  Purges'
  <1>1. \A q \in Procs : pc'[q] = IF q = Janitor THEN "drop" ELSE pc[q]
    BY DEF Goto, TypeOK, Procs
  <1>2. VictimHeld'
    BY <1>1, ConstantsAssumption DEF Purges, VictimHeld, Live, LiveHashes, manVars, localVars, Procs
  <1>3. \A q \in Procs : Pending(q)' = Pending(q) /\ Running(q)'
    BY <1>1 DEF Purges, MarksOwned, Pending, Running, manVars, finVars
  <1>4. MarksOwned'
    BY <1>3 DEF Purges, MarksOwned, manVars
  <1> QED
    BY <1>2, <1>4 DEF Purges, OwnHash, PurgeExclusion, DirOwned, manVars

\* Every step of the janitor.
LEMMA JanitorKeeps ==
  ASSUME TypeOK, Purges, JanitorStep
  PROVE  Purges'
  <1> USE DEF JanGo, JanFrame, Label
  <1>1. CASE JanTick
    BY <1>1, JanitorMoves DEF JanTick
  <1>2. CASE JanMeasure \/ JanRead \/ JanClock
    BY <1>2, JanitorMoves DEF JanMeasure, JanRead, JanClock
  <1>3. CASE JanMeasured
    BY <1>3, JanitorMoves DEF JanMeasured
  <1>4. CASE JanSizeEnd
    BY <1>4, JanitorMoves DEF JanSizeEnd
  <1>5. CASE JanIdlePass
    BY <1>5, JanitorMoves DEF JanIdlePass
  <1>6. CASE JanReaderlessEnd
    BY <1>6, JanitorMoves DEF JanReaderlessEnd
  <1>7. CASE JanHalt
    BY <1>7, JanitorMoves DEF JanHalt
  <1>8. ASSUME NEW e \in jan.rest PROVE
             /\ [[jan EXCEPT !.rest = @ \ {e}] EXCEPT !.victim = e].victim = e
             /\ e \in Inst /\ HashOf(e) \in Hashes /\ e # Nil
             /\ engines[HashOf(e)] = e => e \in Live
    BY ConstantsAssumption DEF TypeOK, Locals, Inst, HashOf, Live, LiveHashes
  <1>9. CASE JanSize
    <2>1. CASE mu' = mu /\ Goto(Janitor, "size")
      BY <1>9, <2>1, JanitorMoves DEF JanSize
    <2>2. CASE ~(mu' = mu /\ Goto(Janitor, "size"))
      BY <1>8, <1>9, <2>2, JanitorPicks DEF JanSize, OldestEntries
    <2> QED
      BY <2>1, <2>2
  <1>10. CASE JanReaderless
    <2>1. CASE mu' = mu /\ Goto(Janitor, "readerless")
      BY <1>10, <2>1, JanitorMoves DEF JanReaderless
    <2>2. CASE ~(mu' = mu /\ Goto(Janitor, "readerless"))
      BY <1>8, <1>10, <2>2, JanitorPicks DEF JanReaderless
    <2> QED
      BY <2>1, <2>2
  <1>11. CASE JanDrop
    <2>1. PICK l \in Return : BeginPurge(Janitor, {jan.victim}, l)
      BY <1>11 DEF JanDrop, Return
    <2>2. {jan.victim} \in SUBSET Live /\ Janitor \in Procs
      BY <1>11 DEF JanDrop, Purges, VictimHeld, Procs
    <2>3. (OwnHash /\ PurgeExclusion /\ MarksOwned /\ DirOwned)'
      BY <2>1, <2>2, PurgeStarts DEF Purges
    <2>4. VictimHeld'
      BY <1>11, <2>1, ConstantsAssumption DEF JanDrop, BeginPurge, Goto, Purges, VictimHeld, Procs, TypeOK
    <2> QED
      BY <2>3, <2>4 DEF Purges
  <1> QED
    BY <1>1, <1>2, <1>3, <1>4, <1>5, <1>6, <1>7, <1>9, <1>10, <1>11 DEF JanitorStep

\* Every step keeps the five parts.
LEMMA PurgesStep ==
  ASSUME TypeOK, Purges, [Next]_vars
  PROVE  Purges'
  <1>1. ASSUME NEW p \in Procs, Finish(p) PROVE Purges'
    BY <1>1, FinishKeeps DEF Purges
  <1>2. ASSUME NEW h \in Hashes, Download(h) PROVE Purges'
    <2>1. OwnHash' /\ PurgeExclusion' /\ VictimHeld' /\ DirOwned'
      BY <1>2 DEF Download, TypeOK, Purges, OwnHash, PurgeExclusion, VictimHeld, DirOwned, Live, LiveHashes, localVars
    <2>2. \A q \in Procs : Pending(q)' = Pending(q)
      BY <1>2 DEF Download, Pending, finVars
    <2>3. ASSUME NEW q \in Procs PROVE Running(q)'
      <3>1. pc[q] = "clear" => cur[q] \in Pending(q)
        BY DEF Purges, MarksOwned, Running, Pending
      <3>2. pc[q] = "clear" => HashOf(cur[q]) # h
        BY <1>2, <3>1, PendingNotLive DEF Download, Purges
      <3> QED
        BY <1>2, <3>2 DEF Download, Running, TypeOK, finVars, Purges, MarksOwned
    <2>4. MarksOwned'
      BY <1>2, <2>2, <2>3 DEF Download, MarksOwned, Purges
    <2> QED
      BY <2>1, <2>4 DEF Purges
  <1>3. CASE Shutdown
    BY <1>3, PurgeFrame DEF Shutdown, Purges, localVars, finVars
  <1>4. CASE Tick
    BY <1>4, PurgeFrame DEF Tick, Purges, manVars, localVars, finVars
  <1>5. CASE UNCHANGED vars
    BY <1>5, PurgeFrame DEF vars, Purges, manVars, localVars, finVars
  <1> QED
    BY <1>1, <1>2, <1>3, <1>4, <1>5, ClientKeeps, JanitorKeeps DEF Next

-----------------------------------------------------------------------------
(* The readerless pass and the engines handed out during it *)

\* A bump, or none, with no new grant.
LEMMA BumpKeeps ==
  ASSUME TypeOK, GrantsRecent, UNCHANGED <<fresh, now, jan>>,
         pc'[Janitor] = pc[Janitor], ret'[Janitor] = ret[Janitor],
         lastAccess' = lastAccess \/ \E i : Bump(i)
  PROVE  GrantsRecent'
  BY DEF GrantsRecent, TypeOK, Locals, Bump

\* A grant bumps the engine it hands out, and needs m.mu.
LEMMA GrantKeeps ==
  ASSUME TypeOK, GrantsRecent, VictimHeld, mu = Free, NEW i \in Inst, Bump(i), Grant(i),
         UNCHANGED <<now, jan>>, pc'[Janitor] = pc[Janitor], ret'[Janitor] = ret[Janitor]
  PROVE  GrantsRecent'
  <1>1. pc[Janitor] # "drop"
    BY ConstantsAssumption DEF VictimHeld
  <1>2. \A e \in fresh' : lastAccess'[e] = now \/ (e \in fresh /\ lastAccess'[e] = lastAccess[e])
    BY DEF Bump, Grant, TypeOK
  <1> QED
    BY <1>1, <1>2 DEF GrantsRecent, TypeOK, Locals

\* Every step of a client.
LEMMA ClientGrants ==
  ASSUME TypeOK, VictimHeld, GrantsRecent, NEW c \in Clients,
         EnsureEngine(c) \/ UseEngine(c) \/ Remove(c)
  PROVE  GrantsRecent'
  <1> USE ConstantsAssumption DEF useVars, finVars
  <1>0. ASSUME NEW l, Goto(c, l) PROVE pc'[Janitor] = pc[Janitor]
    BY <1>0 DEF Goto, TypeOK, Procs
  <1>1. ASSUME NEW h \in Hashes, Reuse(c, h), mu = Free, UNCHANGED now PROVE GrantsRecent'
    BY <1>0, <1>1, GrantKeeps DEF Reuse, TypeOK, Instance
  <1>2. ASSUME NEW h \in Hashes, AwaitPurge(c, h), UNCHANGED now PROVE GrantsRecent'
    BY <1>0, <1>2, BumpKeeps DEF AwaitPurge
  <1>3. ASSUME NEW h \in Hashes, EnsureFast(c, h) PROVE GrantsRecent'
    BY <1>0, <1>1, <1>2, <1>3, BumpKeeps DEF EnsureFast
  <1>4. CASE EnsureSlow(c)
    <2>1. target[c] \in Hashes /\ Unused(target[c]) \subseteq Inst
      BY DEF TypeOK, Unused, Inst
    <2>2. CASE Create(c, target[c])
      <3>1. PICK i \in Unused(target[c]) : Bump(i) /\ Grant(i)
        BY <2>2 DEF Create
      <3> QED
        BY <1>0, <1>4, <2>1, <2>2, <3>1, GrantKeeps DEF Create, EnsureSlow
    <2>3. CASE PickVictim(c, target[c]) \/ AddFails(c)
      BY <1>0, <1>4, <2>3, BumpKeeps DEF PickVictim, AddFails, EnsureSlow
    <2> QED
      BY <1>1, <1>2, <1>4, <2>1, <2>2, <2>3 DEF EnsureSlow
  <1>5. CASE EnsureWait(c)
    BY <1>0, <1>5, BumpKeeps DEF EnsureWait
  <1>6. CASE DropVictim(c)
    BY <1>0, <1>6, BumpKeeps DEF DropVictim, BeginPurge, TypeOK, Procs
  <1>7. CASE UseEngine(c)
    BY <1>0, <1>7, BumpKeeps DEF UseEngine, Stats, NewReaderTouch, NewReaderPin, Release, CloseReader
  <1>8. CASE RemoveAll(c)
    BY <1>0, <1>8, BumpKeeps DEF RemoveAll, BeginPurge, TypeOK, Procs
  <1>9. ASSUME NEW h \in Hashes, RemoveEngine(c, h) \/ GetEngine(c, h) PROVE GrantsRecent'
    BY <1>0, <1>9, BumpKeeps DEF RemoveEngine, GetEngine, BeginPurge, TypeOK, Procs
  <1> QED
    BY <1>3, <1>4, <1>5, <1>6, <1>7, <1>8, <1>9 DEF EnsureEngine, Remove

\* Every step of the janitor. A pass starts with no grants and the present time;
\* a round of the readerless pass never picks an engine granted since.
LEMMA JanitorGrants ==
  ASSUME TypeOK, VictimHeld, GrantsRecent, JanitorStep
  PROVE  GrantsRecent'
  <1> USE ConstantsAssumption DEF JanGo, JanFrame
  <1>0. JanInit.pass = "none" /\ \A p : Readerless(p).pass = p /\ Readerless(p).now = 0
    BY DEF JanInit, Readerless
  <1>a. ASSUME NEW l, Goto(Janitor, l) PROVE pc'[Janitor] = l
    BY <1>a DEF Goto, TypeOK, Procs
  <1>1. CASE JanTick
    <2>1. \A b : [JanInit EXCEPT !.pass = "size", !.unread = Live, !.budget = b].pass = "size"
      BY DEF JanInit
    <2>2. \/ jan'.pass = "size"
          \/ /\ jan'.pass = "none" \/ (jan'.pass = "grace" /\ jan'.now = 0)
             /\ pc'[Janitor] \in {"idlePass", "clock"}
      BY <1>0, <1>a, <1>1, <2>1 DEF JanTick
    <2>3. fresh' = {} /\ now' = now /\ now \in Nat
      BY <1>1 DEF JanTick, TypeOK
    <2>4. pc'[Janitor] # "drop"
      BY <1>a, <1>1 DEF JanTick
    <2> QED
      BY <2>2, <2>3, <2>4 DEF GrantsRecent
  <1>2. CASE JanIdlePass
    <2>1. jan'.pass = "none" \/ (jan'.pass = "idle" /\ Idle > 0 /\ jan'.now = 0)
      BY <1>0, <1>2 DEF JanIdlePass
    <2>2. fresh' = {} /\ now' = now /\ now \in Nat
      BY <1>2 DEF JanIdlePass, TypeOK
    <2>3. pc'[Janitor] \in {"idle", "clock"}
      BY <1>a, <1>2 DEF JanIdlePass
    <2> QED
      BY <2>1, <2>2, <2>3 DEF GrantsRecent
  <1>3. CASE JanSizeEnd \/ JanReaderlessEnd \/ JanHalt
    <2>1. jan'.pass = "none"
      BY <1>0, <1>3 DEF JanSizeEnd, JanReaderlessEnd, JanHalt
    <2>2. pc'[Janitor] \in {"idlePass", "idle", "halt"}
      BY <1>a, <1>3 DEF JanSizeEnd, JanReaderlessEnd, JanHalt
    <2> QED
      BY <2>1, <2>2 DEF GrantsRecent
  <1>b. CASE JanClock
    <2>1. jan'.pass = jan.pass /\ jan'.now = now /\ fresh' = {} /\ now' = now /\ now \in Nat
      BY <1>b DEF JanClock, TypeOK, Locals
    <2>2. pc'[Janitor] = "readerless"
      BY <1>a, <1>b DEF JanClock
    <2> QED
      BY <2>1, <2>2 DEF GrantsRecent
  <1>4. CASE JanMeasure \/ JanRead \/ JanMeasured \/ JanSize
    <2>1. jan.pass = "size"
      BY <1>4 DEF JanMeasure, JanRead, JanMeasured, JanSize, GrantsRecent
    <2>2. CASE JanMeasure \/ JanRead
      <3>1. jan'.pass = "size"
        BY <2>1, <2>2 DEF JanMeasure, JanRead, TypeOK, Locals
      <3> QED
        BY <3>1 DEF GrantsRecent
    <2>3. CASE JanMeasured
      <3>1. (jan' = JanInit /\ pc'[Janitor] = "idlePass") \/ jan' = [jan EXCEPT !.now = now]
        BY <1>a, <2>3 DEF JanMeasured
      <3>2. (jan' = JanInit /\ pc'[Janitor] = "idlePass") \/ jan'.pass = "size"
        BY <2>1, <3>1 DEF TypeOK, Locals
      <3> QED
        BY <1>0, <3>2 DEF GrantsRecent
    <2>4. CASE JanSize
      <3>1. jan'.pass = "size"
        BY <2>1, <2>4 DEF JanSize, TypeOK, Locals
      <3> QED
        BY <3>1 DEF GrantsRecent
    <2> QED
      BY <1>4, <2>2, <2>3, <2>4
  <1>5. CASE JanReaderless
    <2>1. PICK e \in jan.rest :
            LET next   == [jan EXCEPT !.rest = @ \ {e}]
                spared == openReaders[e] > 0 \/ jan.now - lastAccess[e] < Threshold
            IN  \/ JanGo("readerless", next)
                \/ ~spared /\ JanGo("drop", [next EXCEPT !.victim = e])
      BY <1>5 DEF JanReaderless
    <2>2. jan'.pass = jan.pass /\ jan'.now = jan.now /\ UNCHANGED <<now, fresh, lastAccess>>
      BY <1>5, <2>1 DEF JanReaderless, TypeOK, Locals
    <2>3. CASE pc'[Janitor] = "readerless"
      BY <2>2, <2>3 DEF GrantsRecent
    <2>4. CASE pc'[Janitor] = "drop"
      <3>1. jan'.victim = e /\ ~(jan.now - lastAccess[e] < Threshold)
        BY <1>a, <2>1, <2>4 DEF TypeOK, Locals
      <3>2. jan.pass \in {"grace", "idle"} => Threshold \in Nat \ {0}
        BY DEF Threshold, GrantsRecent
      <3>3. jan.now \in Nat /\ e \in Inst /\ lastAccess[e] \in Nat
        BY DEF TypeOK, Locals
      <3>4. jan.pass \in {"grace", "idle"} => e \notin fresh
        BY <3>1, <3>2, <3>3 DEF GrantsRecent
      <3> QED
        BY <2>2, <2>4, <3>1, <3>4 DEF GrantsRecent
    <2> QED
      BY <1>a, <2>1, <2>3, <2>4
  <1>6. CASE JanDrop
    <2>1. jan'.pass = jan.pass /\ jan'.now = jan.now /\ UNCHANGED <<now, fresh, lastAccess>>
      BY <1>6 DEF JanDrop, TypeOK, Locals, useVars
    <2>2. pc'[Janitor] = "rmdir" /\ (ret'[Janitor] = "size" => jan.pass = "size")
      BY <1>6 DEF JanDrop, BeginPurge, Goto, TypeOK, Procs
    <2> QED
      BY <2>1, <2>2 DEF GrantsRecent
  <1> QED
    BY <1>1, <1>2, <1>3, <1>b, <1>4, <1>5, <1>6 DEF JanitorStep

\* Every step keeps GrantsRecent.
LEMMA GrantsStep ==
  ASSUME TypeOK, VictimHeld, GrantsRecent, [Next]_vars
  PROVE  GrantsRecent'
  <1>1. ASSUME NEW p \in Procs, Finish(p) PROVE GrantsRecent'
    <2>1. UNCHANGED <<lastAccess, fresh, now, jan, ret>>
      BY <1>1 DEF Finish, RmDir, ClearMark, CloseDone, useVars, finVars
    <2>2. \/ pc'[Janitor] = pc[Janitor]
          \/ pc[Janitor] \in {"rmdir", "clear", "close"} /\ pc'[Janitor] \in {"rmdir", "clear", "close", ret[Janitor]}
      BY <1>1 DEF Finish, RmDir, ClearMark, CloseDone, Goto, TypeOK, Procs
    <2>3. ret[Janitor] \in Return
      BY DEF TypeOK, Procs
    <2> QED
      BY <2>1, <2>2, <2>3 DEF GrantsRecent, Return
  <1>2. ASSUME NEW h \in Hashes, Download(h) PROVE GrantsRecent'
    BY <1>2, BumpKeeps DEF Download, useVars, finVars
  <1>3. CASE Shutdown
    BY <1>3, BumpKeeps DEF Shutdown, useVars, finVars
  <1>4. CASE Tick
    BY <1>4 DEF Tick, GrantsRecent, TypeOK, Locals, useVars, finVars
  <1>5. CASE UNCHANGED vars
    BY <1>5, BumpKeeps DEF vars, useVars, finVars
  <1> QED
    BY <1>1, <1>2, <1>3, <1>4, <1>5, ClientGrants, JanitorGrants DEF Next

-----------------------------------------------------------------------------
(* The theorems *)

\* IInv is an invariant: it holds initially and every step keeps it.
THEOREM Inductive == Spec => []IInv
  <1>1. Init => IInv
    <2> SUFFICES ASSUME Init PROVE IInv
      OBVIOUS
    <2>1. TypeOK
      BY TypeInit
    <2>2. OwnHash /\ PurgeExclusion /\ DirOwned
      BY DEF Init, OwnHash, PurgeExclusion, DirOwned
    <2>3. VictimHeld /\ MarksOwned
      BY DEF Init, VictimHeld, MarksOwned, Pending, Running, Procs
    <2>4. GrantsRecent
      BY DEF Init, GrantsRecent, JanInit, Procs
    <2> QED
      BY <2>1, <2>2, <2>3, <2>4 DEF IInv
  <1>2. IInv /\ [Next]_vars => IInv'
    <2> SUFFICES ASSUME IInv, [Next]_vars PROVE IInv'
      OBVIOUS
    <2>1. TypeOK'
      BY TypeStep DEF IInv
    <2>2. Purges'
      BY PurgesStep DEF IInv, Purges
    <2>3. GrantsRecent'
      BY GrantsStep DEF IInv
    <2> QED
      BY <2>1, <2>2, <2>3 DEF IInv, Purges
  <1> QED
    BY <1>1, <1>2, PTL DEF Spec

\* Every variable of the manager keeps its type, for any number of clients.
THEOREM TypeCorrect == Spec => []TypeOK
  BY Inductive, PTL DEF IInv

\* EnsureEngine never recreates an engine whose directory a purge is deleting.
THEOREM PurgeExcludesCreate == Spec => []PurgeExclusion
  BY Inductive, PTL DEF IInv

\* No purge leaves a directory behind that belongs to nobody.
THEOREM NoOrphanDir == Spec => []DirOwned
  BY Inductive, PTL DEF IInv

\* os.RemoveAll, run without the lock, never deletes the data of an engine in the map.
THEOREM DeletesOnlyDropped == Spec => OnlyDroppedDirsDeleted
  <1> DEFINE Deletes == \A h \in Hashes : dir[h] # Nil /\ dir'[h] = Nil => Dropped(dir[h])
  <1>1. IInv /\ [Next]_vars => [Deletes]_vars
    <2> SUFFICES ASSUME IInv, Next, NEW h \in Hashes, dir[h] # Nil, dir'[h] = Nil PROVE Dropped(dir[h])
      OBVIOUS
    <2>1. PICK p \in Procs : RmDir(p)
      <3> USE DEF manVars, useVars, finVars
      <3>1. ASSUME NEW c \in Clients, EnsureEngine(c) \/ UseEngine(c) \/ Remove(c) PROVE dir' = dir
        <4>1. ASSUME NEW g \in Hashes, EnsureFast(c, g) PROVE dir' = dir
          BY <4>1 DEF EnsureFast, Reuse, AwaitPurge
        <4>2. CASE EnsureSlow(c)
          BY <4>2 DEF EnsureSlow, Reuse, AwaitPurge, Create, PickVictim, AddFails
        <4>3. CASE EnsureWait(c) \/ DropVictim(c) \/ UseEngine(c)
          BY <4>3 DEF EnsureWait, DropVictim, BeginPurge, UseEngine, Stats, NewReaderTouch, NewReaderPin, Release, CloseReader
        <4>4. CASE Remove(c)
          BY <4>4 DEF Remove, RemoveAll, RemoveEngine, GetEngine, BeginPurge
        <4> QED
          BY <3>1, <4>1, <4>2, <4>3, <4>4 DEF EnsureEngine
      <3>2. ASSUME JanitorStep PROVE dir' = dir
        BY <3>2 DEF JanitorStep, JanTick, JanMeasure, JanRead, JanMeasured, JanClock, JanSize, JanSizeEnd, JanIdlePass,
                    JanReaderless, JanReaderlessEnd, JanDrop, JanHalt, JanFrame, BeginPurge
      <3>3. ASSUME NEW g \in Hashes, Download(g) PROVE FALSE
        BY <3>3 DEF Download, IInv, TypeOK
      <3>4. ASSUME NEW p \in Procs, ClearMark(p) \/ CloseDone(p) PROVE dir' = dir
        BY <3>4 DEF ClearMark, CloseDone
      <3>5. ASSUME Shutdown \/ Tick PROVE dir' = dir
        BY <3>5 DEF Shutdown, Tick
      <3> QED
        BY <3>1, <3>2, <3>3, <3>4, <3>5 DEF Next, Finish
    <2>2. PICK v \in todo[p] : dir' = [dir EXCEPT ![HashOf(v)] = Nil]
      BY <2>1 DEF RmDir
    <2>3. HashOf(v) = h
      BY <2>2 DEF IInv, TypeOK
    <2>4. v \in Pending(p)
      BY <2>1, <2>2 DEF RmDir, Pending
    <2>5. purging[h] = v /\ engines[h] = Nil /\ v \notin Live
      BY <2>3, <2>4, PendingNotLive DEF IInv
    <2>6. dir[h] = v
      BY <2>5 DEF IInv, DirOwned
    <2> QED
      BY <2>5, <2>6 DEF Dropped
  <1> QED
    BY <1>1, Inductive, PTL DEF Spec, OnlyDroppedDirsDeleted

\* purgeReaderless never drops an engine EnsureEngine handed out during the pass.
THEOREM IdlePassSparesGranted == Spec => IdlePassHonoursGrant
  <1>1. IInv => \A e \in Inst : JanitorDrops(e) /\ jan.pass \in {"grace", "idle"} => e \notin fresh
    BY DEF IInv, GrantsRecent, JanitorDrops
  <1> QED
    BY <1>1, Inductive, PTL DEF IdlePassHonoursGrant

\* A step without Create only removes engines from the map.
LEMMA OnlyCreateAdds ==
  ASSUME TypeOK, [Next]_vars
  PROVE  \/ LiveHashes' \subseteq LiveHashes
         \/ \E c \in Clients : engines[target[c]] = Nil /\ Create(c, target[c])
  <1> USE DEF manVars, finVars
  <1>1. ASSUME engines' = engines PROVE LiveHashes' \subseteq LiveHashes
    BY <1>1 DEF LiveHashes
  <1>2. ASSUME NEW p, NEW vs, NEW l, BeginPurge(p, vs, l) PROVE LiveHashes' \subseteq LiveHashes
    BY <1>2 DEF BeginPurge, LiveHashes
  <1>3. ASSUME NEW c \in Clients, NEW h \in Hashes, EnsureFast(c, h) PROVE engines' = engines
    BY <1>3 DEF EnsureFast, Reuse, AwaitPurge
  <1>4. ASSUME NEW c \in Clients, EnsureSlow(c)
        PROVE  engines' = engines \/ (engines[target[c]] = Nil /\ Create(c, target[c]))
    BY <1>4 DEF EnsureSlow, Reuse, AwaitPurge, PickVictim, AddFails
  <1>5. ASSUME NEW c \in Clients, EnsureWait(c) \/ UseEngine(c) PROVE engines' = engines
    BY <1>5 DEF EnsureWait, UseEngine, Stats, NewReaderTouch, NewReaderPin, Release, CloseReader
  <1>6. ASSUME NEW c \in Clients, DropVictim(c) \/ Remove(c) PROVE LiveHashes' \subseteq LiveHashes
    <2>1. ASSUME NEW h \in Hashes, GetEngine(c, h) PROVE LiveHashes' \subseteq LiveHashes
      BY <1>1, <2>1 DEF GetEngine
    <2> QED
      BY <1>2, <1>6, <2>1 DEF DropVictim, Remove, RemoveAll, RemoveEngine
  <1>7. ASSUME NEW p \in Procs, Finish(p) PROVE engines' = engines
    BY <1>7 DEF Finish, RmDir, ClearMark, CloseDone
  <1>8. ASSUME JanitorStep PROVE LiveHashes' \subseteq LiveHashes
    <2>1. CASE JanDrop
      BY <1>2, <2>1 DEF JanDrop
    <2> QED
      BY <1>1, <1>8, <2>1 DEF JanitorStep, JanTick, JanMeasure, JanRead, JanMeasured, JanClock, JanSize, JanSizeEnd, JanIdlePass,
                       JanReaderless, JanReaderlessEnd, JanHalt, JanFrame
  <1>9. ASSUME (\E h \in Hashes : Download(h)) \/ Shutdown \/ Tick \/ UNCHANGED vars PROVE engines' = engines
    BY <1>9 DEF Download, Shutdown, Tick, vars
  <1> QED
    BY <1>1, <1>3, <1>4, <1>5, <1>6, <1>7, <1>8, <1>9 DEF Next, EnsureEngine

\* RIVULET_MAX_ENGINES holds for any finite set of infohashes and any clients.
THEOREM CapHolds == Spec => []CapRespected
  <1> DEFINE n == Cardinality(LiveHashes)
  <1>1. Init => CapRespected
    <2> SUFFICES ASSUME Init PROVE CapRespected
      OBVIOUS
    <2>1. LiveHashes = {}
      BY DEF Init, LiveHashes
    <2> QED
      BY <2>1, FS_EmptySet, ConstantsAssumption DEF CapRespected
  <1>2. IInv /\ CapRespected /\ [Next]_vars => CapRespected'
    <2> SUFFICES ASSUME IInv, CapRespected, [Next]_vars PROVE CapRespected'
      OBVIOUS
    <2>1. IsFiniteSet(LiveHashes) /\ n \in Nat
      BY FS_Subset, FS_CardinalityType, ConstantsAssumption DEF LiveHashes
    <2>2. CASE LiveHashes' \subseteq LiveHashes
      <3>1. Cardinality(LiveHashes') <= n /\ Cardinality(LiveHashes') \in Nat
        BY <2>1, <2>2, FS_Subset, FS_CardinalityType
      <3> QED
        BY <2>1, <3>1, ConstantsAssumption DEF CapRespected
    <2>3. ASSUME NEW c \in Clients, engines[target[c]] = Nil, Create(c, target[c]) PROVE CapRespected'
      <3>1. LiveHashes' \subseteq LiveHashes \cup {target[c]} /\ target[c] \notin LiveHashes
        BY <2>3 DEF Create, LiveHashes, IInv, TypeOK
      <3>2. IsFiniteSet(LiveHashes \cup {target[c]}) /\ Cardinality(LiveHashes \cup {target[c]}) = n + 1
        BY <2>1, <3>1, FS_AddElement
      <3>3. Cardinality(LiveHashes') <= n + 1 /\ Cardinality(LiveHashes') \in Nat
        BY <3>1, <3>2, FS_Subset, FS_CardinalityType
      <3>4. MaxEngines > 0 => n < MaxEngines
        BY <2>1, <2>3, ConstantsAssumption DEF Create, AtCap
      <3> QED
        BY <2>1, <3>3, <3>4, ConstantsAssumption DEF CapRespected
    <2> QED
      BY <2>2, <2>3, OnlyCreateAdds DEF IInv
  <1> QED
    BY <1>1, <1>2, Inductive, PTL DEF Spec

=============================================================================
