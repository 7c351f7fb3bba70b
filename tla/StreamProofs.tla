---------------------------- MODULE StreamProofs ----------------------------
(***************************************************************************)
(* Proofs about HLS transcode sessions (HLSSessions) and FTP transfers     *)
(* (FTPPool).                                                              *)
(*                                                                         *)
(* SessionDirsKept is not inductive. That a removal is for the session     *)
(* draining under its id needs that every deleted session whose directory  *)
(* nobody has begun to remove is still the draining one, and that no       *)
(* registered session is deleted; this needs that a new session has a      *)
(* generation nobody holds yet. That inFlight never goes below zero needs  *)
(* that it counts the calls that have not left.                            *)
(*                                                                         *)
(* PoolExact and InSync rest on one invariant: who owns a session, how far *)
(* the hook of a cancelled request has come, and on which sessions a reply *)
(* is still owed. That the pool keeps its limits needs that its ranks tell *)
(* the parked sessions apart, so that an eviction takes exactly as many as *)
(* are too many.                                                           *)
(***************************************************************************)
EXTENDS HLSSessions, FTPPool, FiniteSetTheorems, NaturalsInduction, WellFoundedInduction, TLAPS

\* The calls of HLSFile that count as being in flight on session s.
Calls(s) == {c \in Clients : at[c] = s /\ pc[c] \in {"work", "exit"}}

\* inFlight is the number of calls that have not left.
InFlightExact == \A s \in Inst : inFlight[s] = Cardinality(Calls(s))

\* Nobody holds a generation that was not made.
GensMade ==
  /\ \A i \in Ids : sessions[i] <= gen[i] /\ json[i] <= gen[i]
  /\ \A s \in deleted \cup todo : s[2] <= gen[s[1]]
  /\ \A p \in Procs : at[p] # Nil => at[p][2] <= gen[at[p][1]]

\* Requests and the reaper are at steps of their own, and a step that works on
\* a session has one.
PlacesKnown ==
  /\ \A c \in Clients : pc[c] \notin {"sleep", "victims", "flush", "stopped"}
  /\ pc[Reaper] \notin {"idle", "touch", "probe", "work", "exit", "left"}
  /\ \A p \in Procs : pc[p] \notin {"idle", "sleep", "victims", "flush", "stopped"} => at[p] \in Inst

\* A registered session is not deleted, and its id is not draining.
RegisteredWhole == \A s \in Registered : s \notin deleted /\ draining[s[1]] = 0

\* Only deleted sessions are removed.
RemovesDeleted ==
  /\ removed \subseteq deleted
  /\ \A p \in Procs : /\ pc[p] \in {"remove", "rmdir", "clear"} => at[p] \in deleted
                      /\ pc[p] \in {"rmdir", "clear"} => at[p] \in removed

\* A deleted session that nobody has begun to remove is draining.
DeletedDrains == Live => \A s \in deleted \ removed : draining[s[1]] = s[2]

\* The victims of the reaper are deleted and have no calls in flight.
VictimsQuiet ==
  /\ pc[Reaper] \in {"victims", "remove", "rmdir", "clear"} =>
       todo \subseteq deleted /\ \A s \in todo : inFlight[s] = 0
  /\ ReaperSpares

\* A call works on a session that is registered or deleted.
WorksOnKnown == Live => \A c \in Clients : pc[c] = "work" => at[c] \in Registered \cup deleted

\* A process that has not loaded its sessions runs nothing.
NotUp ==
  ~up => /\ pc = [p \in Procs |-> IF p = Reaper THEN "sleep" ELSE "idle"]
         /\ deleted = {} /\ draining = [i \in Ids |-> 0] /\ closing = "no"

\* CloseHLS of a manager with persistence is over only after the reaper.
ReaperGone == persist /\ closing = "done" => pc[Reaper] = "stopped"

\* The inductive invariant.
HInv ==
  /\ SessionTypeOK /\ InFlightExact /\ GensMade /\ PlacesKnown
  /\ RegisteredWhole /\ RemovesDeleted /\ DeletedDrains /\ VictimsQuiet /\ WorksOnKnown /\ NotUp
  /\ ReaperGone /\ RegisteredDir /\ RemovalOwn /\ FilesOwn

-----------------------------------------------------------------------------
(* Types and counts *)

\* A finite set of calls gains or loses one.
LEMMA CallsCount ==
  ASSUME NEW S, NEW T, NEW x, S \subseteq Clients, x \in Clients
  PROVE  /\ Cardinality(S) \in Nat
         /\ x \notin S /\ T = S \cup {x} => Cardinality(T) = Cardinality(S) + 1
         /\ x \in S /\ T = S \ {x} => Cardinality(T) = Cardinality(S) - 1
<1>1. IsFiniteSet(S) BY HLSAssumption, FS_Subset
<1>2. Cardinality(S) \in Nat BY ONLY <1>1, FS_CardinalityType
<1>3. x \notin S /\ T = S \cup {x} => Cardinality(T) = Cardinality(S) + 1
  BY ONLY <1>1, FS_AddElement
<1>4. x \in S /\ T = S \ {x} => Cardinality(T) = Cardinality(S) - 1
  BY ONLY <1>1, FS_RemoveElement
<1> QED BY <1>2, <1>3, <1>4

\* The program counters.
Places == {"idle", "touch", "probe", "check", "write", "work", "exit", "left", "remove", "rmdir",
           "clear", "sleep", "victims", "flush", "stopped"}

\* SessionTypeOK with one conjunct per variable.
Types ==
    /\ persist \in BOOLEAN /\ up \in BOOLEAN /\ closing \in {"no", "wait", "flush", "done"}
    /\ sessions \in [Ids -> 0 .. MaxGen] /\ draining \in [Ids -> 0 .. MaxGen]
    /\ gen \in [Ids -> 0 .. MaxGen] /\ json \in [Ids -> 0 .. MaxGen]
    /\ inFlight \in [Inst -> Nat]
    /\ deleted \subseteq Inst /\ removed \subseteq Inst /\ probed \subseteq Inst
    /\ idle \subseteq Inst /\ dirty \subseteq Inst /\ files \subseteq Inst /\ todo \subseteq Inst
    /\ dirs \subseteq Ids
    /\ pc \in [Procs -> Places]
    /\ at \in [Procs -> Inst \cup {Nil}] /\ exits \in Nat

\* The two say the same.
LEMMA TypesEach == /\ SessionTypeOK <=> Types
                   /\ SessionTypeOK' <=> Types'
BY DEF SessionTypeOK, Types, Places

\* The first state has the invariant.
LEMMA HInvInit == HLSInit => HInv
<1> SUFFICES ASSUME HLSInit PROVE HInv
  OBVIOUS
<1> USE HLSAssumption
<1>1. SessionTypeOK
  BY TypesEach DEF Types, HLSInit, Inst, Procs, Places
<1>2. InFlightExact
  <2>1. \A s \in Inst : Calls(s) = {}
    BY DEF Calls, HLSInit, Procs
  <2> QED BY <2>1, FS_EmptySet DEF InFlightExact, HLSInit
<1>3. /\ GensMade /\ PlacesKnown /\ RegisteredWhole /\ RemovesDeleted /\ DeletedDrains
      /\ VictimsQuiet /\ WorksOnKnown /\ NotUp /\ ReaperGone
  BY DEF HLSInit, ReaperGone, GensMade, PlacesKnown, RegisteredWhole, RemovesDeleted, DeletedDrains,
         VictimsQuiet,
         ReaperSpares, WorksOnKnown, NotUp, Inst, Procs, Registered, Live
<1>4. RegisteredDir /\ RemovalOwn /\ FilesOwn
  BY DEF HLSInit, RegisteredDir, RemovalOwn, FilesOwn, Removing, Registered, Inst, Procs, Live
<1> QED BY <1>1, <1>2, <1>3, <1>4 DEF HInv

-----------------------------------------------------------------------------
(* Steps *)

\* Step: a StartHLS that looks up or creates a session.
LEMMA StartHLSKeeps == ASSUME HInv, NEW c \in Clients, NEW i \in Ids, StartHLS(c, i) PROVE HInv'
<1> USE HLSAssumption
<1>a. Types BY TypesEach DEF HInv
<1>1. Types'
  BY <1>a DEF HInv, Types, PlacesKnown, Places, StartHLS, Enter, Serving, Registered, Inst, objs, Live,
              Procs
<1>2. InFlightExact'
  <2>1. \A x \in Inst : Calls(x)' = Calls(x)
    BY <1>a DEF HInv, Types, Calls, PlacesKnown, NotUp, StartHLS, Enter, Serving, Registered, Inst, objs,
                Live, Procs
  <2> QED BY <2>1 DEF HInv, InFlightExact, StartHLS, Enter, Serving, Registered, Inst, objs, Live, Procs
<1>3. GensMade'
  BY <1>a DEF HInv, GensMade, Types, Places, StartHLS, Enter, Serving, Registered, Inst, objs, Live, Procs
<1>4. PlacesKnown'
  BY <1>a DEF HInv, PlacesKnown, NotUp, Types, Places, StartHLS, Enter, Serving, Registered, Inst, objs,
              Live, Procs
<1>5. RegisteredWhole'
  BY <1>a DEF HInv, RegisteredWhole, GensMade, NotUp, Types, Places, StartHLS, Enter, Serving, Registered,
              Inst, objs, Live, Procs
<1>6. RemovesDeleted'
  BY <1>a DEF HInv, RemovesDeleted, PlacesKnown, VictimsQuiet, NotUp, Types, Places, StartHLS, Enter,
              Serving, Registered, Inst, objs, Live, Procs
<1>7. DeletedDrains'
  BY <1>a DEF HInv, DeletedDrains, RegisteredWhole, RemovesDeleted, RemovalOwn, Removing, NotUp,
              PlacesKnown, Types, Places, StartHLS, Enter, Serving, Registered, Inst, objs, Live, Procs
<1>8. VictimsQuiet'
  BY <1>a DEF HInv, VictimsQuiet, ReaperSpares, RegisteredWhole, RemovesDeleted, InFlightExact,
              PlacesKnown, Types, Places, StartHLS, Enter, Serving, Registered, Inst, objs, Live, Procs
<1>9. WorksOnKnown'
  BY <1>a DEF HInv, WorksOnKnown, NotUp, PlacesKnown, Types, Places, StartHLS, Enter, Serving, Registered,
              Inst, objs, Live, Procs
<1>10. NotUp'
  BY <1>a DEF HInv, NotUp, PlacesKnown, Types, Places, StartHLS, Enter, Serving, Registered, Inst, objs,
              Live, Procs
<1>11. ReaperGone'
  BY <1>a DEF HInv, ReaperGone, Types, Places, StartHLS, Enter, Serving, Registered, Inst, objs, Live, Procs
<1>12. RegisteredDir'
  BY <1>a DEF HInv, RegisteredDir, RemovalOwn, Removing, NotUp, RegisteredWhole, Types, Places, StartHLS,
              Enter, Serving, Registered, Inst, objs, Live, Procs
<1>13. RemovalOwn'
  BY <1>a DEF HInv, RemovalOwn, Removing, NotUp, RegisteredWhole, DeletedDrains, RemovesDeleted,
              PlacesKnown, Types, Places, StartHLS, Enter, Serving, Registered, Inst, objs, Live, Procs
<1>14. FilesOwn'
  BY <1>a DEF HInv, FilesOwn, WorksOnKnown, DeletedDrains, RemovesDeleted, RemovalOwn, Removing,
              RegisteredWhole, PlacesKnown, NotUp, Types, Places, StartHLS, Enter, Serving, Registered,
              Inst, objs, Live, Procs
<1> QED BY TypesEach, <1>1, <1>2, <1>3, <1>4, <1>5, <1>6, <1>7, <1>8, <1>9, <1>10, <1>11, <1>12, <1>13,
     <1>14 DEF HInv

\* Step: the second touch of StartHLS.
LEMMA StartTouchKeeps == ASSUME HInv, NEW c \in Clients, StartTouch(c) PROVE HInv'
<1> USE HLSAssumption
<1>a. Types BY TypesEach DEF HInv
<1>1. RegisteredWhole' /\ DeletedDrains' /\ RegisteredDir' /\ FilesOwn'
  BY DEF HInv, RegisteredWhole, DeletedDrains, RegisteredDir, FilesOwn, Registered, Live, StartTouch, disk
<1>2. Types'
  BY <1>a DEF HInv, Types, PlacesKnown, Places, StartTouch, Enter, Goto, Touch, Registered, Inst, disk,
              Live, Procs
<1>3. InFlightExact'
  <2>1. \A x \in Inst : Calls(x)' = Calls(x)
    BY <1>a DEF HInv, Types, Calls, PlacesKnown, NotUp, StartTouch, Enter, Goto, Touch, Registered, Inst,
                disk, Live, Procs
  <2> QED BY <2>1 DEF HInv, InFlightExact, StartTouch, Enter, Goto, Touch, Registered, Inst, disk, Live,
                      Procs
<1>4. GensMade'
  BY <1>a DEF HInv, GensMade, Types, Places, StartTouch, Enter, Goto, Touch, Registered, Inst, disk, Live,
              Procs
<1>5. PlacesKnown'
  BY <1>a DEF HInv, PlacesKnown, NotUp, Types, Places, StartTouch, Enter, Goto, Touch, Registered, Inst,
              disk, Live, Procs
<1>6. RemovesDeleted'
  BY <1>a DEF HInv, RemovesDeleted, PlacesKnown, VictimsQuiet, NotUp, Types, Places, StartTouch, Enter,
              Goto, Touch, Registered, Inst, disk, Live, Procs
<1>7. VictimsQuiet'
  BY <1>a DEF HInv, VictimsQuiet, ReaperSpares, RegisteredWhole, RemovesDeleted, InFlightExact,
              PlacesKnown, Types, Places, StartTouch, Enter, Goto, Touch, Registered, Inst, disk, Live,
              Procs
<1>8. WorksOnKnown'
  BY <1>a DEF HInv, WorksOnKnown, NotUp, PlacesKnown, Types, Places, StartTouch, Enter, Goto, Touch,
              Registered, Inst, disk, Live, Procs
<1>9. NotUp'
  BY <1>a DEF HInv, NotUp, PlacesKnown, Types, Places, StartTouch, Enter, Goto, Touch, Registered, Inst,
              disk, Live, Procs
<1>10. ReaperGone'
  BY <1>a DEF HInv, ReaperGone, Types, Places, StartTouch, Enter, Goto, Touch, Registered, Inst, disk,
              Live, Procs
<1>11. RemovalOwn'
  BY <1>a DEF HInv, RemovalOwn, Removing, NotUp, RegisteredWhole, DeletedDrains, RemovesDeleted,
              PlacesKnown, Types, Places, StartTouch, Enter, Goto, Touch, Registered, Inst, disk, Live,
              Procs
<1> QED BY TypesEach, <1>1, <1>2, <1>3, <1>4, <1>5, <1>6, <1>7, <1>8, <1>9, <1>10, <1>11 DEF HInv

\* Step: the probe of StartHLS.
LEMMA StartProbeKeeps == ASSUME HInv, NEW c \in Clients, StartProbe(c) PROVE HInv'
<1> USE HLSAssumption
<1>a. Types BY TypesEach DEF HInv
<1>1. RegisteredWhole' /\ DeletedDrains' /\ RegisteredDir' /\ FilesOwn'
  BY DEF HInv, RegisteredWhole, DeletedDrains, RegisteredDir, FilesOwn, Registered, Live, StartProbe, disk
<1>2. Types'
  <2>1. c \in Procs /\ at[c] \in Inst  BY DEF HInv, PlacesKnown, StartProbe, Procs
  <2>2. probed' \subseteq Inst  BY <1>a, <2>1 DEF Types, StartProbe
  <2>3. PICK l \in {"check", "idle"} : Goto(c, l)  BY DEF StartProbe
  <2>4. pc' \in [Procs -> Places] /\ at' \in [Procs -> Inst \cup {Nil}]
    BY <1>a, <2>1, <2>3 DEF Types, Places, Goto, Enter
  <2>5. UNCHANGED <<persist, up, closing, sessions, draining, gen, inFlight, deleted, removed, idle, dirty, dirs, json, files, exits, todo>>
    BY <2>3 DEF StartProbe, Goto, Enter, disk
  <2>6. QED  BY <1>a, <2>2, <2>4, <2>5 DEF Types
<1>3. InFlightExact'
  <2>1. \A x \in Inst : Calls(x)' = Calls(x)
    BY <1>a DEF HInv, Types, Calls, PlacesKnown, NotUp, StartProbe, Enter, Goto, disk, Registered, Live,
                Inst, Procs
  <2> QED BY <2>1 DEF HInv, InFlightExact, StartProbe, Enter, Goto, disk, Registered, Live, Inst, Procs
<1>4. GensMade'
  BY <1>a DEF HInv, GensMade, Types, Places, StartProbe, Enter, Goto, disk, Registered, Live, Inst, Procs
<1>5. PlacesKnown'
  BY <1>a DEF HInv, PlacesKnown, NotUp, Types, Places, StartProbe, Enter, Goto, disk, Registered, Live,
              Inst, Procs
<1>6. RemovesDeleted'
  BY <1>a DEF HInv, RemovesDeleted, PlacesKnown, VictimsQuiet, NotUp, Types, Places, StartProbe, Enter,
              Goto, disk, Registered, Live, Inst, Procs
<1>7. VictimsQuiet'
  BY <1>a DEF HInv, VictimsQuiet, ReaperSpares, RegisteredWhole, RemovesDeleted, InFlightExact,
              PlacesKnown, Types, Places, StartProbe, Enter, Goto, disk, Registered, Live, Inst, Procs
<1>8. WorksOnKnown'
  BY <1>a DEF HInv, WorksOnKnown, NotUp, PlacesKnown, Types, Places, StartProbe, Enter, Goto, disk,
              Registered, Live, Inst, Procs
<1>9. NotUp'
  BY <1>a DEF HInv, NotUp, PlacesKnown, Types, Places, StartProbe, Enter, Goto, disk, Registered, Live,
              Inst, Procs
<1>10. ReaperGone'
  BY <1>a DEF HInv, ReaperGone, Types, Places, StartProbe, Enter, Goto, disk, Registered, Live, Inst, Procs
<1>11. RemovalOwn'
  BY <1>a DEF HInv, RemovalOwn, Removing, NotUp, RegisteredWhole, DeletedDrains, RemovesDeleted,
              PlacesKnown, Types, Places, StartProbe, Enter, Goto, disk, Registered, Live, Inst, Procs
<1> QED BY TypesEach, <1>1, <1>2, <1>3, <1>4, <1>5, <1>6, <1>7, <1>8, <1>9, <1>10, <1>11 DEF HInv

\* Step: the check of persistSession.
LEMMA PersistCheckKeeps == ASSUME HInv, NEW p \in Procs, PersistCheck(p) PROVE HInv'
<1> USE HLSAssumption
<1>a. Types BY TypesEach DEF HInv
<1>1. RegisteredWhole' /\ DeletedDrains' /\ RegisteredDir' /\ FilesOwn'
  BY DEF HInv, RegisteredWhole, DeletedDrains, RegisteredDir, FilesOwn, Registered, Live, PersistCheck,
         disk, objs
<1>2. Types'
  BY <1>a DEF HInv, Types, PlacesKnown, Places, PersistCheck, Enter, Goto, Back, Registered, Inst, disk,
              objs, Live, Procs
<1>3. InFlightExact'
  <2>1. \A x \in Inst : Calls(x)' = Calls(x)
    BY <1>a DEF HInv, Types, Calls, PlacesKnown, NotUp, PersistCheck, Enter, Goto, Back, Registered, Inst,
                disk, objs, Live, Procs
  <2> QED BY <2>1 DEF HInv, InFlightExact, PersistCheck, Enter, Goto, Back, Registered, Inst, disk, objs,
                      Live, Procs
<1>4. GensMade'
  BY <1>a DEF HInv, GensMade, Types, Places, PersistCheck, Enter, Goto, Back, Registered, Inst, disk,
              objs, Live, Procs
<1>5. PlacesKnown'
  BY <1>a DEF HInv, PlacesKnown, NotUp, Types, Places, PersistCheck, Enter, Goto, Back, Registered, Inst,
              disk, objs, Live, Procs
<1>6. RemovesDeleted'
  BY <1>a DEF HInv, RemovesDeleted, PlacesKnown, VictimsQuiet, NotUp, Types, Places, PersistCheck, Enter,
              Goto, Back, Registered, Inst, disk, objs, Live, Procs
<1>7. VictimsQuiet'
  BY <1>a DEF HInv, VictimsQuiet, ReaperSpares, RegisteredWhole, RemovesDeleted, InFlightExact,
              PlacesKnown, Types, Places, PersistCheck, Enter, Goto, Back, Registered, Inst, disk, objs,
              Live, Procs
<1>8. WorksOnKnown'
  BY <1>a DEF HInv, WorksOnKnown, NotUp, PlacesKnown, Types, Places, PersistCheck, Enter, Goto, Back,
              Registered, Inst, disk, objs, Live, Procs
<1>9. NotUp'
  BY <1>a DEF HInv, NotUp, PlacesKnown, Types, Places, PersistCheck, Enter, Goto, Back, Registered, Inst,
              disk, objs, Live, Procs
<1>10. ReaperGone'
  BY <1>a DEF HInv, ReaperGone, Types, Places, PersistCheck, Enter, Goto, Back, Registered, Inst, disk,
              objs, Live, Procs
<1>11. RemovalOwn'
  BY <1>a DEF HInv, RemovalOwn, Removing, NotUp, RegisteredWhole, DeletedDrains, RemovesDeleted,
              PlacesKnown, Types, Places, PersistCheck, Enter, Goto, Back, Registered, Inst, disk, objs,
              Live, Procs
<1> QED BY TypesEach, <1>1, <1>2, <1>3, <1>4, <1>5, <1>6, <1>7, <1>8, <1>9, <1>10, <1>11 DEF HInv

\* Step: the write of persistSession.
LEMMA PersistWriteKeeps == ASSUME HInv, NEW p \in Procs, PersistWrite(p) PROVE HInv'
<1> USE HLSAssumption
<1>a. Types BY TypesEach DEF HInv
<1>1. RegisteredWhole' /\ DeletedDrains' /\ RegisteredDir' /\ FilesOwn'
  BY DEF HInv, RegisteredWhole, DeletedDrains, RegisteredDir, FilesOwn, Registered, Live, PersistWrite
<1>2. Types'
  BY <1>a DEF HInv, Types, PlacesKnown, Places, PersistWrite, Enter, Goto, Back, Registered, Live, Inst,
              Procs
<1>3. InFlightExact'
  <2>1. \A x \in Inst : Calls(x)' = Calls(x)
    BY <1>a DEF HInv, Types, Calls, PlacesKnown, NotUp, PersistWrite, Enter, Goto, Back, Registered, Live,
                Inst, Procs
  <2> QED BY <2>1 DEF HInv, InFlightExact, PersistWrite, Enter, Goto, Back, Registered, Live, Inst, Procs
<1>4. GensMade'
  <2>1. at[p] \in Inst /\ at[p][2] <= gen[at[p][1]]
    BY DEF HInv, PlacesKnown, GensMade, PersistWrite, Inst
  <2>2. \A j \in Ids : json'[j] <= gen[j]
    BY <1>a, <2>1 DEF HInv, GensMade, Types, PersistWrite, Inst
  <2> QED BY <1>a, <2>2 DEF HInv, GensMade, Types, PersistWrite, Goto, Enter
<1>5. PlacesKnown'
  BY <1>a DEF HInv, PlacesKnown, NotUp, Types, Places, PersistWrite, Enter, Goto, Back, Registered, Live,
              Inst, Procs
<1>6. RemovesDeleted'
  BY <1>a DEF HInv, RemovesDeleted, PlacesKnown, VictimsQuiet, NotUp, Types, Places, PersistWrite, Enter,
              Goto, Back, Registered, Live, Inst, Procs
<1>7. VictimsQuiet'
  BY <1>a DEF HInv, VictimsQuiet, ReaperSpares, RegisteredWhole, RemovesDeleted, InFlightExact,
              PlacesKnown, Types, Places, PersistWrite, Enter, Goto, Back, Registered, Live, Inst, Procs
<1>8. WorksOnKnown'
  BY <1>a DEF HInv, WorksOnKnown, NotUp, PlacesKnown, Types, Places, PersistWrite, Enter, Goto, Back,
              Registered, Live, Inst, Procs
<1>9. NotUp'
  BY <1>a DEF HInv, NotUp, PlacesKnown, Types, Places, PersistWrite, Enter, Goto, Back, Registered, Live,
              Inst, Procs
<1>10. ReaperGone'
  BY <1>a DEF HInv, ReaperGone, Types, Places, PersistWrite, Enter, Goto, Back, Registered, Live, Inst,
              Procs
<1>11. RemovalOwn'
  BY <1>a DEF HInv, RemovalOwn, Removing, NotUp, RegisteredWhole, DeletedDrains, RemovesDeleted,
              PlacesKnown, Types, Places, PersistWrite, Enter, Goto, Back, Registered, Live, Inst, Procs
<1> QED BY TypesEach, <1>1, <1>2, <1>3, <1>4, <1>5, <1>6, <1>7, <1>8, <1>9, <1>10, <1>11 DEF HInv

\* Step: the entry of HLSFile.
LEMMA HLSFileKeeps == ASSUME HInv, NEW c \in Clients, NEW i \in Ids, HLSFile(c, i) PROVE HInv'
<1> USE HLSAssumption
<1>a. Types BY TypesEach DEF HInv
<1>1. RegisteredWhole' /\ DeletedDrains' /\ RegisteredDir' /\ FilesOwn'
  BY DEF HInv, RegisteredWhole, DeletedDrains, RegisteredDir, FilesOwn, Registered, Live, HLSFile, disk
<1>2. Types'
  BY <1>a DEF HInv, Types, PlacesKnown, Places, HLSFile, Enter, Touch, Serving, Registered, Inst, disk,
              Live, Procs
<1>3. InFlightExact'
  <2> PICK s \in Inst : s = <<i, sessions[i]>>
    BY <1>a DEF Types, HLSFile, Inst
  <2>1. c \notin Calls(s) /\ Calls(s)' = Calls(s) \cup {c}
    BY <1>a DEF Types, Calls, HLSFile, Serving, Enter, Procs
  <2>2. \A x \in Inst \ {s} : Calls(x)' = Calls(x)
    BY <1>a DEF Types, Calls, HLSFile, Serving, Enter, Procs
  <2>3. Cardinality(Calls(s)') = Cardinality(Calls(s)) + 1
    <3> PICK S : S = Calls(s) OBVIOUS
    <3>1. S \subseteq Clients BY DEF Calls
    <3> QED BY <2>1, <3>1, CallsCount
  <2> QED BY <1>a, <2>2, <2>3 DEF HInv, InFlightExact, Types, HLSFile
<1>4. GensMade'
  BY <1>a DEF HInv, GensMade, Types, Places, HLSFile, Enter, Touch, Serving, Registered, Inst, disk, Live,
              Procs
<1>5. PlacesKnown'
  BY <1>a DEF HInv, PlacesKnown, NotUp, Types, Places, HLSFile, Enter, Touch, Serving, Registered, Inst,
              disk, Live, Procs
<1>6. RemovesDeleted'
  BY <1>a DEF HInv, RemovesDeleted, PlacesKnown, VictimsQuiet, NotUp, Types, Places, HLSFile, Enter,
              Touch, Serving, Registered, Inst, disk, Live, Procs
<1>7. VictimsQuiet'
  BY <1>a DEF HInv, VictimsQuiet, ReaperSpares, RegisteredWhole, RemovesDeleted, InFlightExact,
              PlacesKnown, Types, Places, HLSFile, Enter, Touch, Serving, Registered, Inst, disk, Live,
              Procs
<1>8. WorksOnKnown'
  BY <1>a DEF HInv, WorksOnKnown, NotUp, PlacesKnown, Types, Places, HLSFile, Enter, Touch, Serving,
              Registered, Inst, disk, Live, Procs
<1>9. NotUp'
  BY <1>a DEF HInv, NotUp, PlacesKnown, Types, Places, HLSFile, Enter, Touch, Serving, Registered, Inst,
              disk, Live, Procs
<1>10. ReaperGone'
  BY <1>a DEF HInv, ReaperGone, Types, Places, HLSFile, Enter, Touch, Serving, Registered, Inst, disk,
              Live, Procs
<1>11. RemovalOwn'
  BY <1>a DEF HInv, RemovalOwn, Removing, NotUp, RegisteredWhole, DeletedDrains, RemovesDeleted,
              PlacesKnown, Types, Places, HLSFile, Enter, Touch, Serving, Registered, Inst, disk, Live,
              Procs
<1> QED BY TypesEach, <1>1, <1>2, <1>3, <1>4, <1>5, <1>6, <1>7, <1>8, <1>9, <1>10, <1>11 DEF HInv

\* Step: the work of HLSFile.
LEMMA FileWorkKeeps == ASSUME HInv, NEW c \in Clients, FileWork(c) PROVE HInv'
<1> USE HLSAssumption
<1>a. Types BY TypesEach DEF HInv
<1>1. RegisteredWhole' /\ DeletedDrains' /\ RegisteredDir'
  BY DEF HInv, RegisteredWhole, DeletedDrains, RegisteredDir, Registered, Live, FileWork, objs
<1>2. Types'
  BY <1>a DEF HInv, Types, PlacesKnown, Places, FileWork, Enter, Goto, objs, Registered, Live, Inst, Procs
<1>3. InFlightExact'
  <2>1. \A x \in Inst : Calls(x)' = Calls(x)
    BY <1>a DEF HInv, Types, Calls, PlacesKnown, NotUp, FileWork, Enter, Goto, objs, Registered, Live,
                Inst, Procs
  <2> QED BY <2>1 DEF HInv, InFlightExact, FileWork, Enter, Goto, objs, Registered, Live, Inst, Procs
<1>4. GensMade'
  BY <1>a DEF HInv, GensMade, Types, Places, FileWork, Enter, Goto, objs, Registered, Live, Inst, Procs
<1>5. PlacesKnown'
  BY <1>a DEF HInv, PlacesKnown, NotUp, Types, Places, FileWork, Enter, Goto, objs, Registered, Live,
              Inst, Procs
<1>6. RemovesDeleted'
  BY <1>a DEF HInv, RemovesDeleted, PlacesKnown, VictimsQuiet, NotUp, Types, Places, FileWork, Enter,
              Goto, objs, Registered, Live, Inst, Procs
<1>7. VictimsQuiet'
  BY <1>a DEF HInv, VictimsQuiet, ReaperSpares, RegisteredWhole, RemovesDeleted, InFlightExact,
              PlacesKnown, Types, Places, FileWork, Enter, Goto, objs, Registered, Live, Inst, Procs
<1>8. WorksOnKnown'
  BY <1>a DEF HInv, WorksOnKnown, NotUp, PlacesKnown, Types, Places, FileWork, Enter, Goto, objs,
              Registered, Live, Inst, Procs
<1>9. NotUp'
  BY <1>a DEF HInv, NotUp, PlacesKnown, Types, Places, FileWork, Enter, Goto, objs, Registered, Live,
              Inst, Procs
<1>10. ReaperGone'
  BY <1>a DEF HInv, ReaperGone, Types, Places, FileWork, Enter, Goto, objs, Registered, Live, Inst, Procs
<1>11. RemovalOwn'
  BY <1>a DEF HInv, RemovalOwn, Removing, NotUp, RegisteredWhole, DeletedDrains, RemovesDeleted,
              PlacesKnown, Types, Places, FileWork, Enter, Goto, objs, Registered, Live, Inst, Procs
<1>12. FilesOwn'
  BY <1>a DEF HInv, FilesOwn, WorksOnKnown, DeletedDrains, RemovesDeleted, RemovalOwn, Removing,
              RegisteredWhole, PlacesKnown, NotUp, Types, Places, FileWork, Enter, Goto, objs, Registered,
              Live, Inst, Procs
<1> QED BY TypesEach, <1>1, <1>2, <1>3, <1>4, <1>5, <1>6, <1>7, <1>8, <1>9, <1>10, <1>11, <1>12 DEF HInv

\* Step: the exit of HLSFile.
LEMMA FileExitKeeps == ASSUME HInv, NEW c \in Clients, FileExit(c) PROVE HInv'
<1> USE HLSAssumption
<1>a. Types BY TypesEach DEF HInv
<1>1. RegisteredWhole' /\ DeletedDrains' /\ RegisteredDir' /\ FilesOwn'
  BY DEF HInv, RegisteredWhole, DeletedDrains, RegisteredDir, FilesOwn, Registered, Live, FileExit, disk
<1>2. Types'
  <2>1. at[c] \in Inst
    BY DEF HInv, PlacesKnown, FileExit, Procs
  <2>2. inFlight[at[c]] - 1 \in Nat
    <3> PICK S : S = Calls(at[c]) OBVIOUS
    <3>1. S \subseteq Clients /\ c \in S BY DEF Calls, FileExit
    <3>2. PICK T : T = S \ {c} OBVIOUS
    <3>3. Cardinality(S) \in Nat /\ Cardinality(T) \in Nat /\ Cardinality(T) = Cardinality(S) - 1
      BY <3>1, <3>2, CallsCount
    <3> QED BY <2>1, <3>3 DEF HInv, InFlightExact
  <2> QED BY <1>a, <2>1, <2>2 DEF Types, Places, FileExit, Enter, Goto, Touch, Registered, Inst, disk,
                                  Live, Procs
<1>3. InFlightExact'
  <2> PICK s \in Inst : s = at[c]
    BY DEF HInv, PlacesKnown, FileExit, Procs
  <2>1. c \in Calls(s) /\ Calls(s)' = Calls(s) \ {c}
    BY <1>a DEF Types, Calls, FileExit, Goto, Enter, Procs
  <2>2. \A x \in Inst \ {s} : Calls(x)' = Calls(x)
    BY <1>a DEF Types, Calls, FileExit, Goto, Enter, Procs
  <2>3. Cardinality(Calls(s)') = Cardinality(Calls(s)) - 1
    <3> PICK S : S = Calls(s) OBVIOUS
    <3>1. S \subseteq Clients BY DEF Calls
    <3> QED BY <2>1, <3>1, CallsCount
  <2> QED BY <1>a, <2>2, <2>3 DEF HInv, InFlightExact, Types, FileExit
<1>4. GensMade'
  BY <1>a DEF HInv, GensMade, Types, Places, FileExit, Enter, Goto, Touch, Registered, Inst, disk, Live,
              Procs
<1>5. PlacesKnown'
  BY <1>a DEF HInv, PlacesKnown, NotUp, Types, Places, FileExit, Enter, Goto, Touch, Registered, Inst,
              disk, Live, Procs
<1>6. RemovesDeleted'
  BY <1>a DEF HInv, RemovesDeleted, PlacesKnown, VictimsQuiet, NotUp, Types, Places, FileExit, Enter,
              Goto, Touch, Registered, Inst, disk, Live, Procs
<1>7. VictimsQuiet'
  <2>1. at[c] \in Inst /\ inFlight[at[c]] # 0
    <3> PICK S : S = Calls(at[c]) OBVIOUS
    <3>1. S \subseteq Clients /\ c \in S BY DEF Calls, FileExit
    <3>2. PICK T : T = S \ {c} OBVIOUS
    <3>3. Cardinality(S) \in Nat /\ Cardinality(T) \in Nat /\ Cardinality(T) = Cardinality(S) - 1
      BY <3>1, <3>2, CallsCount
    <3> QED BY <3>3 DEF HInv, InFlightExact, PlacesKnown, FileExit, Procs
  <2> QED BY <1>a, <2>1 DEF HInv, VictimsQuiet, ReaperSpares, PlacesKnown, Types, FileExit, Enter, Goto,
                            Touch, Registered, Inst, disk, Live, Procs
<1>8. WorksOnKnown'
  BY <1>a DEF HInv, WorksOnKnown, NotUp, PlacesKnown, Types, Places, FileExit, Enter, Goto, Touch,
              Registered, Inst, disk, Live, Procs
<1>9. NotUp'
  BY <1>a DEF HInv, NotUp, PlacesKnown, Types, Places, FileExit, Enter, Goto, Touch, Registered, Inst,
              disk, Live, Procs
<1>10. ReaperGone'
  BY <1>a DEF HInv, ReaperGone, Types, Places, FileExit, Enter, Goto, Touch, Registered, Inst, disk, Live,
              Procs
<1>11. RemovalOwn'
  BY <1>a DEF HInv, RemovalOwn, Removing, NotUp, RegisteredWhole, DeletedDrains, RemovesDeleted,
              PlacesKnown, Types, Places, FileExit, Enter, Goto, Touch, Registered, Inst, disk, Live,
              Procs
<1> QED BY TypesEach, <1>1, <1>2, <1>3, <1>4, <1>5, <1>6, <1>7, <1>8, <1>9, <1>10, <1>11 DEF HInv

\* Step: the look at deleted.
LEMMA FileLeftKeeps == ASSUME HInv, NEW c \in Clients, FileLeft(c) PROVE HInv'
<1> USE HLSAssumption
<1>a. Types BY TypesEach DEF HInv
<1>1. RegisteredWhole' /\ DeletedDrains' /\ RegisteredDir' /\ FilesOwn'
  BY DEF HInv, RegisteredWhole, DeletedDrains, RegisteredDir, FilesOwn, Registered, Live, FileLeft, disk,
         objs
<1>2. Types'
  BY <1>a DEF HInv, Types, PlacesKnown, Places, FileLeft, Enter, Goto, disk, objs, Registered, Live, Inst,
              Procs
<1>3. InFlightExact'
  <2>1. \A x \in Inst : Calls(x)' = Calls(x)
    BY <1>a DEF HInv, Types, Calls, PlacesKnown, NotUp, FileLeft, Enter, Goto, disk, objs, Registered,
                Live, Inst, Procs
  <2> QED BY <2>1 DEF HInv, InFlightExact, FileLeft, Enter, Goto, disk, objs, Registered, Live, Inst, Procs
<1>4. GensMade'
  BY <1>a DEF HInv, GensMade, Types, Places, FileLeft, Enter, Goto, disk, objs, Registered, Live, Inst,
              Procs
<1>5. PlacesKnown'
  BY <1>a DEF HInv, PlacesKnown, NotUp, Types, Places, FileLeft, Enter, Goto, disk, objs, Registered,
              Live, Inst, Procs
<1>6. RemovesDeleted'
  BY <1>a DEF HInv, RemovesDeleted, PlacesKnown, VictimsQuiet, NotUp, Types, Places, FileLeft, Enter,
              Goto, disk, objs, Registered, Live, Inst, Procs
<1>7. VictimsQuiet'
  BY <1>a DEF HInv, VictimsQuiet, ReaperSpares, RegisteredWhole, RemovesDeleted, InFlightExact,
              PlacesKnown, Types, Places, FileLeft, Enter, Goto, disk, objs, Registered, Live, Inst, Procs
<1>8. WorksOnKnown'
  BY <1>a DEF HInv, WorksOnKnown, NotUp, PlacesKnown, Types, Places, FileLeft, Enter, Goto, disk, objs,
              Registered, Live, Inst, Procs
<1>9. NotUp'
  BY <1>a DEF HInv, NotUp, PlacesKnown, Types, Places, FileLeft, Enter, Goto, disk, objs, Registered,
              Live, Inst, Procs
<1>10. ReaperGone'
  BY <1>a DEF HInv, ReaperGone, Types, Places, FileLeft, Enter, Goto, disk, objs, Registered, Live, Inst,
              Procs
<1>11. RemovalOwn'
  BY <1>a DEF HInv, RemovalOwn, Removing, NotUp, RegisteredWhole, DeletedDrains, RemovesDeleted,
              PlacesKnown, Types, Places, FileLeft, Enter, Goto, disk, objs, Registered, Live, Inst, Procs
<1> QED BY TypesEach, <1>1, <1>2, <1>3, <1>4, <1>5, <1>6, <1>7, <1>8, <1>9, <1>10, <1>11 DEF HInv

\* Step: DeleteHLS.
LEMMA DeleteHLSKeeps == ASSUME HInv, NEW c \in Clients, NEW i \in Ids, DeleteHLS(c, i) PROVE HInv'
<1> USE HLSAssumption
<1>a. Types BY TypesEach DEF HInv
<1>1. Types'
  BY <1>a DEF HInv, Types, PlacesKnown, Places, DeleteHLS, Enter, Serving, disk, procs, Registered, Live,
              Inst, Procs
<1>2. InFlightExact'
  <2>1. \A x \in Inst : Calls(x)' = Calls(x)
    BY <1>a DEF HInv, Types, Calls, PlacesKnown, NotUp, DeleteHLS, Enter, Serving, disk, procs,
                Registered, Live, Inst, Procs
  <2> QED BY <2>1 DEF HInv, InFlightExact, DeleteHLS, Enter, Serving, disk, procs, Registered, Live, Inst,
                      Procs
<1>3. GensMade'
  BY <1>a DEF HInv, GensMade, Types, Places, DeleteHLS, Enter, Serving, disk, procs, Registered, Live,
              Inst, Procs
<1>4. PlacesKnown'
  BY <1>a DEF HInv, PlacesKnown, NotUp, Types, Places, DeleteHLS, Enter, Serving, disk, procs, Registered,
              Live, Inst, Procs
<1>5. RegisteredWhole'
  BY <1>a DEF HInv, RegisteredWhole, GensMade, NotUp, Types, Places, DeleteHLS, Enter, Serving, disk,
              procs, Registered, Live, Inst, Procs
<1>6. RemovesDeleted'
  BY <1>a DEF HInv, RemovesDeleted, PlacesKnown, VictimsQuiet, NotUp, Types, Places, DeleteHLS, Enter,
              Serving, disk, procs, Registered, Live, Inst, Procs
<1>7. DeletedDrains'
  BY <1>a DEF HInv, DeletedDrains, RegisteredWhole, RemovesDeleted, RemovalOwn, Removing, NotUp,
              PlacesKnown, Types, Places, DeleteHLS, Enter, Serving, disk, procs, Registered, Live, Inst,
              Procs
<1>8. VictimsQuiet'
  BY <1>a DEF HInv, VictimsQuiet, ReaperSpares, RegisteredWhole, RemovesDeleted, InFlightExact,
              PlacesKnown, Types, Places, DeleteHLS, Enter, Serving, disk, procs, Registered, Live, Inst,
              Procs
<1>9. WorksOnKnown'
  BY <1>a DEF HInv, WorksOnKnown, NotUp, PlacesKnown, Types, Places, DeleteHLS, Enter, Serving, disk,
              procs, Registered, Live, Inst, Procs
<1>10. NotUp'
  BY <1>a DEF HInv, NotUp, PlacesKnown, Types, Places, DeleteHLS, Enter, Serving, disk, procs, Registered,
              Live, Inst, Procs
<1>11. ReaperGone'
  BY <1>a DEF HInv, ReaperGone, Types, Places, DeleteHLS, Enter, Serving, disk, procs, Registered, Live,
              Inst, Procs
<1>12. RegisteredDir'
  BY <1>a DEF HInv, RegisteredDir, RemovalOwn, Removing, NotUp, RegisteredWhole, Types, Places, DeleteHLS,
              Enter, Serving, disk, procs, Registered, Live, Inst, Procs
<1>13. RemovalOwn'
  BY <1>a DEF HInv, RemovalOwn, Removing, NotUp, RegisteredWhole, DeletedDrains, RemovesDeleted,
              PlacesKnown, Types, Places, DeleteHLS, Enter, Serving, disk, procs, Registered, Live, Inst,
              Procs
<1>14. FilesOwn'
  BY <1>a DEF HInv, FilesOwn, WorksOnKnown, DeletedDrains, RemovesDeleted, RemovalOwn, Removing,
              RegisteredWhole, PlacesKnown, NotUp, Types, Places, DeleteHLS, Enter, Serving, disk, procs,
              Registered, Live, Inst, Procs
<1> QED BY TypesEach, <1>1, <1>2, <1>3, <1>4, <1>5, <1>6, <1>7, <1>8, <1>9, <1>10, <1>11, <1>12, <1>13,
     <1>14 DEF HInv

\* Step: the compare-and-swap on removed.
LEMMA RemoveOnceKeeps == ASSUME HInv, NEW p \in Procs, RemoveOnce(p) PROVE HInv'
<1> USE HLSAssumption
<1>a. Types BY TypesEach DEF HInv
<1>1. RegisteredWhole' /\ RegisteredDir'
  BY DEF HInv, RegisteredWhole, RegisteredDir, Registered, Live, RemoveOnce, disk
<1>2. Types'
  BY <1>a DEF HInv, Types, PlacesKnown, Places, RemoveOnce, Enter, Goto, Back, disk, Registered, Live,
              Inst, Procs
<1>3. InFlightExact'
  <2>1. \A x \in Inst : Calls(x)' = Calls(x)
    BY <1>a DEF HInv, Types, Calls, PlacesKnown, NotUp, RemoveOnce, Enter, Goto, Back, disk, Registered,
                Live, Inst, Procs
  <2> QED BY <2>1 DEF HInv, InFlightExact, RemoveOnce, Enter, Goto, Back, disk, Registered, Live, Inst,
                      Procs
<1>4. GensMade'
  BY <1>a DEF HInv, GensMade, Types, Places, RemoveOnce, Enter, Goto, Back, disk, Registered, Live, Inst,
              Procs
<1>5. PlacesKnown'
  BY <1>a DEF HInv, PlacesKnown, NotUp, Types, Places, RemoveOnce, Enter, Goto, Back, disk, Registered,
              Live, Inst, Procs
<1>6. RemovesDeleted'
  BY <1>a DEF HInv, RemovesDeleted, PlacesKnown, VictimsQuiet, NotUp, Types, Places, RemoveOnce, Enter,
              Goto, Back, disk, Registered, Live, Inst, Procs
<1>7. DeletedDrains'
  BY <1>a DEF HInv, DeletedDrains, RegisteredWhole, RemovesDeleted, RemovalOwn, Removing, NotUp,
              PlacesKnown, Types, Places, RemoveOnce, Enter, Goto, Back, disk, Registered, Live, Inst,
              Procs
<1>8. VictimsQuiet'
  BY <1>a DEF HInv, VictimsQuiet, ReaperSpares, RegisteredWhole, RemovesDeleted, InFlightExact,
              PlacesKnown, Types, Places, RemoveOnce, Enter, Goto, Back, disk, Registered, Live, Inst,
              Procs
<1>9. WorksOnKnown'
  BY <1>a DEF HInv, WorksOnKnown, NotUp, PlacesKnown, Types, Places, RemoveOnce, Enter, Goto, Back, disk,
              Registered, Live, Inst, Procs
<1>10. NotUp'
  BY <1>a DEF HInv, NotUp, PlacesKnown, Types, Places, RemoveOnce, Enter, Goto, Back, disk, Registered,
              Live, Inst, Procs
<1>11. ReaperGone'
  BY <1>a DEF HInv, ReaperGone, Types, Places, RemoveOnce, Enter, Goto, Back, disk, Registered, Live,
              Inst, Procs
<1>12. RemovalOwn'
  <2> SUFFICES ASSUME Live, NEW q \in Removing'
               PROVE  /\ draining[at'[q][1]] = at'[q][2] /\ sessions[at'[q][1]] = 0
                      /\ \A r \in Removing' : at'[r] = at'[q] => r = q
    BY DEF RemovalOwn, RemoveOnce, Live
  <2>1. Removing' \subseteq Removing \cup {p} /\ \A r \in Removing' : at'[r] = at[r]
    BY <1>a DEF Types, Removing, RemoveOnce, Goto, Enter, Back, Procs
  <2>2. p \in Removing' => at[p] \notin removed
    BY <1>a DEF Types, Removing, RemoveOnce, Goto, Enter, Back
  <2>3. \A r \in Removing : at[r] \in removed
    BY DEF HInv, RemovesDeleted, Removing
  <2>4. at[p] \in deleted /\ at[p] \in Inst
    BY DEF HInv, RemovesDeleted, PlacesKnown, RemoveOnce
  <2>5. p \in Removing' => draining[at[p][1]] = at[p][2] /\ sessions[at[p][1]] = 0
    <3>1. p \in Removing' => draining[at[p][1]] = at[p][2]
      BY <2>2, <2>4 DEF HInv, DeletedDrains
    <3>2. at[p][1] \in Ids /\ at[p][2] \in 1 .. MaxGen
      BY <2>4 DEF Inst
    <3>3. sessions[at[p][1]] = 0 \/ <<at[p][1], sessions[at[p][1]]>> \in Registered
      BY <1>a, <3>2 DEF Types, Registered, Inst
    <3>4. sessions[at[p][1]] = 0 \/ draining[at[p][1]] = 0
      BY <3>3 DEF HInv, RegisteredWhole
    <3> QED BY <3>1, <3>2, <3>4
  <2> QED BY <2>1, <2>2, <2>3, <2>5 DEF HInv, RemovalOwn
<1>13. FilesOwn'
  BY <1>a DEF HInv, FilesOwn, WorksOnKnown, DeletedDrains, RemovesDeleted, RemovalOwn, Removing,
              RegisteredWhole, PlacesKnown, NotUp, Types, Places, RemoveOnce, Enter, Goto, Back, disk,
              Registered, Live, Inst, Procs
<1> QED BY TypesEach, <1>1, <1>2, <1>3, <1>4, <1>5, <1>6, <1>7, <1>8, <1>9, <1>10, <1>11, <1>12, <1>13 DEF
     HInv

\* Step: os.RemoveAll.
LEMMA RemoveDirKeeps == ASSUME HInv, NEW p \in Procs, RemoveDir(p) PROVE HInv'
<1> USE HLSAssumption
<1>a. Types BY TypesEach DEF HInv
<1>1. RegisteredWhole' /\ DeletedDrains'
  BY DEF HInv, RegisteredWhole, DeletedDrains, Registered, Live, RemoveDir, objs
<1>2. Types'
  BY <1>a DEF HInv, Types, PlacesKnown, Places, RemoveDir, Enter, Goto, objs, Registered, Live, Inst, Procs
<1>3. InFlightExact'
  <2>1. \A x \in Inst : Calls(x)' = Calls(x)
    BY <1>a DEF HInv, Types, Calls, PlacesKnown, NotUp, RemoveDir, Enter, Goto, objs, Registered, Live,
                Inst, Procs
  <2> QED BY <2>1 DEF HInv, InFlightExact, RemoveDir, Enter, Goto, objs, Registered, Live, Inst, Procs
<1>4. GensMade'
  BY <1>a DEF HInv, GensMade, Types, Places, RemoveDir, Enter, Goto, objs, Registered, Live, Inst, Procs
<1>5. PlacesKnown'
  BY <1>a DEF HInv, PlacesKnown, NotUp, Types, Places, RemoveDir, Enter, Goto, objs, Registered, Live,
              Inst, Procs
<1>6. RemovesDeleted'
  BY <1>a DEF HInv, RemovesDeleted, PlacesKnown, VictimsQuiet, NotUp, Types, Places, RemoveDir, Enter,
              Goto, objs, Registered, Live, Inst, Procs
<1>7. VictimsQuiet'
  BY <1>a DEF HInv, VictimsQuiet, ReaperSpares, RegisteredWhole, RemovesDeleted, InFlightExact,
              PlacesKnown, Types, Places, RemoveDir, Enter, Goto, objs, Registered, Live, Inst, Procs
<1>8. WorksOnKnown'
  BY <1>a DEF HInv, WorksOnKnown, NotUp, PlacesKnown, Types, Places, RemoveDir, Enter, Goto, objs,
              Registered, Live, Inst, Procs
<1>9. NotUp'
  BY <1>a DEF HInv, NotUp, PlacesKnown, Types, Places, RemoveDir, Enter, Goto, objs, Registered, Live,
              Inst, Procs
<1>10. ReaperGone'
  BY <1>a DEF HInv, ReaperGone, Types, Places, RemoveDir, Enter, Goto, objs, Registered, Live, Inst, Procs
<1>11. RegisteredDir'
  BY <1>a DEF HInv, RegisteredDir, RemovalOwn, Removing, NotUp, RegisteredWhole, Types, Places, RemoveDir,
              Enter, Goto, objs, Registered, Live, Inst, Procs
<1>12. RemovalOwn'
  BY <1>a DEF HInv, RemovalOwn, Removing, NotUp, RegisteredWhole, DeletedDrains, RemovesDeleted,
              PlacesKnown, Types, Places, RemoveDir, Enter, Goto, objs, Registered, Live, Inst, Procs
<1>13. FilesOwn'
  BY <1>a DEF HInv, FilesOwn, WorksOnKnown, DeletedDrains, RemovesDeleted, RemovalOwn, Removing,
              RegisteredWhole, PlacesKnown, NotUp, Types, Places, RemoveDir, Enter, Goto, objs,
              Registered, Live, Inst, Procs
<1> QED BY TypesEach, <1>1, <1>2, <1>3, <1>4, <1>5, <1>6, <1>7, <1>8, <1>9, <1>10, <1>11, <1>12, <1>13 DEF
     HInv

\* Step: the clearing of draining.
LEMMA ClearDrainingKeeps == ASSUME HInv, NEW p \in Procs, ClearDraining(p) PROVE HInv'
<1> USE HLSAssumption
<1>a. Types BY TypesEach DEF HInv
<1>1. RegisteredDir'
  BY DEF HInv, RegisteredDir, Registered, Live, ClearDraining, disk, objs
<1>2. Types'
  BY <1>a DEF HInv, Types, PlacesKnown, Places, ClearDraining, Enter, Goto, Back, disk, objs, Registered,
              Live, Inst, Procs
<1>3. InFlightExact'
  <2>1. \A x \in Inst : Calls(x)' = Calls(x)
    BY <1>a DEF HInv, Types, Calls, PlacesKnown, NotUp, ClearDraining, Enter, Goto, Back, disk, objs,
                Registered, Live, Inst, Procs
  <2> QED BY <2>1 DEF HInv, InFlightExact, ClearDraining, Enter, Goto, Back, disk, objs, Registered, Live,
                      Inst, Procs
<1>4. GensMade'
  BY <1>a DEF HInv, GensMade, Types, Places, ClearDraining, Enter, Goto, Back, disk, objs, Registered,
              Live, Inst, Procs
<1>5. PlacesKnown'
  BY <1>a DEF HInv, PlacesKnown, NotUp, Types, Places, ClearDraining, Enter, Goto, Back, disk, objs,
              Registered, Live, Inst, Procs
<1>6. RegisteredWhole'
  BY <1>a DEF HInv, RegisteredWhole, GensMade, NotUp, Types, Places, ClearDraining, Enter, Goto, Back,
              disk, objs, Registered, Live, Inst, Procs
<1>7. RemovesDeleted'
  BY <1>a DEF HInv, RemovesDeleted, PlacesKnown, VictimsQuiet, NotUp, Types, Places, ClearDraining, Enter,
              Goto, Back, disk, objs, Registered, Live, Inst, Procs
<1>8. DeletedDrains'
  BY <1>a DEF HInv, DeletedDrains, RegisteredWhole, RemovesDeleted, RemovalOwn, Removing, NotUp,
              PlacesKnown, Types, Places, ClearDraining, Enter, Goto, Back, disk, objs, Registered, Live,
              Inst, Procs
<1>9. VictimsQuiet'
  BY <1>a DEF HInv, VictimsQuiet, ReaperSpares, RegisteredWhole, RemovesDeleted, InFlightExact,
              PlacesKnown, Types, Places, ClearDraining, Enter, Goto, Back, disk, objs, Registered, Live,
              Inst, Procs
<1>10. WorksOnKnown'
  BY <1>a DEF HInv, WorksOnKnown, NotUp, PlacesKnown, Types, Places, ClearDraining, Enter, Goto, Back,
              disk, objs, Registered, Live, Inst, Procs
<1>11. NotUp'
  BY <1>a DEF HInv, NotUp, PlacesKnown, Types, Places, ClearDraining, Enter, Goto, Back, disk, objs,
              Registered, Live, Inst, Procs
<1>12. ReaperGone'
  BY <1>a DEF HInv, ReaperGone, Types, Places, ClearDraining, Enter, Goto, Back, disk, objs, Registered,
              Live, Inst, Procs
<1>13. RemovalOwn'
  BY <1>a DEF HInv, RemovalOwn, Removing, NotUp, RegisteredWhole, DeletedDrains, RemovesDeleted,
              PlacesKnown, Types, Places, ClearDraining, Enter, Goto, Back, disk, objs, Registered, Live,
              Inst, Procs
<1>14. FilesOwn'
  <2> SUFFICES ASSUME Live, NEW f \in files
               PROVE  f[2] \in {sessions[f[1]], draining'[f[1]]} \/ f \in removed
    BY DEF FilesOwn, ClearDraining, Live, disk, objs
  <2>1. f[2] \in {sessions[f[1]], draining[f[1]]} \/ f \in removed
    BY DEF HInv, FilesOwn
  <2>2. at[p] \in Inst /\ at[p] \in removed
    BY DEF HInv, PlacesKnown, RemovesDeleted, ClearDraining
  <2>3. f[1] # at[p][1] => draining'[f[1]] = draining[f[1]]
    BY <1>a, <2>2 DEF Types, ClearDraining, Inst
  <2>4. draining[at[p][1]] = at[p][2]
    BY DEF HInv, RemovalOwn, Removing, ClearDraining
  <2>5. f[1] = at[p][1] /\ f[2] = at[p][2] => f = at[p]
    BY <1>a, <2>2 DEF Types, Inst
  <2> QED BY <2>1, <2>2, <2>3, <2>4, <2>5
<1> QED BY TypesEach, <1>1, <1>2, <1>3, <1>4, <1>5, <1>6, <1>7, <1>8, <1>9, <1>10, <1>11, <1>12, <1>13,
     <1>14 DEF HInv

\* Step: the time.
LEMMA GoIdleKeeps == ASSUME HInv, NEW s \in Inst, GoIdle(s) PROVE HInv'
<1> USE HLSAssumption
<1>a. Types BY TypesEach DEF HInv
<1>1. InFlightExact' /\ GensMade' /\ PlacesKnown' /\ RegisteredWhole' /\ RemovesDeleted' /\ DeletedDrains' /\ VictimsQuiet' /\ WorksOnKnown' /\ NotUp' /\ ReaperGone' /\ RegisteredDir' /\ RemovalOwn' /\ FilesOwn'
  BY DEF HInv, InFlightExact, GensMade, PlacesKnown, RegisteredWhole, RemovesDeleted, DeletedDrains,
         VictimsQuiet, WorksOnKnown, NotUp, ReaperGone, RegisteredDir, RemovalOwn, FilesOwn, Calls,
         ReaperSpares, Removing, Registered, Live, GoIdle, disk, procs
<1>2. Types'
  BY <1>a DEF HInv, Types, PlacesKnown, Places, GoIdle, Registered, Inst, disk, procs, Live, Procs
<1> QED BY TypesEach, <1>1, <1>2 DEF HInv

\* Step: evictIdle.
LEMMA EvictIdleKeeps == ASSUME HInv, EvictIdle PROVE HInv'
<1> USE HLSAssumption
<1>a. Types BY TypesEach DEF HInv
<1>1. Types'
  BY <1>a DEF HInv, Types, PlacesKnown, Places, EvictIdle, Registered, Expired, Inst, disk, Live, Procs
<1>2. InFlightExact'
  <2>1. \A x \in Inst : Calls(x)' = Calls(x)
    BY <1>a DEF HInv, Types, Calls, PlacesKnown, NotUp, EvictIdle, Registered, Expired, Inst, disk, Live,
                Procs
  <2> QED BY <2>1 DEF HInv, InFlightExact, EvictIdle, Registered, Expired, Inst, disk, Live, Procs
<1>3. GensMade'
  BY <1>a DEF HInv, GensMade, Types, Places, EvictIdle, Registered, Expired, Inst, disk, Live, Procs
<1>4. PlacesKnown'
  BY <1>a DEF HInv, PlacesKnown, NotUp, Types, Places, EvictIdle, Registered, Expired, Inst, disk, Live,
              Procs
<1>5. RegisteredWhole'
  BY <1>a DEF HInv, RegisteredWhole, GensMade, NotUp, Types, Places, EvictIdle, Registered, Expired, Inst,
              disk, Live, Procs
<1>6. RemovesDeleted'
  BY <1>a DEF HInv, RemovesDeleted, PlacesKnown, VictimsQuiet, NotUp, Types, Places, EvictIdle,
              Registered, Expired, Inst, disk, Live, Procs
<1>7. DeletedDrains'
  BY <1>a DEF HInv, DeletedDrains, RegisteredWhole, RemovesDeleted, RemovalOwn, Removing, NotUp,
              PlacesKnown, Types, Places, EvictIdle, Registered, Expired, Inst, disk, Live, Procs
<1>8. VictimsQuiet'
  BY <1>a DEF HInv, VictimsQuiet, ReaperSpares, RegisteredWhole, RemovesDeleted, InFlightExact,
              PlacesKnown, Types, Places, EvictIdle, Registered, Expired, Inst, disk, Live, Procs
<1>9. WorksOnKnown'
  BY <1>a DEF HInv, WorksOnKnown, NotUp, PlacesKnown, Types, Places, EvictIdle, Registered, Expired, Inst,
              disk, Live, Procs
<1>10. NotUp'
  BY <1>a DEF HInv, NotUp, PlacesKnown, Types, Places, EvictIdle, Registered, Expired, Inst, disk, Live,
              Procs
<1>11. ReaperGone'
  BY <1>a DEF HInv, ReaperGone, Types, Places, EvictIdle, Registered, Expired, Inst, disk, Live, Procs
<1>12. RegisteredDir'
  BY <1>a DEF HInv, RegisteredDir, RemovalOwn, Removing, NotUp, RegisteredWhole, Types, Places, EvictIdle,
              Registered, Expired, Inst, disk, Live, Procs
<1>13. RemovalOwn'
  BY <1>a DEF HInv, RemovalOwn, Removing, NotUp, RegisteredWhole, DeletedDrains, RemovesDeleted,
              PlacesKnown, Types, Places, EvictIdle, Registered, Expired, Inst, disk, Live, Procs
<1>14. FilesOwn'
  BY <1>a DEF HInv, FilesOwn, WorksOnKnown, DeletedDrains, RemovesDeleted, RemovalOwn, Removing,
              RegisteredWhole, PlacesKnown, NotUp, Types, Places, EvictIdle, Registered, Expired, Inst,
              disk, Live, Procs
<1> QED BY TypesEach, <1>1, <1>2, <1>3, <1>4, <1>5, <1>6, <1>7, <1>8, <1>9, <1>10, <1>11, <1>12, <1>13,
     <1>14 DEF HInv

\* Step: the reaper's removals.
LEMMA ReapVictimsKeeps == ASSUME HInv, ReapVictims PROVE HInv'
<1> USE HLSAssumption
<1>a. Types BY TypesEach DEF HInv
<1>1. RegisteredWhole' /\ DeletedDrains' /\ RegisteredDir' /\ FilesOwn'
  BY DEF HInv, RegisteredWhole, DeletedDrains, RegisteredDir, FilesOwn, Registered, Live, ReapVictims,
         disk, objs
<1>2. Types'
  BY <1>a DEF HInv, Types, PlacesKnown, Places, ReapVictims, Take, Registered, Dirty, Inst, disk, objs,
              Live, Procs
<1>3. InFlightExact'
  <2>1. \A x \in Inst : Calls(x)' = Calls(x)
    BY <1>a DEF HInv, Types, Calls, PlacesKnown, NotUp, ReapVictims, Take, Registered, Dirty, Inst, disk,
                objs, Live, Procs
  <2> QED BY <2>1 DEF HInv, InFlightExact, ReapVictims, Take, Registered, Dirty, Inst, disk, objs, Live,
                      Procs
<1>4. GensMade'
  BY <1>a DEF HInv, GensMade, Types, Places, ReapVictims, Take, Registered, Dirty, Inst, disk, objs, Live,
              Procs
<1>5. PlacesKnown'
  BY <1>a DEF HInv, PlacesKnown, NotUp, Types, Places, ReapVictims, Take, Registered, Dirty, Inst, disk,
              objs, Live, Procs
<1>6. RemovesDeleted'
  BY <1>a DEF HInv, RemovesDeleted, PlacesKnown, VictimsQuiet, NotUp, Types, Places, ReapVictims, Take,
              Registered, Dirty, Inst, disk, objs, Live, Procs
<1>7. VictimsQuiet'
  BY <1>a DEF HInv, VictimsQuiet, ReaperSpares, RegisteredWhole, RemovesDeleted, InFlightExact,
              PlacesKnown, Types, Places, ReapVictims, Take, Registered, Dirty, Inst, disk, objs, Live,
              Procs
<1>8. WorksOnKnown'
  BY <1>a DEF HInv, WorksOnKnown, NotUp, PlacesKnown, Types, Places, ReapVictims, Take, Registered, Dirty,
              Inst, disk, objs, Live, Procs
<1>9. NotUp'
  BY <1>a DEF HInv, NotUp, PlacesKnown, Types, Places, ReapVictims, Take, Registered, Dirty, Inst, disk,
              objs, Live, Procs
<1>10. ReaperGone'
  BY <1>a DEF HInv, ReaperGone, Types, Places, ReapVictims, Take, Registered, Dirty, Inst, disk, objs,
              Live, Procs
<1>11. RemovalOwn'
  BY <1>a DEF HInv, RemovalOwn, Removing, NotUp, RegisteredWhole, DeletedDrains, RemovesDeleted,
              PlacesKnown, Types, Places, ReapVictims, Take, Registered, Dirty, Inst, disk, objs, Live,
              Procs
<1> QED BY TypesEach, <1>1, <1>2, <1>3, <1>4, <1>5, <1>6, <1>7, <1>8, <1>9, <1>10, <1>11 DEF HInv

\* Step: flushAccess.
LEMMA FlushAccessKeeps == ASSUME HInv, FlushAccess PROVE HInv'
<1> USE HLSAssumption
<1>a. Types BY TypesEach DEF HInv
<1>1. RegisteredWhole' /\ DeletedDrains' /\ RegisteredDir' /\ FilesOwn'
  BY DEF HInv, RegisteredWhole, DeletedDrains, RegisteredDir, FilesOwn, Registered, Live, FlushAccess,
         disk, objs
<1>2. Types'
  BY <1>a DEF HInv, Types, PlacesKnown, Places, FlushAccess, Enter, Goto, Take, disk, objs, Registered,
              Live, Inst, Procs
<1>3. InFlightExact'
  <2>1. \A x \in Inst : Calls(x)' = Calls(x)
    BY <1>a DEF HInv, Types, Calls, PlacesKnown, NotUp, FlushAccess, Enter, Goto, Take, disk, objs,
                Registered, Live, Inst, Procs
  <2> QED BY <2>1 DEF HInv, InFlightExact, FlushAccess, Enter, Goto, Take, disk, objs, Registered, Live,
                      Inst, Procs
<1>4. GensMade'
  BY <1>a DEF HInv, GensMade, Types, Places, FlushAccess, Enter, Goto, Take, disk, objs, Registered, Live,
              Inst, Procs
<1>5. PlacesKnown'
  BY <1>a DEF HInv, PlacesKnown, NotUp, Types, Places, FlushAccess, Enter, Goto, Take, disk, objs,
              Registered, Live, Inst, Procs
<1>6. RemovesDeleted'
  BY <1>a DEF HInv, RemovesDeleted, PlacesKnown, VictimsQuiet, NotUp, Types, Places, FlushAccess, Enter,
              Goto, Take, disk, objs, Registered, Live, Inst, Procs
<1>7. VictimsQuiet'
  BY <1>a DEF HInv, VictimsQuiet, ReaperSpares, RegisteredWhole, RemovesDeleted, InFlightExact,
              PlacesKnown, Types, Places, FlushAccess, Enter, Goto, Take, disk, objs, Registered, Live,
              Inst, Procs
<1>8. WorksOnKnown'
  BY <1>a DEF HInv, WorksOnKnown, NotUp, PlacesKnown, Types, Places, FlushAccess, Enter, Goto, Take, disk,
              objs, Registered, Live, Inst, Procs
<1>9. NotUp'
  BY <1>a DEF HInv, NotUp, PlacesKnown, Types, Places, FlushAccess, Enter, Goto, Take, disk, objs,
              Registered, Live, Inst, Procs
<1>10. ReaperGone'
  BY <1>a DEF HInv, ReaperGone, Types, Places, FlushAccess, Enter, Goto, Take, disk, objs, Registered,
              Live, Inst, Procs
<1>11. RemovalOwn'
  BY <1>a DEF HInv, RemovalOwn, Removing, NotUp, RegisteredWhole, DeletedDrains, RemovesDeleted,
              PlacesKnown, Types, Places, FlushAccess, Enter, Goto, Take, disk, objs, Registered, Live,
              Inst, Procs
<1> QED BY TypesEach, <1>1, <1>2, <1>3, <1>4, <1>5, <1>6, <1>7, <1>8, <1>9, <1>10, <1>11 DEF HInv

\* Step: the call of CloseHLS.
LEMMA CloseHLSKeeps == ASSUME HInv, CloseHLS PROVE HInv'
<1> USE HLSAssumption
<1>a. Types BY TypesEach DEF HInv
<1>1. InFlightExact' /\ GensMade' /\ PlacesKnown' /\ RegisteredWhole' /\ RemovesDeleted' /\ VictimsQuiet'
  BY DEF HInv, InFlightExact, GensMade, PlacesKnown, RegisteredWhole, RemovesDeleted, VictimsQuiet, Calls,
         ReaperSpares, Registered, Live, CloseHLS, disk, objs, procs
<1>2. Types'
  BY <1>a DEF HInv, Types, PlacesKnown, Places, CloseHLS, disk, objs, procs, Registered, Live, Inst, Procs
<1>3. DeletedDrains'
  BY <1>a DEF HInv, DeletedDrains, RegisteredWhole, RemovesDeleted, RemovalOwn, Removing, NotUp,
              PlacesKnown, Types, Places, CloseHLS, disk, objs, procs, Registered, Live, Inst, Procs
<1>4. WorksOnKnown'
  BY <1>a DEF HInv, WorksOnKnown, NotUp, PlacesKnown, Types, Places, CloseHLS, disk, objs, procs,
              Registered, Live, Inst, Procs
<1>5. NotUp'
  BY <1>a DEF HInv, NotUp, PlacesKnown, Types, Places, CloseHLS, disk, objs, procs, Registered, Live,
              Inst, Procs
<1>6. ReaperGone'
  BY <1>a DEF HInv, ReaperGone, Types, Places, CloseHLS, disk, objs, procs, Registered, Live, Inst, Procs
<1>7. RegisteredDir'
  BY <1>a DEF HInv, RegisteredDir, RemovalOwn, Removing, NotUp, RegisteredWhole, Types, Places, CloseHLS,
              disk, objs, procs, Registered, Live, Inst, Procs
<1>8. RemovalOwn'
  BY <1>a DEF HInv, RemovalOwn, Removing, NotUp, RegisteredWhole, DeletedDrains, RemovesDeleted,
              PlacesKnown, Types, Places, CloseHLS, disk, objs, procs, Registered, Live, Inst, Procs
<1>9. FilesOwn'
  BY <1>a DEF HInv, FilesOwn, WorksOnKnown, DeletedDrains, RemovesDeleted, RemovalOwn, Removing,
              RegisteredWhole, PlacesKnown, NotUp, Types, Places, CloseHLS, disk, objs, procs, Registered,
              Live, Inst, Procs
<1> QED BY TypesEach, <1>1, <1>2, <1>3, <1>4, <1>5, <1>6, <1>7, <1>8, <1>9 DEF HInv

\* Step: the end of the reaper.
LEMMA ReaperStopsKeeps == ASSUME HInv, ReaperStops PROVE HInv'
<1> USE HLSAssumption
<1>a. Types BY TypesEach DEF HInv
<1>1. RegisteredWhole'
  BY DEF HInv, RegisteredWhole, Registered, Live, ReaperStops, disk, objs
<1>2. Types'
  BY <1>a DEF HInv, Types, PlacesKnown, Places, ReaperStops, Registered, Dirty, Inst, disk, objs, Live,
              Procs
<1>3. InFlightExact'
  <2>1. \A x \in Inst : Calls(x)' = Calls(x)
    BY <1>a DEF HInv, Types, Calls, PlacesKnown, NotUp, ReaperStops, Registered, Dirty, Inst, disk, objs,
                Live, Procs
  <2> QED BY <2>1 DEF HInv, InFlightExact, ReaperStops, Registered, Dirty, Inst, disk, objs, Live, Procs
<1>4. GensMade'
  BY <1>a DEF HInv, GensMade, Types, Places, ReaperStops, Registered, Dirty, Inst, disk, objs, Live, Procs
<1>5. PlacesKnown'
  BY <1>a DEF HInv, PlacesKnown, NotUp, Types, Places, ReaperStops, Registered, Dirty, Inst, disk, objs,
              Live, Procs
<1>6. RemovesDeleted'
  BY <1>a DEF HInv, RemovesDeleted, PlacesKnown, VictimsQuiet, NotUp, Types, Places, ReaperStops,
              Registered, Dirty, Inst, disk, objs, Live, Procs
<1>7. DeletedDrains'
  <2>1. Live' => Live BY DEF HInv, ReaperGone, ReaperStops, Live
  <2> QED BY <1>a, <2>1 DEF HInv, DeletedDrains, Types, ReaperStops, Registered, Dirty, Inst, disk, objs,
                            Live, Procs
<1>8. VictimsQuiet'
  BY <1>a DEF HInv, VictimsQuiet, ReaperSpares, RegisteredWhole, RemovesDeleted, InFlightExact,
              PlacesKnown, Types, Places, ReaperStops, Registered, Dirty, Inst, disk, objs, Live, Procs
<1>9. WorksOnKnown'
  <2>1. Live' => Live BY DEF HInv, ReaperGone, ReaperStops, Live
  <2> QED BY <1>a, <2>1 DEF HInv, WorksOnKnown, Types, ReaperStops, Registered, Dirty, Inst, disk, objs,
                            Live, Procs
<1>10. NotUp'
  BY <1>a DEF HInv, NotUp, PlacesKnown, Types, Places, ReaperStops, Registered, Dirty, Inst, disk, objs,
              Live, Procs
<1>11. ReaperGone'
  BY <1>a DEF HInv, ReaperGone, Types, Places, ReaperStops, Registered, Dirty, Inst, disk, objs, Live, Procs
<1>12. RegisteredDir'
  <2>1. Live' => Live BY DEF HInv, ReaperGone, ReaperStops, Live
  <2> QED BY <1>a, <2>1 DEF HInv, RegisteredDir, Types, ReaperStops, Registered, Dirty, Inst, disk, objs,
                            Live, Procs
<1>13. RemovalOwn'
  <2>1. Live' => Live BY DEF HInv, ReaperGone, ReaperStops, Live
  <2> QED BY <1>a, <2>1 DEF HInv, RemovalOwn, Removing, Types, ReaperStops, Registered, Dirty, Inst, disk,
                            objs, Live, Procs
<1>14. FilesOwn'
  <2>1. Live' => Live BY DEF HInv, ReaperGone, ReaperStops, Live
  <2> QED BY <1>a, <2>1 DEF HInv, FilesOwn, Types, ReaperStops, Registered, Dirty, Inst, disk, objs, Live,
                            Procs
<1> QED BY TypesEach, <1>1, <1>2, <1>3, <1>4, <1>5, <1>6, <1>7, <1>8, <1>9, <1>10, <1>11, <1>12, <1>13,
     <1>14 DEF HInv

\* Step: the clearing of CloseHLS.
LEMMA CloseClearsKeeps == ASSUME HInv, CloseClears PROVE HInv'
<1> USE HLSAssumption
<1>a. Types BY TypesEach DEF HInv
<1>1. InFlightExact' /\ PlacesKnown' /\ RemovesDeleted' /\ VictimsQuiet'
  BY DEF HInv, InFlightExact, PlacesKnown, RemovesDeleted, VictimsQuiet, Calls, ReaperSpares, Registered,
         Live, CloseClears, disk, procs
<1>2. Types'
  BY <1>a DEF HInv, Types, PlacesKnown, Places, CloseClears, disk, procs, Registered, Live, Inst, Procs
<1>3. GensMade'
  BY <1>a DEF HInv, GensMade, Types, Places, CloseClears, disk, procs, Registered, Live, Inst, Procs
<1>4. RegisteredWhole'
  BY <1>a DEF HInv, RegisteredWhole, GensMade, NotUp, Types, Places, CloseClears, disk, procs, Registered,
              Live, Inst, Procs
<1>5. DeletedDrains'
  BY <1>a DEF HInv, DeletedDrains, RegisteredWhole, RemovesDeleted, RemovalOwn, Removing, NotUp,
              PlacesKnown, Types, Places, CloseClears, disk, procs, Registered, Live, Inst, Procs
<1>6. WorksOnKnown'
  BY <1>a DEF HInv, WorksOnKnown, NotUp, PlacesKnown, Types, Places, CloseClears, disk, procs, Registered,
              Live, Inst, Procs
<1>7. NotUp'
  BY <1>a DEF HInv, NotUp, PlacesKnown, Types, Places, CloseClears, disk, procs, Registered, Live, Inst,
              Procs
<1>8. ReaperGone'
  BY <1>a DEF HInv, ReaperGone, Types, Places, CloseClears, disk, procs, Registered, Live, Inst, Procs
<1>9. RegisteredDir'
  BY <1>a DEF HInv, RegisteredDir, RemovalOwn, Removing, NotUp, RegisteredWhole, Types, Places,
              CloseClears, disk, procs, Registered, Live, Inst, Procs
<1>10. RemovalOwn'
  BY <1>a DEF HInv, RemovalOwn, Removing, NotUp, RegisteredWhole, DeletedDrains, RemovesDeleted,
              PlacesKnown, Types, Places, CloseClears, disk, procs, Registered, Live, Inst, Procs
<1>11. FilesOwn'
  BY <1>a DEF HInv, FilesOwn, WorksOnKnown, DeletedDrains, RemovesDeleted, RemovalOwn, Removing,
              RegisteredWhole, PlacesKnown, NotUp, Types, Places, CloseClears, disk, procs, Registered,
              Live, Inst, Procs
<1> QED BY TypesEach, <1>1, <1>2, <1>3, <1>4, <1>5, <1>6, <1>7, <1>8, <1>9, <1>10, <1>11 DEF HInv

\* Step: the end of the process.
LEMMA ProcessEndsKeeps == ASSUME HInv, ProcessEnds PROVE HInv'
<1> USE HLSAssumption
<1>a. Types BY TypesEach DEF HInv
<1>1. Types'
  <2>1. pc' \in [Procs -> Places] /\ at' \in [Procs -> Inst \cup {Nil}]
    BY DEF ProcessEnds, Places
  <2>2. inFlight' \in [Inst -> Nat] /\ sessions' \in [Ids -> 0 .. MaxGen] /\ draining' \in [Ids -> 0 .. MaxGen]
    BY DEF ProcessEnds
  <2>3. exits' \in Nat
    BY <1>a DEF Types, ProcessEnds
  <2> QED BY <1>a, <2>1, <2>2, <2>3 DEF Types, ProcessEnds, disk
<1>2. InFlightExact'
  <2>1. \A x \in Inst : Calls(x)' = {}
    BY DEF Calls, ProcessEnds, Procs
  <2> QED BY <2>1, FS_EmptySet DEF InFlightExact, ProcessEnds
<1>3. GensMade'
  BY <1>a DEF HInv, GensMade, Types, Places, ProcessEnds, Inst, disk, Registered, Live, Procs
<1>4. PlacesKnown'
  BY <1>a DEF HInv, PlacesKnown, NotUp, Types, Places, ProcessEnds, Inst, disk, Registered, Live, Procs
<1>5. RegisteredWhole'
  BY <1>a DEF HInv, RegisteredWhole, GensMade, NotUp, Types, Places, ProcessEnds, Inst, disk, Registered,
              Live, Procs
<1>6. RemovesDeleted'
  BY <1>a DEF HInv, RemovesDeleted, PlacesKnown, VictimsQuiet, NotUp, Types, Places, ProcessEnds, Inst,
              disk, Registered, Live, Procs
<1>7. DeletedDrains'
  BY <1>a DEF HInv, DeletedDrains, RegisteredWhole, RemovesDeleted, RemovalOwn, Removing, NotUp,
              PlacesKnown, Types, Places, ProcessEnds, Inst, disk, Registered, Live, Procs
<1>8. VictimsQuiet'
  BY <1>a DEF HInv, VictimsQuiet, ReaperSpares, RegisteredWhole, RemovesDeleted, InFlightExact,
              PlacesKnown, Types, Places, ProcessEnds, Inst, disk, Registered, Live, Procs
<1>9. WorksOnKnown'
  BY <1>a DEF HInv, WorksOnKnown, NotUp, PlacesKnown, Types, Places, ProcessEnds, Inst, disk, Registered,
              Live, Procs
<1>10. NotUp'
  BY <1>a DEF HInv, NotUp, PlacesKnown, Types, Places, ProcessEnds, Inst, disk, Registered, Live, Procs
<1>11. ReaperGone'
  BY <1>a DEF HInv, ReaperGone, Types, Places, ProcessEnds, Inst, disk, Registered, Live, Procs
<1>12. RegisteredDir'
  BY <1>a DEF HInv, RegisteredDir, RemovalOwn, Removing, NotUp, RegisteredWhole, Types, Places,
              ProcessEnds, Inst, disk, Registered, Live, Procs
<1>13. RemovalOwn'
  BY <1>a DEF HInv, RemovalOwn, Removing, NotUp, RegisteredWhole, DeletedDrains, RemovesDeleted,
              PlacesKnown, Types, Places, ProcessEnds, Inst, disk, Registered, Live, Procs
<1>14. FilesOwn'
  BY <1>a DEF HInv, FilesOwn, WorksOnKnown, DeletedDrains, RemovesDeleted, RemovalOwn, Removing,
              RegisteredWhole, PlacesKnown, NotUp, Types, Places, ProcessEnds, Inst, disk, Registered,
              Live, Procs
<1> QED BY TypesEach, <1>1, <1>2, <1>3, <1>4, <1>5, <1>6, <1>7, <1>8, <1>9, <1>10, <1>11, <1>12, <1>13,
     <1>14 DEF HInv

\* Step: loadPersisted.
LEMMA LoadPersistedKeeps == ASSUME HInv, LoadPersisted PROVE HInv'
<1> USE HLSAssumption
<1>a. Types BY TypesEach DEF HInv
<1>1. InFlightExact' /\ PlacesKnown' /\ RemovesDeleted' /\ VictimsQuiet' /\ ReaperGone'
  BY DEF HInv, InFlightExact, PlacesKnown, RemovesDeleted, VictimsQuiet, ReaperGone, Calls, ReaperSpares,
         Registered, Live, LoadPersisted, procs
<1>2. Types'
  BY <1>a DEF HInv, Types, PlacesKnown, Places, LoadPersisted, Inst, procs, Registered, Live, Procs
<1>3. GensMade'
  BY <1>a DEF HInv, GensMade, Types, Places, LoadPersisted, Inst, procs, Registered, Live, Procs
<1>4. RegisteredWhole'
  BY <1>a DEF HInv, RegisteredWhole, GensMade, NotUp, Types, Places, LoadPersisted, Inst, procs,
              Registered, Live, Procs
<1>5. DeletedDrains'
  BY <1>a DEF HInv, DeletedDrains, RegisteredWhole, RemovesDeleted, RemovalOwn, Removing, NotUp,
              PlacesKnown, Types, Places, LoadPersisted, Inst, procs, Registered, Live, Procs
<1>6. WorksOnKnown'
  BY <1>a DEF HInv, WorksOnKnown, NotUp, PlacesKnown, Types, Places, LoadPersisted, Inst, procs,
              Registered, Live, Procs
<1>7. NotUp'
  BY <1>a DEF HInv, NotUp, PlacesKnown, Types, Places, LoadPersisted, Inst, procs, Registered, Live, Procs
<1>8. RegisteredDir'
  BY <1>a DEF HInv, RegisteredDir, RemovalOwn, Removing, NotUp, RegisteredWhole, Types, Places,
              LoadPersisted, Inst, procs, Registered, Live, Procs
<1>9. RemovalOwn'
  BY <1>a DEF HInv, RemovalOwn, Removing, NotUp, RegisteredWhole, DeletedDrains, RemovesDeleted,
              PlacesKnown, Types, Places, LoadPersisted, Inst, procs, Registered, Live, Procs
<1>10. FilesOwn'
  BY <1>a DEF HInv, FilesOwn, WorksOnKnown, DeletedDrains, RemovesDeleted, RemovalOwn, Removing,
              RegisteredWhole, PlacesKnown, NotUp, Types, Places, LoadPersisted, Inst, procs, Registered,
              Live, Procs
<1> QED BY TypesEach, <1>1, <1>2, <1>3, <1>4, <1>5, <1>6, <1>7, <1>8, <1>9, <1>10 DEF HInv

\* Every step keeps the invariant.
LEMMA HInvStep == HInv /\ [HLSNext]_hlsVars => HInv'
<1> SUFFICES ASSUME HInv, [HLSNext]_hlsVars PROVE HInv'
  OBVIOUS
<1>1. ASSUME NEW c \in Clients, ClientStep(c) PROVE HInv'
  BY <1>1, StartTouchKeeps, StartProbeKeeps, FileWorkKeeps, FileExitKeeps, FileLeftKeeps DEF ClientStep
<1>2. ASSUME NEW c \in Clients, NEW i \in Ids, StartHLS(c, i) \/ HLSFile(c, i) \/ DeleteHLS(c, i) PROVE HInv'
  BY <1>2, StartHLSKeeps, HLSFileKeeps, DeleteHLSKeeps
<1>3. ASSUME NEW p \in Procs, PersistCheck(p) \/ PersistWrite(p) \/ Removes(p) PROVE HInv'
  BY <1>3, PersistCheckKeeps, PersistWriteKeeps, RemoveOnceKeeps, RemoveDirKeeps, ClearDrainingKeeps DEF
       Removes
<1>4. ASSUME NEW s \in Inst, GoIdle(s) PROVE HInv'
  BY <1>4, GoIdleKeeps
<1>5. CASE EvictIdle \/ ReapVictims \/ FlushAccess
  BY <1>5, EvictIdleKeeps, ReapVictimsKeeps, FlushAccessKeeps
<1>6. CASE CloseHLS \/ ReaperStops \/ CloseClears
  BY <1>6, CloseHLSKeeps, ReaperStopsKeeps, CloseClearsKeeps
<1>7. CASE ProcessEnds \/ LoadPersisted
  BY <1>7, ProcessEndsKeeps, LoadPersistedKeeps
<1>8. CASE UNCHANGED hlsVars
  BY <1>8 DEF HInv, hlsVars, objs, disk, procs, SessionTypeOK, InFlightExact, Calls, GensMade,
              PlacesKnown, RegisteredWhole, RemovesDeleted, DeletedDrains, VictimsQuiet, ReaperSpares,
              WorksOnKnown, NotUp, ReaperGone, RegisteredDir, RemovalOwn, FilesOwn, Registered, Removing,
              Live
<1> QED BY <1>1, <1>2, <1>3, <1>4, <1>5, <1>6, <1>7, <1>8 DEF HLSNext

\* Whatever the number of requests, ids and generations: calls, deletions,
\* evictions, restarts and the end of the process may cross in any way, and still
\* every registered session has its directory, a removal is for the one session
\* that is draining under its id and is done by one goroutine, the reaper spares
\* sessions with calls in flight, and inFlight counts those calls.
THEOREM HLSInvariant == HLSSpec => []HInv
<1>1. HLSInit => HInv BY HInvInit
<1>2. HInv /\ [HLSNext]_hlsVars => HInv' BY HInvStep
<1> QED BY <1>1, <1>2, PTL DEF HLSSpec

\* The properties that the run checks follow.
THEOREM HLSDirsKept == HLSSpec => []SessionDirsKept
<1>1. HInv => SessionDirsKept BY DEF HInv, VictimsQuiet, SessionDirsKept
<1> QED BY <1>1, HLSInvariant, PTL

-----------------------------------------------------------------------------
(* FTP transfers (FTPPool) *)

\* The places at which a session is bound and its control connection in use.
InUsePlaces == {"retr", "opened", "begin", "refused", "read", "reply", "put"}

\* Ranks tell the parked sessions apart.
RanksDiffer == \A s, t \in Parked : ftpPool[s] = ftpPool[t] => s = t

\* A session belongs to the key of its request; only a request that has dialled has a
\* session of its own, and before that nobody knows of it.
Bound ==
  /\ \A r \in Requests : /\ sess[r] # NoSession => want[sess[r]] = want[r]
                         /\ place[r] \in {"start", "dial"} <=> sess[r] = NoSession /\ place[r] # "end"
                         /\ place[r] = "connect" => sess[r] = r
                         /\ place[r] = "redial" => sess[r] # r
                         /\ place[r] \notin {"dial", "end"} => trash[r] = {}
  /\ \A s \in Sessions : sess[s] # s => /\ s \notin Parked /\ ctl[s] = "none"
                                        /\ \A u \in Users : s \notin trash[u]
                                        /\ \A r \in Requests : sess[r] # s

\* A session is with one request, in one heap of discarded sessions, or in the pool, and
\* one that is with nobody has a closed connection or none.
OneOwner ==
  \A s \in Sessions :
    /\ \A r, q \in Requests : Holds(r, s) /\ Holds(q, s) => r = q
    /\ \A u, v \in Users : s \in trash[u] /\ s \in trash[v] => u = v
    /\ \A r \in Requests, u \in Users : ~(Holds(r, s) /\ s \in trash[u])
    /\ s \in Parked => (\A r \in Requests : ~Holds(r, s)) /\ (\A u \in Users : s \notin trash[u])
    /\ ctl[s] = "open" => s \in Parked \/ (\E r \in Requests : Holds(r, s)) \/ (\E u \in Users : s \in trash[u])

\* The hook runs for a cancelled request, and has taken the phase before it closes.
HookKnown ==
  \A r \in Requests : /\ hook[r] \in {"data", "phase", "ctl", "done"} => r \in cancelled
                      /\ phase[r] = "aborted" <=> phase[r] # "transferring" /\ hook[r] \in {"ctl", "done"}
                      /\ hook[r] = "ctl" => phase[r] = "aborted"

\* Whose control connection the hook may still close: the request holds it or has
\* closed it.
Custody ==
  \A r \in Requests :
    (hook[r] \in {"armed", "data", "phase"} /\ phase[r] = "opening") \/ hook[r] = "ctl"
      => sess[r] \in Sessions /\ (Holds(r, sess[r]) \/ ctl[sess[r]] = "closed")

\* A bound session is open unless the hook of its own request has closed it.
OpenInUse ==
  \A r \in Requests :
    /\ place[r] \in InUsePlaces => ctl[sess[r]] = "open" \/ phase[r] = "aborted"
    /\ place[r] \in {"read", "reply"} => phase[r] = "transferring"
    /\ place[r] = "put" => phase[r] = "transferring" \/ hook[r] = "none"

\* A reply that is owed will be read, or its session discarded.
OwedKnown ==
  \A s \in owed : \E r \in Requests : Holds(r, s) /\ place[r] \in {"opened", "begin", "read", "reply", "fail"}

ParkedOpen == \A s \in Parked : ctl[s] = "open"

FPInv ==
  /\ FTPTypeOK /\ PoolBounded /\ RanksDiffer /\ Bound /\ OneOwner /\ HookKnown /\ Custody /\ OpenInUse /\ OwedKnown
  /\ ParkedOpen

\* A set of numbers has a least one, and a bounded one a greatest.
LEMMA LeastOf == ASSUME NEW T \in SUBSET Nat, T # {} PROVE \E n \in T : \A m \in T : n <= m
<1>1. PICK R : R = {x \in Nat \X Nat : x[1] < x[2]}  OBVIOUS
<1>2. IsWellFoundedOn(R, Nat)
  <2>1. OpToRel(<, Nat) = R  BY <1>1 DEF OpToRel
  <2>2. QED  BY <2>1, NatLessThanWellFounded
<1>3. PICK n \in T : \A m \in T : ~(<<m, n>> \in R)  BY <1>2, WFMin
<1>4. ASSUME NEW m \in T PROVE n <= m
  <2>1. m \in Nat /\ n \in Nat /\ <<m, n>> \notin R  BY <1>3
  <2>2. <<m, n>> \in Nat \X Nat /\ <<m, n>>[1] = m /\ <<m, n>>[2] = n  BY <2>1
  <2>3. ~(m < n)  BY <1>1, <2>1, <2>2
  <2>4. QED  BY <2>1, <2>3
<1>5. QED  BY <1>4

LEMMA GreatestOf == ASSUME NEW b \in Nat, NEW T \in SUBSET (0 .. b), T # {} PROVE \E n \in T : \A m \in T : m <= n
<1>1. PICK V : V = {b - m : m \in T}  OBVIOUS
<1>2. V \in SUBSET Nat /\ V # {}
  <2>1. \A m \in T : b - m \in Nat  OBVIOUS
  <2>2. PICK m \in T : TRUE  OBVIOUS
  <2>3. b - m \in V  BY <1>1
  <2>4. QED  BY <1>1, <2>1, <2>3
<1>3. PICK v \in V : \A m \in V : v <= m  BY <1>2, LeastOf
<1>4. PICK n \in T : v = b - n  BY <1>1, <1>3
<1>5. \A m \in T : b - m \in V  BY <1>1
<1>6. ASSUME NEW m \in T PROVE m <= n
  <2>1. v <= b - m  BY <1>3, <1>5
  <2>2. QED  BY <1>4, <2>1
<1>7. QED  BY <1>6

\* Sessions are finite in number.
LEMMA FewSessions == ASSUME NEW S \in SUBSET Sessions PROVE IsFiniteSet(S) /\ Cardinality(S) \in 0 .. NumRequests
<1>1. 1 \in Int /\ NumRequests \in Int /\ NumRequests \in Nat  BY FTPAssumption
<1>2. IsFiniteSet(1 .. NumRequests) /\ Cardinality(1 .. NumRequests) = NumRequests
  <2>1. IsFiniteSet(1 .. NumRequests) /\ Cardinality(1 .. NumRequests) = IF 1 > NumRequests THEN 0 ELSE NumRequests - 1 + 1
    BY ONLY <1>1, FS_Interval
  <2>2. QED  BY <1>1, <2>1
<1>3. S \in SUBSET (1 .. NumRequests)  BY DEF Sessions, Requests
<1>4. IsFiniteSet(S) /\ Cardinality(S) <= NumRequests  BY ONLY <1>2, <1>3, FS_Subset
<1>5. Cardinality(S) \in Nat  BY ONLY <1>4, FS_CardinalityType
<1>6. QED  BY <1>1, <1>4, <1>5

\* Of any sessions one is the oldest and one the newest.
LEMMA SomeOldest ==
  ASSUME FTPTypeOK, NEW S \in SUBSET Sessions, S # {}
  PROVE  Oldest(S) \in S /\ (\A t \in S : ftpPool[Oldest(S)] <= ftpPool[t]) /\ Newest(S) \in S
<1>1. PICK T : T = {ftpPool[s] : s \in S}  OBVIOUS
<1>2. NumRequests \in Nat /\ T \in SUBSET (0 .. NumRequests) /\ T # {} /\ T \in SUBSET Nat  BY <1>1, FTPAssumption DEF FTPTypeOK
<1>3. \E s \in S : \A t \in S : ftpPool[s] <= ftpPool[t]
  <2>1. PICK n \in T : \A m \in T : n <= m  BY <1>2, LeastOf
  <2>2. QED  BY <1>1, <2>1
<1>4. \E s \in S : \A t \in S : ftpPool[s] >= ftpPool[t]
  <2>1. PICK n \in T : \A m \in T : m <= n  BY <1>2, GreatestOf
  <2>2. PICK s \in S : n = ftpPool[s]  BY <1>1, <2>1
  <2>3. \A t \in S : ftpPool[s] >= ftpPool[t]  BY <1>1, <1>2, <2>1, <2>2
  <2>4. QED  BY <2>3
<1>5. QED  BY <1>3, <1>4 DEF Oldest, Newest

\* Taking sessions out keeps the order and the ranks of the others.
LEMMA RankedKeeps ==
  ASSUME FTPTypeOK, RanksDiffer, NEW S \in SUBSET Parked
  PROVE  /\ Ranked(S) \in [Sessions -> 0 .. NumRequests]
         /\ \A s \in Sessions : Ranked(S)[s] > 0 <=> s \in S
         /\ \A s \in S : Ranked(S)[s] <= Cardinality(S)
         /\ \A s, t \in S : Ranked(S)[s] = Ranked(S)[t] => s = t
<1>1. S \in SUBSET Sessions /\ NumRequests \in Nat  BY FTPAssumption DEF Parked
<1>2. IsFiniteSet(S) /\ Cardinality(S) \in 0 .. NumRequests  BY <1>1, FewSessions
<1>3. ASSUME NEW s \in S PROVE Ranked(S)[s] \in 1 .. Cardinality(S)
  <2>1. PICK V : V = {t \in S : ftpPool[t] <= ftpPool[s]}  OBVIOUS
  <2>2. s \in V /\ V \in SUBSET S  BY <1>1, <2>1 DEF FTPTypeOK
  <2>3. IsFiniteSet(V) /\ Cardinality(V) <= Cardinality(S)  BY ONLY <1>2, <2>2, FS_Subset
  <2>4. Cardinality(V) \in Nat /\ Cardinality(V) # 0  BY ONLY <2>2, <2>3, FS_EmptySet, FS_CardinalityType
  <2>5. Ranked(S)[s] = Cardinality(V)  BY <1>1, <2>1 DEF Ranked
  <2>6. QED  BY <1>2, <2>3, <2>4, <2>5
<1>4. ASSUME NEW s \in S, NEW t \in S, ftpPool[s] < ftpPool[t] PROVE Ranked(S)[s] # Ranked(S)[t]
  <2>1. PICK V, U : V = {x \in S : ftpPool[x] <= ftpPool[s]} /\ U = {x \in S : ftpPool[x] <= ftpPool[t]}  OBVIOUS
  <2>2. V \in SUBSET U /\ t \in U /\ t \notin V /\ U \in SUBSET S  BY <1>1, <1>4, <2>1 DEF FTPTypeOK
  <2>3. IsFiniteSet(U)  BY ONLY <1>2, <2>2, FS_Subset
  <2>4. Cardinality(V) # Cardinality(U)  BY ONLY <2>2, <2>3, FS_Subset
  <2>5. QED  BY <1>1, <2>1, <2>4 DEF Ranked
<1>5. \A s, t \in S : Ranked(S)[s] = Ranked(S)[t] => s = t
  <2> SUFFICES ASSUME NEW s \in S, NEW t \in S, s # t PROVE Ranked(S)[s] # Ranked(S)[t]
    OBVIOUS
  <2>1. ftpPool[s] # ftpPool[t]  BY DEF RanksDiffer
  <2>2. ftpPool[s] < ftpPool[t] \/ ftpPool[t] < ftpPool[s]  BY <1>1, <2>1 DEF FTPTypeOK
  <2>3. QED  BY <1>4, <2>2
<1>6. \A s \in Sessions \ S : Ranked(S)[s] = 0  BY DEF Ranked
<1>7. \A s \in Sessions : Ranked(S)[s] \in 0 .. NumRequests  BY <1>1, <1>2, <1>3, <1>6
<1>8. Ranked(S) = [s \in Sessions |-> Ranked(S)[s]]  BY DEF Ranked
<1>9. Ranked(S) \in [Sessions -> 0 .. NumRequests]  BY <1>7, <1>8
<1>10. \A s \in Sessions : Ranked(S)[s] > 0 <=> s \in S  BY <1>2, <1>3, <1>6
<1>11. \A s \in S : Ranked(S)[s] <= Cardinality(S)  BY <1>2, <1>3
<1>12. QED  BY <1>5, <1>9, <1>10, <1>11

LEMMA TakeOutKeeps ==
  ASSUME FTPTypeOK, PoolBounded, RanksDiffer, NEW S \in SUBSET Parked, TakeOut(S), UNCHANGED want
  PROVE  /\ ftpPool' \in [Sessions -> 0 .. NumRequests] /\ expired' \subseteq Parked' /\ ftpPoolIdle' \in Nat
         /\ Parked' = Parked \ S /\ PoolBounded' /\ RanksDiffer'
<1>1. PICK P, V : P = Parked /\ V = Parked \ S  OBVIOUS
<1>2. V \in SUBSET Parked /\ S \subseteq P /\ P \in SUBSET Sessions  BY <1>1 DEF Parked
<1>3. ftpPool' = Ranked(V)  BY <1>1 DEF TakeOut
<1>4. Parked' = V
  <2>1. \A s \in Sessions : ftpPool'[s] > 0 <=> s \in V  BY <1>2, <1>3, RankedKeeps
  <2>2. QED  BY <1>1, <1>2, <2>1 DEF Parked
<1>5. ftpPool' \in [Sessions -> 0 .. NumRequests] /\ RanksDiffer'  BY <1>2, <1>3, <1>4, RankedKeeps DEF RanksDiffer
<1>6. expired' \subseteq Parked'  BY <1>1, <1>4 DEF TakeOut, FTPTypeOK
<1>7. IsFiniteSet(P) /\ Cardinality(P) \in Nat  BY <1>2, FewSessions
<1>8. IsFiniteSet(S) /\ Cardinality(S) \in Nat /\ Cardinality(V) \in Nat  BY <1>1, <1>2, FewSessions
<1>9. Cardinality(P \ S) = Cardinality(P) - Cardinality(P \cap S)  BY ONLY <1>7, FS_Difference
<1>10. V = P \ S /\ P \cap S = S  BY <1>1, <1>2
<1>11. Cardinality(V) = Cardinality(P) - Cardinality(S)  BY <1>9, <1>10
<1>12. ftpPoolIdle' = Cardinality(Parked') /\ ftpPoolIdle' <= MaxIdle /\ ftpPoolIdle' \in Nat
  BY <1>1, <1>4, <1>7, <1>8, <1>11, FTPAssumption DEF TakeOut, PoolBounded
<1>13. ASSUME NEW k \in Keys PROVE Cardinality(Of(k)') <= MaxPerKey
  <2>1. PICK A, B : A = Of(k) /\ B = Of(k)'  OBVIOUS
  <2>2. B \in SUBSET A /\ A \in SUBSET Sessions /\ Cardinality(A) <= MaxPerKey  BY <1>1, <1>4, <2>1 DEF Of, Parked, PoolBounded
  <2>3. IsFiniteSet(A) /\ Cardinality(A) \in Nat /\ Cardinality(B) \in Nat  BY <2>2, FewSessions
  <2>4. Cardinality(B) <= Cardinality(A)  BY ONLY <2>2, <2>3, FS_Subset
  <2>5. QED  BY <2>1, <2>2, <2>3, <2>4, FTPAssumption
<1>14. QED  BY <1>1, <1>4, <1>5, <1>6, <1>12, <1>13 DEF PoolBounded


\* Eviction makes room in the pool and for the key.
LEMMA EvictedMakesRoom ==
  ASSUME FTPTypeOK, PoolBounded, RanksDiffer, NEW k \in Keys
  PROVE  /\ Evicted(k) \subseteq Parked
         /\ Cardinality(Parked \ Evicted(k)) < MaxIdle /\ Cardinality(Of(k) \ Evicted(k)) < MaxPerKey
<1>1. PICK P, A, out : P = Parked /\ A = Of(k) /\ out = Evicted(k)  OBVIOUS
<1>2. P \in SUBSET Sessions /\ A \subseteq P /\ A \in SUBSET Sessions  BY <1>1 DEF Parked, Of
<1>3. PICK own : own = IF Cardinality(A) >= MaxPerKey THEN {Oldest(A)} ELSE {}  OBVIOUS
<1>4. PICK rest : rest = P \ own  OBVIOUS
<1>5. out = own \cup {s \in rest : Cardinality({t \in rest : ftpPool[t] < ftpPool[s]}) <= ftpPoolIdle - Cardinality(own) - MaxIdle}
  BY <1>1, <1>3, <1>4 DEF Evicted
<1>6. IsFiniteSet(A) /\ Cardinality(A) \in Nat /\ Cardinality(A) <= MaxPerKey /\ MaxPerKey \in Nat \ {0} /\ MaxIdle \in Nat \ {0}
  BY <1>1, <1>2, FewSessions, FTPAssumption DEF PoolBounded
<1>7. own \subseteq A /\ Cardinality(A \ own) < MaxPerKey
  <2>1. CASE Cardinality(A) >= MaxPerKey
    <3>1. A # {}  BY <1>6, <2>1, FS_EmptySet
    <3>2. PICK o \in A : o = Oldest(A)  BY <1>2, <3>1, SomeOldest
    <3>3. own = {o}  BY <1>3, <2>1, <3>2
    <3>4. Cardinality(A \ {o}) = Cardinality(A) - 1  BY ONLY <1>6, <3>2, FS_RemoveElement
    <3>5. QED  BY <1>6, <3>2, <3>3, <3>4
  <2>2. CASE ~(Cardinality(A) >= MaxPerKey)
    <3>1. own = {} /\ A \ own = A  BY <1>3, <2>2
    <3>2. QED  BY <1>6, <2>2, <3>1
  <2>3. QED  BY <2>1, <2>2
<1>8. rest \in SUBSET Sessions /\ own \in SUBSET Sessions /\ own \subseteq P  BY <1>2, <1>4, <1>7
<1>9. /\ IsFiniteSet(P) /\ Cardinality(P) \in Nat /\ IsFiniteSet(rest) /\ Cardinality(rest) \in Nat
      /\ IsFiniteSet(own) /\ Cardinality(own) \in Nat
  BY <1>2, <1>8, FewSessions
<1>10. Cardinality(rest) = Cardinality(P) - Cardinality(own)
  <2>1. Cardinality(P \ own) = Cardinality(P) - Cardinality(P \cap own)  BY ONLY <1>9, FS_Difference
  <2>2. P \cap own = own  BY <1>8
  <2>3. QED  BY <1>4, <2>1, <2>2
<1>11. Cardinality(rest) <= MaxIdle /\ ftpPoolIdle - Cardinality(own) - MaxIdle = Cardinality(rest) - MaxIdle
  BY <1>1, <1>6, <1>9, <1>10 DEF PoolBounded
<1>12. Cardinality(P \ out) < MaxIdle
  <2>1. P \ out \subseteq rest /\ P \ out \in SUBSET Sessions  BY <1>2, <1>4, <1>5
  <2>2. CASE Cardinality(rest) < MaxIdle
    <3>1. Cardinality(P \ out) <= Cardinality(rest) /\ IsFiniteSet(P \ out)  BY ONLY <1>9, <2>1, FS_Subset
    <3>2. Cardinality(P \ out) \in Nat  BY <2>1, FewSessions
    <3>3. QED  BY <1>6, <1>9, <2>2, <3>1, <3>2
  <2>3. CASE Cardinality(rest) = MaxIdle
    <3>1. rest # {}  BY <1>6, <2>3, FS_EmptySet
    <3>2. PICK o \in rest : \A t \in rest : ftpPool[o] <= ftpPool[t]  BY <1>8, <3>1, SomeOldest
    <3>3. {t \in rest : ftpPool[t] < ftpPool[o]} = {}  BY <1>8, <3>2 DEF FTPTypeOK
    <3>4. Cardinality({t \in rest : ftpPool[t] < ftpPool[o]}) = 0  BY <3>3, FS_EmptySet
    <3>5. o \in out  BY <1>5, <1>6, <1>11, <2>3, <3>2, <3>4
    <3>6. P \ out \in SUBSET (rest \ {o})  BY <2>1, <3>5
    <3>7. IsFiniteSet(rest \ {o}) /\ Cardinality(rest \ {o}) = Cardinality(rest) - 1  BY ONLY <1>9, <3>2, FS_RemoveElement
    <3>8. Cardinality(P \ out) <= Cardinality(rest \ {o})  BY ONLY <3>6, <3>7, FS_Subset
    <3>9. Cardinality(P \ out) \in Nat  BY <2>1, FewSessions
    <3>10. QED  BY <1>6, <1>9, <2>3, <3>7, <3>8, <3>9
  <2>4. QED  BY <1>6, <1>9, <1>11, <2>2, <2>3
<1>13. Cardinality(A \ out) < MaxPerKey
  <2>1. A \ out \in SUBSET (A \ own) /\ A \ own \in SUBSET Sessions  BY <1>2, <1>5
  <2>2. IsFiniteSet(A \ own) /\ Cardinality(A \ own) \in Nat /\ Cardinality(A \ out) \in Nat
    <3>1. A \ out \in SUBSET Sessions  BY <2>1
    <3>2. QED  BY <2>1, <3>1, FewSessions
  <2>3. Cardinality(A \ out) <= Cardinality(A \ own)  BY ONLY <2>1, <2>2, FS_Subset
  <2>4. QED  BY <1>6, <1>7, <2>2, <2>3
<1>14. out \subseteq P  BY <1>4, <1>5, <1>8
<1>15. QED  BY <1>1, <1>12, <1>13, <1>14

\* What leaves the pool alone.
LEMMA PoolStays ==
  ASSUME FPInv, UNCHANGED <<poolVars, want>>
  PROVE  Parked' = Parked /\ PoolBounded' /\ RanksDiffer'
<1>1. Parked' = Parked /\ \A k \in Keys : Of(k)' = Of(k)  BY DEF Parked, Of, poolVars
<1>2. QED  BY <1>1 DEF FPInv, PoolBounded, RanksDiffer, poolVars


\* Owners stay owners, and no connection is opened behind their backs.
LEMMA OwnersStay ==
  ASSUME OneOwner, Parked' = Parked, trash' = trash,
         \A q \in Requests : \A s \in Sessions : Holds(q, s)' => Holds(q, s),
         \A s \in Sessions : ctl'[s] = "open" => \/ ctl[s] = "open" /\ \A q \in Requests : Holds(q, s) => Holds(q, s)'
                                               \/ \E q \in Requests : Holds(q, s)'
  PROVE  OneOwner'
<1> SUFFICES ASSUME NEW s \in Sessions
             PROVE  /\ \A r, q \in Requests : Holds(r, s)' /\ Holds(q, s)' => r = q
                    /\ \A u, v \in Users : s \in trash'[u] /\ s \in trash'[v] => u = v
                    /\ \A r \in Requests, u \in Users : ~(Holds(r, s)' /\ s \in trash'[u])
                    /\ s \in Parked' => (\A r \in Requests : ~Holds(r, s)') /\ (\A u \in Users : s \notin trash'[u])
                    /\ ctl'[s] = "open" => s \in Parked' \/ (\E r \in Requests : Holds(r, s)') \/ (\E u \in Users : s \in trash'[u])
  BY DEF OneOwner, Sessions, Requests, Users
<1>1. \A q \in Requests : Holds(q, s)' => Holds(q, s)  OBVIOUS
<1>2. ctl'[s] = "open" => (ctl[s] = "open" /\ \A q \in Requests : Holds(q, s) => Holds(q, s)') \/ \E q \in Requests : Holds(q, s)'  OBVIOUS
<1>3. QED  BY <1>1, <1>2 DEF OneOwner

\* A request gets a session that nobody has.
LEMMA OwnerJoins ==
  ASSUME OneOwner, NEW r \in Requests, NEW x \in Sessions, Parked' = Parked, trash' = trash, ctl' = ctl,
         x \notin Parked, \A u \in Users : x \notin trash[u], \A q \in Requests : ~Holds(q, x),
         \A q \in Requests : \A s \in Sessions : Holds(q, s)' <=> Holds(q, s) \/ (q = r /\ s = x)
  PROVE  OneOwner'
<1> SUFFICES ASSUME NEW s \in Sessions
             PROVE  /\ \A p, q \in Requests : Holds(p, s)' /\ Holds(q, s)' => p = q
                    /\ \A u, v \in Users : s \in trash'[u] /\ s \in trash'[v] => u = v
                    /\ \A q \in Requests, u \in Users : ~(Holds(q, s)' /\ s \in trash'[u])
                    /\ s \in Parked' => (\A q \in Requests : ~Holds(q, s)') /\ (\A u \in Users : s \notin trash'[u])
                    /\ ctl'[s] = "open" => s \in Parked' \/ (\E q \in Requests : Holds(q, s)') \/ (\E u \in Users : s \in trash'[u])
  BY DEF OneOwner, Sessions, Requests, Users
<1>1. \A q \in Requests : Holds(q, s)' <=> Holds(q, s) \/ (q = r /\ s = x)  OBVIOUS
<1>2. QED  BY <1>1 DEF OneOwner

LEMMA DialFreshKeeps == ASSUME FPInv, NEW r \in Requests, DialFresh(r) PROVE FPInv'
<1>0. Parked' = Parked /\ PoolBounded' /\ RanksDiffer'  BY PoolStays DEF DialFresh
<1>1. CASE Proceed(r, "end") /\ UNCHANGED <<leaseVars, sess>>
  <2>1. FTPTypeOK'
    BY <1>0, <1>1, FTPAssumption DEF FPInv, FTPTypeOK, DialFresh, Bind, Proceed, poolVars, connVars, leaseVars, Requests, Sessions, NoSession, Users
  <2>2. Bound'
    BY <1>0, <1>1, FTPAssumption DEF FPInv, FTPTypeOK, Bound, DialFresh, Bind, Proceed, poolVars, connVars, leaseVars, Requests, Sessions, NoSession, Users
  <2>3. OneOwner'
    <3>1. \A q \in Requests : \A s \in Sessions : Holds(q, s)' => Holds(q, s)
      BY <1>0, <1>1 DEF FPInv, FTPTypeOK, Holds, DialFresh, Bind, Proceed, poolVars, connVars, leaseVars
    <3>2. \A s \in Sessions : ctl'[s] = "open" => ctl[s] = "open" /\ \A q \in Requests : Holds(q, s) => Holds(q, s)'
      BY <1>0, <1>1 DEF FPInv, FTPTypeOK, Holds, DialFresh, Bind, Proceed, poolVars, connVars, leaseVars
    <3>3. trash' = trash  BY DEF DialFresh, Bind, Proceed
    <3>4. QED  BY <1>0, <1>1, <3>1, <3>2, <3>3, OwnersStay DEF FPInv
  <2>4. HookKnown'
    BY <1>0, <1>1, FTPAssumption DEF FPInv, FTPTypeOK, HookKnown, DialFresh, Bind, Proceed, poolVars, connVars, leaseVars, Requests, Sessions, NoSession, Users
  <2>5. Custody'
    BY <1>0, <1>1, FTPAssumption DEF FPInv, FTPTypeOK, Bound, OneOwner, HookKnown, Custody, Holds, DialFresh, Bind, Proceed, poolVars, connVars, leaseVars, Requests, Sessions, NoSession, Users
  <2>6. OpenInUse'
    BY <1>0, <1>1, FTPAssumption DEF FPInv, FTPTypeOK, Bound, OneOwner, HookKnown, Custody, OpenInUse, InUsePlaces, ParkedOpen, Holds, DialFresh, Bind, Proceed, poolVars, connVars, leaseVars, Requests, Sessions, NoSession, Users
  <2>7. OwedKnown'
    BY <1>0, <1>1, FTPAssumption DEF FPInv, FTPTypeOK, OneOwner, Holds, OwedKnown, Bound, DialFresh, Bind, Proceed, poolVars, connVars, leaseVars, Requests, Sessions, NoSession, Users
  <2>8. ParkedOpen'
    BY <1>0, <1>1, FTPAssumption DEF FPInv, FTPTypeOK, ParkedOpen, OneOwner, Custody, Holds, Bound, DialFresh, Bind, Proceed, poolVars, connVars, leaseVars, Requests, Sessions, NoSession, Users
  <2>9. QED  BY <1>0, <2>1, <2>2, <2>3, <2>4, <2>5, <2>6, <2>7, <2>8 DEF FPInv
<1>2. CASE Bind(r, r)
  <2>1. FTPTypeOK'
    BY <1>0, <1>2, FTPAssumption DEF FPInv, FTPTypeOK, DialFresh, Bind, Proceed, poolVars, connVars, leaseVars, Requests, Sessions, NoSession, Users
  <2>2. Bound'
    BY <1>0, <1>2, FTPAssumption DEF FPInv, FTPTypeOK, Bound, DialFresh, Bind, Proceed, poolVars, connVars, leaseVars, Requests, Sessions, NoSession, Users
  <2>3. OneOwner'
    <3>1. sess[r] # r /\ r \in Sessions /\ trash' = trash /\ ctl' = ctl
      BY <1>0, <1>2, FTPAssumption DEF FPInv, Bound, DialFresh, Bind, Proceed, Requests, Sessions, NoSession, connVars
    <3>2. r \notin Parked /\ (\A u \in Users : r \notin trash[u]) /\ (\A q \in Requests : ~Holds(q, r))
      BY <3>1 DEF FPInv, Bound, Holds
    <3>3. \A q \in Requests : \A s \in Sessions : Holds(q, s)' <=> Holds(q, s) \/ (q = r /\ s = r)
      BY <1>0, <1>2, <3>1, FTPAssumption DEF FPInv, FTPTypeOK, Bound, Holds, DialFresh, Bind, Proceed, NoSession, Sessions, Requests
    <3>4. QED  BY <1>0, <1>2, <3>1, <3>2, <3>3, OwnerJoins DEF FPInv
  <2>4. HookKnown'
    BY <1>0, <1>2, FTPAssumption DEF FPInv, FTPTypeOK, HookKnown, DialFresh, Bind, Proceed, poolVars, connVars, leaseVars, Requests, Sessions, NoSession, Users
  <2>5. Custody'
    BY <1>0, <1>2, FTPAssumption DEF FPInv, FTPTypeOK, Bound, OneOwner, HookKnown, Custody, Holds, DialFresh, Bind, Proceed, poolVars, connVars, leaseVars, Requests, Sessions, NoSession, Users
  <2>6. OpenInUse'
    BY <1>0, <1>2, FTPAssumption DEF FPInv, FTPTypeOK, Bound, OneOwner, HookKnown, Custody, OpenInUse, InUsePlaces, ParkedOpen, Holds, DialFresh, Bind, Proceed, poolVars, connVars, leaseVars, Requests, Sessions, NoSession, Users
  <2>7. OwedKnown'
    BY <1>0, <1>2, FTPAssumption DEF FPInv, FTPTypeOK, OneOwner, Holds, OwedKnown, Bound, DialFresh, Bind, Proceed, poolVars, connVars, leaseVars, Requests, Sessions, NoSession, Users
  <2>8. ParkedOpen'
    BY <1>0, <1>2, FTPAssumption DEF FPInv, FTPTypeOK, ParkedOpen, OneOwner, Custody, Holds, Bound, DialFresh, Bind, Proceed, poolVars, connVars, leaseVars, Requests, Sessions, NoSession, Users
  <2>9. QED  BY <1>0, <2>1, <2>2, <2>3, <2>4, <2>5, <2>6, <2>7, <2>8 DEF FPInv
<1>3. QED  BY <1>1, <1>2 DEF DialFresh

LEMMA ConnectKeeps == ASSUME FPInv, NEW r \in Requests, Connect(r) PROVE FPInv'
<1>0. Parked' = Parked /\ PoolBounded' /\ RanksDiffer'  BY PoolStays DEF Connect
<1>1. CASE Proceed(r, "fail") /\ UNCHANGED ctl
  <2>1. FTPTypeOK'
    BY <1>0, <1>1, FTPAssumption DEF FPInv, FTPTypeOK, Connect, Proceed, poolVars, connVars, leaseVars, Requests, Sessions, NoSession, Users
  <2>2. Bound'
    BY <1>0, <1>1, FTPAssumption DEF FPInv, FTPTypeOK, Bound, Connect, Proceed, poolVars, connVars, leaseVars, Requests, Sessions, NoSession, Users
  <2>3. OneOwner'
    <3>1. \A q \in Requests : \A s \in Sessions : Holds(q, s)' => Holds(q, s)
      BY <1>0, <1>1 DEF FPInv, FTPTypeOK, Holds, Connect, Proceed, poolVars, connVars, leaseVars
    <3>2. \A s \in Sessions : ctl'[s] = "open" => ctl[s] = "open" /\ \A q \in Requests : Holds(q, s) => Holds(q, s)'
      BY <1>0, <1>1 DEF FPInv, FTPTypeOK, Holds, Connect, Proceed, poolVars, connVars, leaseVars
    <3>3. trash' = trash  BY DEF Connect, Proceed
    <3>4. QED  BY <1>0, <1>1, <3>1, <3>2, <3>3, OwnersStay DEF FPInv
  <2>4. HookKnown'
    BY <1>0, <1>1, FTPAssumption DEF FPInv, FTPTypeOK, HookKnown, Connect, Proceed, poolVars, connVars, leaseVars, Requests, Sessions, NoSession, Users
  <2>5. Custody'
    BY <1>0, <1>1, FTPAssumption DEF FPInv, FTPTypeOK, Bound, OneOwner, HookKnown, Custody, Holds, Connect, Proceed, poolVars, connVars, leaseVars, Requests, Sessions, NoSession, Users
  <2>6. OpenInUse'
    BY <1>0, <1>1, FTPAssumption DEF FPInv, FTPTypeOK, Bound, OneOwner, HookKnown, Custody, OpenInUse, InUsePlaces, ParkedOpen, Holds, Connect, Proceed, poolVars, connVars, leaseVars, Requests, Sessions, NoSession, Users
  <2>7. OwedKnown'
    BY <1>0, <1>1, FTPAssumption DEF FPInv, FTPTypeOK, OneOwner, Holds, OwedKnown, Bound, Connect, Proceed, poolVars, connVars, leaseVars, Requests, Sessions, NoSession, Users
  <2>8. ParkedOpen'
    BY <1>0, <1>1, FTPAssumption DEF FPInv, FTPTypeOK, ParkedOpen, OneOwner, Custody, Holds, Bound, Connect, Proceed, poolVars, connVars, leaseVars, Requests, Sessions, NoSession, Users
  <2>9. QED  BY <1>0, <2>1, <2>2, <2>3, <2>4, <2>5, <2>6, <2>7, <2>8 DEF FPInv
<1>2. CASE ctl[r] = "none" /\ ctl' = [ctl EXCEPT ![r] = "open"] /\ \E l \in {"retr", "fail"} : Proceed(r, l)
  <2>1. FTPTypeOK'
    BY <1>0, <1>2, FTPAssumption DEF FPInv, FTPTypeOK, Connect, Proceed, poolVars, connVars, leaseVars, Requests, Sessions, NoSession, Users
  <2>2. Bound'
    BY <1>0, <1>2, FTPAssumption DEF FPInv, FTPTypeOK, Bound, Connect, Proceed, poolVars, connVars, leaseVars, Requests, Sessions, NoSession, Users
  <2>3. OneOwner'
    <3>1. \A q \in Requests : \A s \in Sessions : Holds(q, s)' => Holds(q, s)
      BY <1>0, <1>2 DEF FPInv, FTPTypeOK, Holds, Connect, Proceed
    <3>2. Holds(r, r)'  BY <1>0, <1>2 DEF FPInv, FTPTypeOK, Bound, Holds, Connect, Proceed
    <3>3. \A s \in Sessions \ {r} : ctl'[s] = "open" => ctl[s] = "open" /\ \A q \in Requests : Holds(q, s) => Holds(q, s)'
      BY <1>0, <1>2 DEF FPInv, FTPTypeOK, Bound, Holds, Connect, Proceed
    <3>4. trash' = trash  BY DEF Connect, Proceed
    <3>5. QED  BY <1>0, <1>2, <3>1, <3>2, <3>3, <3>4, OwnersStay DEF FPInv
  <2>4. HookKnown'
    BY <1>0, <1>2, FTPAssumption DEF FPInv, FTPTypeOK, HookKnown, Connect, Proceed, poolVars, connVars, leaseVars, Requests, Sessions, NoSession, Users
  <2>5. Custody'
    BY <1>0, <1>2, FTPAssumption DEF FPInv, FTPTypeOK, Bound, OneOwner, HookKnown, Custody, Holds, Connect, Proceed, poolVars, connVars, leaseVars, Requests, Sessions, NoSession, Users
  <2>6. OpenInUse'
    BY <1>0, <1>2, FTPAssumption DEF FPInv, FTPTypeOK, Bound, OneOwner, HookKnown, Custody, OpenInUse, InUsePlaces, ParkedOpen, Holds, Connect, Proceed, poolVars, connVars, leaseVars, Requests, Sessions, NoSession, Users
  <2>7. OwedKnown'
    <3>1. SUFFICES ASSUME NEW s \in owed' PROVE \E q \in Requests : (Holds(q, s) /\ place[q] \in {"opened", "begin", "read", "reply", "fail"})'
      BY DEF OwedKnown
    <3>2. s \in owed /\ sess' = sess  BY <1>0, <1>2, <3>1 DEF Connect, Proceed, connVars
    <3>3. PICK q \in Requests : Holds(q, s) /\ place[q] \in {"opened", "begin", "read", "reply", "fail"}  BY <3>2 DEF FPInv, OwedKnown
    <3>4. place'[q] = place[q]  BY <1>0, <1>2, <3>3 DEF FPInv, FTPTypeOK, Connect, Proceed
    <3>5. QED  BY <3>2, <3>3, <3>4 DEF Holds
  <2>8. ParkedOpen'
    BY <1>0, <1>2, FTPAssumption DEF FPInv, FTPTypeOK, ParkedOpen, OneOwner, Custody, Holds, Bound, Connect, Proceed, poolVars, connVars, leaseVars, Requests, Sessions, NoSession, Users
  <2>9. QED  BY <1>0, <2>1, <2>2, <2>3, <2>4, <2>5, <2>6, <2>7, <2>8 DEF FPInv
<1>3. QED  BY <1>1, <1>2 DEF Connect

LEMMA RetrKeeps == ASSUME FPInv, NEW r \in Requests, Retr(r) PROVE FPInv'
<1>0. Parked' = Parked /\ PoolBounded' /\ RanksDiffer'  BY PoolStays DEF Retr
<1>1. CASE ctl[sess[r]] = "open" /\ data' = [data EXCEPT ![r] = "open"] /\ owed' = owed \cup {sess[r]} /\ Proceed(r, "opened")
  <2>1. FTPTypeOK'
    <3>1. sess[r] \in Sessions  BY <1>0, <1>1, FTPAssumption DEF FPInv, FTPTypeOK, Bound, NoSession, Retr, Proceed
    <3>2. QED  BY <1>0, <1>1, <3>1 DEF FPInv, FTPTypeOK, Retr, Proceed, poolVars, connVars, leaseVars
  <2>2. Bound'
    BY <1>0, <1>1, FTPAssumption DEF FPInv, FTPTypeOK, Bound, Retr, Proceed, poolVars, connVars, leaseVars, Requests, Sessions, NoSession, Users
  <2>3. OneOwner'
    <3>1. \A q \in Requests : \A s \in Sessions : Holds(q, s)' => Holds(q, s)
      BY <1>0, <1>1 DEF FPInv, FTPTypeOK, Holds, Retr, Proceed, poolVars, connVars, leaseVars
    <3>2. \A s \in Sessions : ctl'[s] = "open" => ctl[s] = "open" /\ \A q \in Requests : Holds(q, s) => Holds(q, s)'
      BY <1>0, <1>1 DEF FPInv, FTPTypeOK, Holds, Retr, Proceed, poolVars, connVars, leaseVars
    <3>3. trash' = trash  BY DEF Retr, Proceed
    <3>4. QED  BY <1>0, <1>1, <3>1, <3>2, <3>3, OwnersStay DEF FPInv
  <2>4. HookKnown'
    BY <1>0, <1>1, FTPAssumption DEF FPInv, FTPTypeOK, HookKnown, Retr, Proceed, poolVars, connVars, leaseVars, Requests, Sessions, NoSession, Users
  <2>5. Custody'
    BY <1>0, <1>1, FTPAssumption DEF FPInv, FTPTypeOK, Bound, OneOwner, HookKnown, Custody, Holds, Retr, Proceed, poolVars, connVars, leaseVars, Requests, Sessions, NoSession, Users
  <2>6. OpenInUse'
    BY <1>0, <1>1, FTPAssumption DEF FPInv, FTPTypeOK, Bound, OneOwner, HookKnown, Custody, OpenInUse, InUsePlaces, ParkedOpen, Holds, Retr, Proceed, poolVars, connVars, leaseVars, Requests, Sessions, NoSession, Users
  <2>7. OwedKnown'
    BY <1>0, <1>1, FTPAssumption DEF FPInv, FTPTypeOK, OneOwner, Holds, OwedKnown, Bound, Retr, Proceed, poolVars, connVars, leaseVars, Requests, Sessions, NoSession, Users
  <2>8. ParkedOpen'
    BY <1>0, <1>1, FTPAssumption DEF FPInv, FTPTypeOK, ParkedOpen, OneOwner, Custody, Holds, Bound, Retr, Proceed, poolVars, connVars, leaseVars, Requests, Sessions, NoSession, Users
  <2>9. QED  BY <1>0, <2>1, <2>2, <2>3, <2>4, <2>5, <2>6, <2>7, <2>8 DEF FPInv
<1>2. CASE ctl[sess[r]] = "open" /\ Proceed(r, "refused") /\ UNCHANGED <<data, owed>>
  <2>1. FTPTypeOK'
    BY <1>0, <1>2, FTPAssumption DEF FPInv, FTPTypeOK, Retr, Proceed, poolVars, connVars, leaseVars, Requests, Sessions, NoSession, Users
  <2>2. Bound'
    BY <1>0, <1>2, FTPAssumption DEF FPInv, FTPTypeOK, Bound, Retr, Proceed, poolVars, connVars, leaseVars, Requests, Sessions, NoSession, Users
  <2>3. OneOwner'
    <3>1. \A q \in Requests : \A s \in Sessions : Holds(q, s)' => Holds(q, s)
      BY <1>0, <1>2 DEF FPInv, FTPTypeOK, Holds, Retr, Proceed, poolVars, connVars, leaseVars
    <3>2. \A s \in Sessions : ctl'[s] = "open" => ctl[s] = "open" /\ \A q \in Requests : Holds(q, s) => Holds(q, s)'
      BY <1>0, <1>2 DEF FPInv, FTPTypeOK, Holds, Retr, Proceed, poolVars, connVars, leaseVars
    <3>3. trash' = trash  BY DEF Retr, Proceed
    <3>4. QED  BY <1>0, <1>2, <3>1, <3>2, <3>3, OwnersStay DEF FPInv
  <2>4. HookKnown'
    BY <1>0, <1>2, FTPAssumption DEF FPInv, FTPTypeOK, HookKnown, Retr, Proceed, poolVars, connVars, leaseVars, Requests, Sessions, NoSession, Users
  <2>5. Custody'
    BY <1>0, <1>2, FTPAssumption DEF FPInv, FTPTypeOK, Bound, OneOwner, HookKnown, Custody, Holds, Retr, Proceed, poolVars, connVars, leaseVars, Requests, Sessions, NoSession, Users
  <2>6. OpenInUse'
    BY <1>0, <1>2, FTPAssumption DEF FPInv, FTPTypeOK, Bound, OneOwner, HookKnown, Custody, OpenInUse, InUsePlaces, ParkedOpen, Holds, Retr, Proceed, poolVars, connVars, leaseVars, Requests, Sessions, NoSession, Users
  <2>7. OwedKnown'
    <3>1. SUFFICES ASSUME NEW s \in owed' PROVE \E q \in Requests : (Holds(q, s) /\ place[q] \in {"opened", "begin", "read", "reply", "fail"})'
      BY DEF OwedKnown
    <3>2. s \in owed /\ sess' = sess  BY <1>0, <1>2, <3>1 DEF Retr, Proceed, connVars
    <3>3. PICK q \in Requests : Holds(q, s) /\ place[q] \in {"opened", "begin", "read", "reply", "fail"}  BY <3>2 DEF FPInv, OwedKnown
    <3>4. place'[q] = place[q]  BY <1>0, <1>2, <3>3 DEF FPInv, FTPTypeOK, Retr, Proceed
    <3>5. QED  BY <3>2, <3>3, <3>4 DEF Holds
  <2>8. ParkedOpen'
    BY <1>0, <1>2, FTPAssumption DEF FPInv, FTPTypeOK, ParkedOpen, OneOwner, Custody, Holds, Bound, Retr, Proceed, poolVars, connVars, leaseVars, Requests, Sessions, NoSession, Users
  <2>9. QED  BY <1>0, <2>1, <2>2, <2>3, <2>4, <2>5, <2>6, <2>7, <2>8 DEF FPInv
<1>3. CASE Proceed(r, "fail") /\ UNCHANGED <<data, owed>>
  <2>1. FTPTypeOK'
    BY <1>0, <1>3, FTPAssumption DEF FPInv, FTPTypeOK, Retr, Proceed, poolVars, connVars, leaseVars, Requests, Sessions, NoSession, Users
  <2>2. Bound'
    BY <1>0, <1>3, FTPAssumption DEF FPInv, FTPTypeOK, Bound, Retr, Proceed, poolVars, connVars, leaseVars, Requests, Sessions, NoSession, Users
  <2>3. OneOwner'
    <3>1. \A q \in Requests : \A s \in Sessions : Holds(q, s)' => Holds(q, s)
      BY <1>0, <1>3 DEF FPInv, FTPTypeOK, Holds, Retr, Proceed, poolVars, connVars, leaseVars
    <3>2. \A s \in Sessions : ctl'[s] = "open" => ctl[s] = "open" /\ \A q \in Requests : Holds(q, s) => Holds(q, s)'
      BY <1>0, <1>3 DEF FPInv, FTPTypeOK, Holds, Retr, Proceed, poolVars, connVars, leaseVars
    <3>3. trash' = trash  BY DEF Retr, Proceed
    <3>4. QED  BY <1>0, <1>3, <3>1, <3>2, <3>3, OwnersStay DEF FPInv
  <2>4. HookKnown'
    BY <1>0, <1>3, FTPAssumption DEF FPInv, FTPTypeOK, HookKnown, Retr, Proceed, poolVars, connVars, leaseVars, Requests, Sessions, NoSession, Users
  <2>5. Custody'
    BY <1>0, <1>3, FTPAssumption DEF FPInv, FTPTypeOK, Bound, OneOwner, HookKnown, Custody, Holds, Retr, Proceed, poolVars, connVars, leaseVars, Requests, Sessions, NoSession, Users
  <2>6. OpenInUse'
    BY <1>0, <1>3, FTPAssumption DEF FPInv, FTPTypeOK, Bound, OneOwner, HookKnown, Custody, OpenInUse, InUsePlaces, ParkedOpen, Holds, Retr, Proceed, poolVars, connVars, leaseVars, Requests, Sessions, NoSession, Users
  <2>7. OwedKnown'
    BY <1>0, <1>3, FTPAssumption DEF FPInv, FTPTypeOK, OneOwner, Holds, OwedKnown, Bound, Retr, Proceed, poolVars, connVars, leaseVars, Requests, Sessions, NoSession, Users
  <2>8. ParkedOpen'
    BY <1>0, <1>3, FTPAssumption DEF FPInv, FTPTypeOK, ParkedOpen, OneOwner, Custody, Holds, Bound, Retr, Proceed, poolVars, connVars, leaseVars, Requests, Sessions, NoSession, Users
  <2>9. QED  BY <1>0, <2>1, <2>2, <2>3, <2>4, <2>5, <2>6, <2>7, <2>8 DEF FPInv
<1>4. QED  BY <1>1, <1>2, <1>3 DEF Retr

LEMMA CheckCtxKeeps == ASSUME FPInv, NEW r \in Requests, CheckCtx(r) PROVE FPInv'
<1>0. Parked' = Parked /\ PoolBounded' /\ RanksDiffer'  BY PoolStays DEF CheckCtx
<1>1. FTPTypeOK'
  BY <1>0, FTPAssumption DEF FPInv, FTPTypeOK, CheckCtx, Proceed, poolVars, connVars, leaseVars, Requests, Sessions, NoSession, Users
<1>2. Bound'
  BY <1>0, FTPAssumption DEF FPInv, FTPTypeOK, Bound, CheckCtx, Proceed, poolVars, connVars, leaseVars, Requests, Sessions, NoSession, Users
<1>3. OneOwner'
  <2>1. \A q \in Requests : \A s \in Sessions : Holds(q, s)' => Holds(q, s)
    BY <1>0 DEF FPInv, FTPTypeOK, Holds, CheckCtx, Proceed, poolVars, connVars, leaseVars
  <2>2. \A s \in Sessions : ctl'[s] = "open" => ctl[s] = "open" /\ \A q \in Requests : Holds(q, s) => Holds(q, s)'
    BY <1>0 DEF FPInv, FTPTypeOK, Holds, CheckCtx, Proceed, poolVars, connVars, leaseVars
  <2>3. trash' = trash  BY DEF CheckCtx, Proceed
  <2>4. QED  BY <1>0, <2>1, <2>2, <2>3, OwnersStay DEF FPInv
<1>4. HookKnown'
  BY <1>0, FTPAssumption DEF FPInv, FTPTypeOK, HookKnown, CheckCtx, Proceed, poolVars, connVars, leaseVars, Requests, Sessions, NoSession, Users
<1>5. Custody'
  BY <1>0, FTPAssumption DEF FPInv, FTPTypeOK, Bound, OneOwner, HookKnown, Custody, Holds, CheckCtx, Proceed, poolVars, connVars, leaseVars, Requests, Sessions, NoSession, Users
<1>6. OpenInUse'
  BY <1>0, FTPAssumption DEF FPInv, FTPTypeOK, Bound, OneOwner, HookKnown, Custody, OpenInUse, InUsePlaces, ParkedOpen, Holds, CheckCtx, Proceed, poolVars, connVars, leaseVars, Requests, Sessions, NoSession, Users
<1>7. OwedKnown'
  BY <1>0, FTPAssumption DEF FPInv, FTPTypeOK, OneOwner, Holds, OwedKnown, Bound, CheckCtx, Proceed, poolVars, connVars, leaseVars, Requests, Sessions, NoSession, Users
<1>8. ParkedOpen'
  BY <1>0, FTPAssumption DEF FPInv, FTPTypeOK, ParkedOpen, OneOwner, Custody, Holds, Bound, CheckCtx, Proceed, poolVars, connVars, leaseVars, Requests, Sessions, NoSession, Users
<1>9. QED  BY <1>0, <1>1, <1>2, <1>3, <1>4, <1>5, <1>6, <1>7, <1>8 DEF FPInv

LEMMA BeginTransferKeeps == ASSUME FPInv, NEW r \in Requests, BeginTransfer(r) PROVE FPInv'
<1>0. Parked' = Parked /\ PoolBounded' /\ RanksDiffer'  BY PoolStays DEF BeginTransfer
<1>1. FTPTypeOK'
  BY <1>0, FTPAssumption DEF FPInv, FTPTypeOK, BeginTransfer, Proceed, poolVars, connVars, leaseVars, Requests, Sessions, NoSession, Users
<1>2. Bound'
  BY <1>0, FTPAssumption DEF FPInv, FTPTypeOK, Bound, BeginTransfer, Proceed, poolVars, connVars, leaseVars, Requests, Sessions, NoSession, Users
<1>3. OneOwner'
  <2>1. \A q \in Requests : \A s \in Sessions : Holds(q, s)' => Holds(q, s)
    BY <1>0 DEF FPInv, FTPTypeOK, Holds, BeginTransfer, Proceed, poolVars, connVars, leaseVars
  <2>2. \A s \in Sessions : ctl'[s] = "open" => ctl[s] = "open" /\ \A q \in Requests : Holds(q, s) => Holds(q, s)'
    BY <1>0 DEF FPInv, FTPTypeOK, Holds, BeginTransfer, Proceed, poolVars, connVars, leaseVars
  <2>3. trash' = trash  BY DEF BeginTransfer, Proceed
  <2>4. QED  BY <1>0, <2>1, <2>2, <2>3, OwnersStay DEF FPInv
<1>4. HookKnown'
  BY <1>0, FTPAssumption DEF FPInv, FTPTypeOK, HookKnown, BeginTransfer, Proceed, poolVars, connVars, leaseVars, Requests, Sessions, NoSession, Users
<1>5. Custody'
  BY <1>0, FTPAssumption DEF FPInv, FTPTypeOK, Bound, OneOwner, HookKnown, Custody, Holds, BeginTransfer, Proceed, poolVars, connVars, leaseVars, Requests, Sessions, NoSession, Users
<1>6. OpenInUse'
  BY <1>0, FTPAssumption DEF FPInv, FTPTypeOK, Bound, OneOwner, HookKnown, Custody, OpenInUse, InUsePlaces, ParkedOpen, Holds, BeginTransfer, Proceed, poolVars, connVars, leaseVars, Requests, Sessions, NoSession, Users
<1>7. OwedKnown'
  BY <1>0, FTPAssumption DEF FPInv, FTPTypeOK, OneOwner, Holds, OwedKnown, Bound, BeginTransfer, Proceed, poolVars, connVars, leaseVars, Requests, Sessions, NoSession, Users
<1>8. ParkedOpen'
  BY <1>0, FTPAssumption DEF FPInv, FTPTypeOK, ParkedOpen, OneOwner, Custody, Holds, Bound, BeginTransfer, Proceed, poolVars, connVars, leaseVars, Requests, Sessions, NoSession, Users
<1>9. QED  BY <1>0, <1>1, <1>2, <1>3, <1>4, <1>5, <1>6, <1>7, <1>8 DEF FPInv

LEMMA FailKeeps == ASSUME FPInv, NEW r \in Requests, Fail(r) PROVE FPInv'
<1>0. Parked' = Parked /\ PoolBounded' /\ RanksDiffer'  BY PoolStays DEF Fail
<1>1. FTPTypeOK'
  BY <1>0, FTPAssumption DEF FPInv, FTPTypeOK, Fail, StopHook, DiscardOwn, Proceed, Fresh, poolVars, connVars, leaseVars, Requests, Sessions, NoSession, Users
<1>2. Bound'
  BY <1>0, FTPAssumption DEF FPInv, FTPTypeOK, Bound, Fail, StopHook, DiscardOwn, Proceed, Fresh, poolVars, connVars, leaseVars, Requests, Sessions, NoSession, Users
<1>3. OneOwner'
  <2>1. \A q \in Requests : \A s \in Sessions : Holds(q, s)' => Holds(q, s)
    BY <1>0 DEF FPInv, FTPTypeOK, Holds, Fail, StopHook, DiscardOwn, Proceed, Fresh, poolVars, connVars, leaseVars
  <2>2. \A s \in Sessions : ctl'[s] = "open" => ctl[s] = "open" /\ \A q \in Requests : Holds(q, s) => Holds(q, s)'
    BY <1>0 DEF FPInv, FTPTypeOK, Holds, Fail, StopHook, DiscardOwn, Proceed, Fresh, poolVars, connVars, leaseVars
  <2>3. trash' = trash  BY DEF Fail, StopHook, DiscardOwn, Proceed, Fresh
  <2>4. QED  BY <1>0, <2>1, <2>2, <2>3, OwnersStay DEF FPInv
<1>4. HookKnown'
  BY <1>0, FTPAssumption DEF FPInv, FTPTypeOK, HookKnown, Fail, StopHook, DiscardOwn, Proceed, Fresh, poolVars, connVars, leaseVars, Requests, Sessions, NoSession, Users
<1>5. Custody'
  BY <1>0, FTPAssumption DEF FPInv, FTPTypeOK, Bound, OneOwner, HookKnown, Custody, Holds, Fail, StopHook, DiscardOwn, Proceed, Fresh, poolVars, connVars, leaseVars, Requests, Sessions, NoSession, Users
<1>6. OpenInUse'
  <2>1. SUFFICES ASSUME NEW q \in Requests
               PROVE  /\ place'[q] \in InUsePlaces => ctl'[sess'[q]] = "open" \/ phase'[q] = "aborted"
                      /\ place'[q] \in {"read", "reply"} => phase'[q] = "transferring"
                      /\ place'[q] = "put" => phase'[q] = "transferring" \/ hook'[q] = "none"
    BY DEF OpenInUse, InUsePlaces
  <2>2. sess[r] \in Sessions /\ sess' = sess /\ phase' = phase /\ ctl' = [ctl EXCEPT ![sess[r]] = "closed"]
    BY <1>0, FTPAssumption DEF FPInv, FTPTypeOK, Bound, Fail, StopHook, DiscardOwn, Proceed, Fresh, NoSession, Custody
  <2>3. CASE q = r  BY <1>0, <2>2, <2>3 DEF FPInv, FTPTypeOK, OpenInUse, InUsePlaces, HookKnown, Fail, StopHook, DiscardOwn, Proceed, Fresh
  <2>4. CASE q # r
    <3>1. place'[q] = place[q] /\ hook'[q] = hook[q]  BY <1>0, <2>4 DEF FPInv, FTPTypeOK, Fail, StopHook, DiscardOwn, Proceed, Fresh
    <3>2. CASE place[q] \in InUsePlaces
      <4>1. sess[q] \in Sessions /\ Holds(q, sess[q])
        BY <3>2, FTPAssumption DEF FPInv, FTPTypeOK, Bound, NoSession, Holds, InUsePlaces
      <4>2. CASE ctl[sess[q]] # "open"  BY <2>2, <3>1, <3>2, <4>2 DEF FPInv, OpenInUse, InUsePlaces
      <4>3. CASE ctl[sess[q]] = "open"
        <5>1. Holds(r, sess[r]) \/ ctl[sess[r]] = "closed"  BY <1>0 DEF FPInv, FTPTypeOK, Bound, Holds, Custody, Fail, StopHook, DiscardOwn, Proceed, Fresh
        <5>2. sess[q] # sess[r]  BY <2>4, <4>1, <4>3, <5>1 DEF FPInv, OneOwner
        <5>3. ctl'[sess[q]] = "open"  BY <2>2, <4>1, <4>3, <5>2 DEF FPInv, FTPTypeOK
        <5>4. QED  BY <2>2, <3>1, <3>2, <5>3 DEF FPInv, OpenInUse
      <4>4. QED  BY <4>2, <4>3
    <3>3. QED  BY <2>2, <3>1, <3>2 DEF FPInv, OpenInUse, InUsePlaces
  <2>5. QED  BY <2>3, <2>4
<1>7. OwedKnown'
  BY <1>0, FTPAssumption DEF FPInv, FTPTypeOK, OneOwner, Holds, OwedKnown, Bound, Fail, StopHook, DiscardOwn, Proceed, Fresh, poolVars, connVars, leaseVars, Requests, Sessions, NoSession, Users
<1>8. ParkedOpen'
  BY <1>0, FTPAssumption DEF FPInv, FTPTypeOK, ParkedOpen, OneOwner, Custody, Holds, Bound, Fail, StopHook, DiscardOwn, Proceed, Fresh, poolVars, connVars, leaseVars, Requests, Sessions, NoSession, Users
<1>9. QED  BY <1>0, <1>1, <1>2, <1>3, <1>4, <1>5, <1>6, <1>7, <1>8 DEF FPInv

LEMMA RedialKeeps == ASSUME FPInv, NEW r \in Requests, Redial(r) PROVE FPInv'
<1>0. Parked' = Parked /\ PoolBounded' /\ RanksDiffer'  BY PoolStays DEF Redial
<1>1. CASE Proceed(r, "end") /\ UNCHANGED <<leaseVars, sess>>
  <2>1. FTPTypeOK'
    BY <1>0, <1>1, FTPAssumption DEF FPInv, FTPTypeOK, Redial, Bind, Proceed, poolVars, connVars, leaseVars, Requests, Sessions, NoSession, Users
  <2>2. Bound'
    BY <1>0, <1>1, FTPAssumption DEF FPInv, FTPTypeOK, Bound, Redial, Bind, Proceed, poolVars, connVars, leaseVars, Requests, Sessions, NoSession, Users
  <2>3. OneOwner'
    <3>1. \A q \in Requests : \A s \in Sessions : Holds(q, s)' => Holds(q, s)
      BY <1>0, <1>1 DEF FPInv, FTPTypeOK, Holds, Redial, Bind, Proceed, poolVars, connVars, leaseVars
    <3>2. \A s \in Sessions : ctl'[s] = "open" => ctl[s] = "open" /\ \A q \in Requests : Holds(q, s) => Holds(q, s)'
      BY <1>0, <1>1 DEF FPInv, FTPTypeOK, Holds, Redial, Bind, Proceed, poolVars, connVars, leaseVars
    <3>3. trash' = trash  BY DEF Redial, Bind, Proceed
    <3>4. QED  BY <1>0, <1>1, <3>1, <3>2, <3>3, OwnersStay DEF FPInv
  <2>4. HookKnown'
    BY <1>0, <1>1, FTPAssumption DEF FPInv, FTPTypeOK, HookKnown, Redial, Bind, Proceed, poolVars, connVars, leaseVars, Requests, Sessions, NoSession, Users
  <2>5. Custody'
    BY <1>0, <1>1, FTPAssumption DEF FPInv, FTPTypeOK, Bound, OneOwner, HookKnown, Custody, Holds, Redial, Bind, Proceed, poolVars, connVars, leaseVars, Requests, Sessions, NoSession, Users
  <2>6. OpenInUse'
    BY <1>0, <1>1, FTPAssumption DEF FPInv, FTPTypeOK, Bound, OneOwner, HookKnown, Custody, OpenInUse, InUsePlaces, ParkedOpen, Holds, Redial, Bind, Proceed, poolVars, connVars, leaseVars, Requests, Sessions, NoSession, Users
  <2>7. OwedKnown'
    BY <1>0, <1>1, FTPAssumption DEF FPInv, FTPTypeOK, OneOwner, Holds, OwedKnown, Bound, Redial, Bind, Proceed, poolVars, connVars, leaseVars, Requests, Sessions, NoSession, Users
  <2>8. ParkedOpen'
    BY <1>0, <1>1, FTPAssumption DEF FPInv, FTPTypeOK, ParkedOpen, OneOwner, Custody, Holds, Bound, Redial, Bind, Proceed, poolVars, connVars, leaseVars, Requests, Sessions, NoSession, Users
  <2>9. QED  BY <1>0, <2>1, <2>2, <2>3, <2>4, <2>5, <2>6, <2>7, <2>8 DEF FPInv
<1>2. CASE r \notin cancelled /\ Bind(r, r)
  <2>1. FTPTypeOK'
    BY <1>0, <1>2, FTPAssumption DEF FPInv, FTPTypeOK, Redial, Bind, Proceed, poolVars, connVars, leaseVars, Requests, Sessions, NoSession, Users
  <2>2. Bound'
    BY <1>0, <1>2, FTPAssumption DEF FPInv, FTPTypeOK, Bound, Redial, Bind, Proceed, poolVars, connVars, leaseVars, Requests, Sessions, NoSession, Users
  <2>3. OneOwner'
    <3>1. sess[r] # r /\ r \in Sessions /\ trash' = trash /\ ctl' = ctl
      BY <1>0, <1>2, FTPAssumption DEF FPInv, Bound, Redial, Bind, Proceed, Requests, Sessions, NoSession, connVars
    <3>2. r \notin Parked /\ (\A u \in Users : r \notin trash[u]) /\ (\A q \in Requests : ~Holds(q, r))
      BY <3>1 DEF FPInv, Bound, Holds
    <3>3. \A q \in Requests : \A s \in Sessions : Holds(q, s)' <=> Holds(q, s) \/ (q = r /\ s = r)
      BY <1>0, <1>2, <3>1, FTPAssumption DEF FPInv, FTPTypeOK, Bound, Holds, Redial, Bind, Proceed, NoSession, Sessions, Requests
    <3>4. QED  BY <1>0, <1>2, <3>1, <3>2, <3>3, OwnerJoins DEF FPInv
  <2>4. HookKnown'
    BY <1>0, <1>2, FTPAssumption DEF FPInv, FTPTypeOK, HookKnown, Redial, Bind, Proceed, poolVars, connVars, leaseVars, Requests, Sessions, NoSession, Users
  <2>5. Custody'
    BY <1>0, <1>2, FTPAssumption DEF FPInv, FTPTypeOK, Bound, OneOwner, HookKnown, Custody, Holds, Redial, Bind, Proceed, poolVars, connVars, leaseVars, Requests, Sessions, NoSession, Users
  <2>6. OpenInUse'
    BY <1>0, <1>2, FTPAssumption DEF FPInv, FTPTypeOK, Bound, OneOwner, HookKnown, Custody, OpenInUse, InUsePlaces, ParkedOpen, Holds, Redial, Bind, Proceed, poolVars, connVars, leaseVars, Requests, Sessions, NoSession, Users
  <2>7. OwedKnown'
    BY <1>0, <1>2, FTPAssumption DEF FPInv, FTPTypeOK, OneOwner, Holds, OwedKnown, Bound, Redial, Bind, Proceed, poolVars, connVars, leaseVars, Requests, Sessions, NoSession, Users
  <2>8. ParkedOpen'
    BY <1>0, <1>2, FTPAssumption DEF FPInv, FTPTypeOK, ParkedOpen, OneOwner, Custody, Holds, Bound, Redial, Bind, Proceed, poolVars, connVars, leaseVars, Requests, Sessions, NoSession, Users
  <2>9. QED  BY <1>0, <2>1, <2>2, <2>3, <2>4, <2>5, <2>6, <2>7, <2>8 DEF FPInv
<1>3. QED  BY <1>1, <1>2 DEF Redial

LEMMA RefusedKeeps == ASSUME FPInv, NEW r \in Requests, Refused(r) PROVE FPInv'
<1>0. Parked' = Parked /\ PoolBounded' /\ RanksDiffer'  BY PoolStays DEF Refused
<1>1. CASE hook[r] = "armed" /\ Proceed(r, "put") /\ UNCHANGED <<connVars, data>>
  <2>1. FTPTypeOK'
    BY <1>0, <1>1, FTPAssumption DEF FPInv, FTPTypeOK, Refused, StopHook, DiscardOwn, Proceed, poolVars, connVars, leaseVars, Requests, Sessions, NoSession, Users
  <2>2. Bound'
    BY <1>0, <1>1, FTPAssumption DEF FPInv, FTPTypeOK, Bound, Refused, StopHook, DiscardOwn, Proceed, poolVars, connVars, leaseVars, Requests, Sessions, NoSession, Users
  <2>3. OneOwner'
    <3>1. \A q \in Requests : \A s \in Sessions : Holds(q, s)' => Holds(q, s)
      BY <1>0, <1>1 DEF FPInv, FTPTypeOK, Holds, Refused, StopHook, DiscardOwn, Proceed, poolVars, connVars, leaseVars
    <3>2. \A s \in Sessions : ctl'[s] = "open" => ctl[s] = "open" /\ \A q \in Requests : Holds(q, s) => Holds(q, s)'
      BY <1>0, <1>1 DEF FPInv, FTPTypeOK, Holds, Refused, StopHook, DiscardOwn, Proceed, poolVars, connVars, leaseVars
    <3>3. trash' = trash  BY DEF Refused, StopHook, DiscardOwn, Proceed
    <3>4. QED  BY <1>0, <1>1, <3>1, <3>2, <3>3, OwnersStay DEF FPInv
  <2>4. HookKnown'
    BY <1>0, <1>1, FTPAssumption DEF FPInv, FTPTypeOK, HookKnown, Refused, StopHook, DiscardOwn, Proceed, poolVars, connVars, leaseVars, Requests, Sessions, NoSession, Users
  <2>5. Custody'
    BY <1>0, <1>1, FTPAssumption DEF FPInv, FTPTypeOK, Bound, OneOwner, HookKnown, Custody, Holds, Refused, StopHook, DiscardOwn, Proceed, poolVars, connVars, leaseVars, Requests, Sessions, NoSession, Users
  <2>6. OpenInUse'
    BY <1>0, <1>1, FTPAssumption DEF FPInv, FTPTypeOK, Bound, OneOwner, HookKnown, Custody, OpenInUse, InUsePlaces, ParkedOpen, Holds, Refused, StopHook, DiscardOwn, Proceed, poolVars, connVars, leaseVars, Requests, Sessions, NoSession, Users
  <2>7. OwedKnown'
    <3>1. SUFFICES ASSUME NEW s \in owed' PROVE \E q \in Requests : (Holds(q, s) /\ place[q] \in {"opened", "begin", "read", "reply", "fail"})'
      BY DEF OwedKnown
    <3>2. s \in owed /\ sess' = sess  BY <1>0, <1>1, <3>1 DEF Refused, StopHook, DiscardOwn, Proceed, connVars
    <3>3. PICK q \in Requests : Holds(q, s) /\ place[q] \in {"opened", "begin", "read", "reply", "fail"}  BY <3>2 DEF FPInv, OwedKnown
    <3>4. place'[q] = place[q]  BY <1>0, <1>1, <3>3 DEF FPInv, FTPTypeOK, Refused, StopHook, DiscardOwn, Proceed
    <3>5. QED  BY <3>2, <3>3, <3>4 DEF Holds
  <2>8. ParkedOpen'
    BY <1>0, <1>1, FTPAssumption DEF FPInv, FTPTypeOK, ParkedOpen, OneOwner, Custody, Holds, Bound, Refused, StopHook, DiscardOwn, Proceed, poolVars, connVars, leaseVars, Requests, Sessions, NoSession, Users
  <2>9. QED  BY <1>0, <2>1, <2>2, <2>3, <2>4, <2>5, <2>6, <2>7, <2>8 DEF FPInv
<1>2. CASE hook[r] # "armed" /\ DiscardOwn(r) /\ Proceed(r, "end")
  <2>1. FTPTypeOK'
    BY <1>0, <1>2, FTPAssumption DEF FPInv, FTPTypeOK, Refused, StopHook, DiscardOwn, Proceed, poolVars, connVars, leaseVars, Requests, Sessions, NoSession, Users
  <2>2. Bound'
    BY <1>0, <1>2, FTPAssumption DEF FPInv, FTPTypeOK, Bound, Refused, StopHook, DiscardOwn, Proceed, poolVars, connVars, leaseVars, Requests, Sessions, NoSession, Users
  <2>3. OneOwner'
    <3>1. \A q \in Requests : \A s \in Sessions : Holds(q, s)' => Holds(q, s)
      BY <1>0, <1>2 DEF FPInv, FTPTypeOK, Holds, Refused, StopHook, DiscardOwn, Proceed, poolVars, connVars, leaseVars
    <3>2. \A s \in Sessions : ctl'[s] = "open" => ctl[s] = "open" /\ \A q \in Requests : Holds(q, s) => Holds(q, s)'
      BY <1>0, <1>2 DEF FPInv, FTPTypeOK, Holds, Refused, StopHook, DiscardOwn, Proceed, poolVars, connVars, leaseVars
    <3>3. trash' = trash  BY DEF Refused, StopHook, DiscardOwn, Proceed
    <3>4. QED  BY <1>0, <1>2, <3>1, <3>2, <3>3, OwnersStay DEF FPInv
  <2>4. HookKnown'
    BY <1>0, <1>2, FTPAssumption DEF FPInv, FTPTypeOK, HookKnown, Refused, StopHook, DiscardOwn, Proceed, poolVars, connVars, leaseVars, Requests, Sessions, NoSession, Users
  <2>5. Custody'
    BY <1>0, <1>2, FTPAssumption DEF FPInv, FTPTypeOK, Bound, OneOwner, HookKnown, Custody, Holds, Refused, StopHook, DiscardOwn, Proceed, poolVars, connVars, leaseVars, Requests, Sessions, NoSession, Users
  <2>6. OpenInUse'
    <3>1. SUFFICES ASSUME NEW q \in Requests
                 PROVE  /\ place'[q] \in InUsePlaces => ctl'[sess'[q]] = "open" \/ phase'[q] = "aborted"
                        /\ place'[q] \in {"read", "reply"} => phase'[q] = "transferring"
                        /\ place'[q] = "put" => phase'[q] = "transferring" \/ hook'[q] = "none"
      BY DEF OpenInUse, InUsePlaces
    <3>2. sess[r] \in Sessions /\ sess' = sess /\ phase' = phase /\ ctl' = [ctl EXCEPT ![sess[r]] = "closed"]
      BY <1>0, <1>2, FTPAssumption DEF FPInv, FTPTypeOK, Bound, Refused, StopHook, DiscardOwn, Proceed, NoSession, Custody
    <3>3. CASE q = r  BY <1>0, <1>2, <3>2, <3>3 DEF FPInv, FTPTypeOK, OpenInUse, InUsePlaces, HookKnown, Refused, StopHook, DiscardOwn, Proceed
    <3>4. CASE q # r
      <4>1. place'[q] = place[q] /\ hook'[q] = hook[q]  BY <1>0, <1>2, <3>4 DEF FPInv, FTPTypeOK, Refused, StopHook, DiscardOwn, Proceed
      <4>2. CASE place[q] \in InUsePlaces
        <5>1. sess[q] \in Sessions /\ Holds(q, sess[q])
          BY <4>2, FTPAssumption DEF FPInv, FTPTypeOK, Bound, NoSession, Holds, InUsePlaces
        <5>2. CASE ctl[sess[q]] # "open"  BY <3>2, <4>1, <4>2, <5>2 DEF FPInv, OpenInUse, InUsePlaces
        <5>3. CASE ctl[sess[q]] = "open"
          <6>1. Holds(r, sess[r]) \/ ctl[sess[r]] = "closed"  BY <1>0, <1>2 DEF FPInv, FTPTypeOK, Bound, Holds, Custody, Refused, StopHook, DiscardOwn, Proceed
          <6>2. sess[q] # sess[r]  BY <3>4, <5>1, <5>3, <6>1 DEF FPInv, OneOwner
          <6>3. ctl'[sess[q]] = "open"  BY <3>2, <5>1, <5>3, <6>2 DEF FPInv, FTPTypeOK
          <6>4. QED  BY <3>2, <4>1, <4>2, <6>3 DEF FPInv, OpenInUse
        <5>4. QED  BY <5>2, <5>3
      <4>3. QED  BY <3>2, <4>1, <4>2 DEF FPInv, OpenInUse, InUsePlaces
    <3>5. QED  BY <3>3, <3>4
  <2>7. OwedKnown'
    BY <1>0, <1>2, FTPAssumption DEF FPInv, FTPTypeOK, OneOwner, Holds, OwedKnown, Bound, Refused, StopHook, DiscardOwn, Proceed, poolVars, connVars, leaseVars, Requests, Sessions, NoSession, Users
  <2>8. ParkedOpen'
    BY <1>0, <1>2, FTPAssumption DEF FPInv, FTPTypeOK, ParkedOpen, OneOwner, Custody, Holds, Bound, Refused, StopHook, DiscardOwn, Proceed, poolVars, connVars, leaseVars, Requests, Sessions, NoSession, Users
  <2>9. QED  BY <1>0, <2>1, <2>2, <2>3, <2>4, <2>5, <2>6, <2>7, <2>8 DEF FPInv
<1>3. QED  BY <1>1, <1>2 DEF Refused

LEMMA CloseReaderKeeps == ASSUME FPInv, NEW r \in Requests, CloseReader(r) PROVE FPInv'
<1>0. Parked' = Parked /\ PoolBounded' /\ RanksDiffer'  BY PoolStays DEF CloseReader
<1>1. FTPTypeOK'
  BY <1>0, FTPAssumption DEF FPInv, FTPTypeOK, CloseReader, StopHook, Proceed, poolVars, connVars, leaseVars, Requests, Sessions, NoSession, Users
<1>2. Bound'
  BY <1>0, FTPAssumption DEF FPInv, FTPTypeOK, Bound, CloseReader, StopHook, Proceed, poolVars, connVars, leaseVars, Requests, Sessions, NoSession, Users
<1>3. OneOwner'
  <2>1. \A q \in Requests : \A s \in Sessions : Holds(q, s)' => Holds(q, s)
    BY <1>0 DEF FPInv, FTPTypeOK, Holds, CloseReader, StopHook, Proceed, poolVars, connVars, leaseVars
  <2>2. \A s \in Sessions : ctl'[s] = "open" => ctl[s] = "open" /\ \A q \in Requests : Holds(q, s) => Holds(q, s)'
    BY <1>0 DEF FPInv, FTPTypeOK, Holds, CloseReader, StopHook, Proceed, poolVars, connVars, leaseVars
  <2>3. trash' = trash  BY DEF CloseReader, StopHook, Proceed
  <2>4. QED  BY <1>0, <2>1, <2>2, <2>3, OwnersStay DEF FPInv
<1>4. HookKnown'
  BY <1>0, FTPAssumption DEF FPInv, FTPTypeOK, HookKnown, CloseReader, StopHook, Proceed, poolVars, connVars, leaseVars, Requests, Sessions, NoSession, Users
<1>5. Custody'
  BY <1>0, FTPAssumption DEF FPInv, FTPTypeOK, Bound, OneOwner, HookKnown, Custody, Holds, CloseReader, StopHook, Proceed, poolVars, connVars, leaseVars, Requests, Sessions, NoSession, Users
<1>6. OpenInUse'
  BY <1>0, FTPAssumption DEF FPInv, FTPTypeOK, Bound, OneOwner, HookKnown, Custody, OpenInUse, InUsePlaces, ParkedOpen, Holds, CloseReader, StopHook, Proceed, poolVars, connVars, leaseVars, Requests, Sessions, NoSession, Users
<1>7. OwedKnown'
  BY <1>0, FTPAssumption DEF FPInv, FTPTypeOK, OneOwner, Holds, OwedKnown, Bound, CloseReader, StopHook, Proceed, poolVars, connVars, leaseVars, Requests, Sessions, NoSession, Users
<1>8. ParkedOpen'
  BY <1>0, FTPAssumption DEF FPInv, FTPTypeOK, ParkedOpen, OneOwner, Custody, Holds, Bound, CloseReader, StopHook, Proceed, poolVars, connVars, leaseVars, Requests, Sessions, NoSession, Users
<1>9. QED  BY <1>0, <1>1, <1>2, <1>3, <1>4, <1>5, <1>6, <1>7, <1>8 DEF FPInv

LEMMA ReplyKeeps == ASSUME FPInv, NEW r \in Requests, Reply(r) PROVE FPInv'
<1>0. Parked' = Parked /\ PoolBounded' /\ RanksDiffer'  BY PoolStays DEF Reply
<1>1. CASE ctl[sess[r]] = "open" /\ owed' = owed \ {sess[r]} /\ Proceed(r, "put") /\ data' = [data EXCEPT ![r] = "closed"] /\ UNCHANGED ctl
  <2>1. FTPTypeOK'
    BY <1>0, <1>1, FTPAssumption DEF FPInv, FTPTypeOK, Reply, DiscardOwn, Proceed, poolVars, connVars, leaseVars, Requests, Sessions, NoSession, Users
  <2>2. Bound'
    BY <1>0, <1>1, FTPAssumption DEF FPInv, FTPTypeOK, Bound, Reply, DiscardOwn, Proceed, poolVars, connVars, leaseVars, Requests, Sessions, NoSession, Users
  <2>3. OneOwner'
    <3>1. \A q \in Requests : \A s \in Sessions : Holds(q, s)' => Holds(q, s)
      BY <1>0, <1>1 DEF FPInv, FTPTypeOK, Holds, Reply, DiscardOwn, Proceed, poolVars, connVars, leaseVars
    <3>2. \A s \in Sessions : ctl'[s] = "open" => ctl[s] = "open" /\ \A q \in Requests : Holds(q, s) => Holds(q, s)'
      BY <1>0, <1>1 DEF FPInv, FTPTypeOK, Holds, Reply, DiscardOwn, Proceed, poolVars, connVars, leaseVars
    <3>3. trash' = trash  BY DEF Reply, DiscardOwn, Proceed
    <3>4. QED  BY <1>0, <1>1, <3>1, <3>2, <3>3, OwnersStay DEF FPInv
  <2>4. HookKnown'
    BY <1>0, <1>1, FTPAssumption DEF FPInv, FTPTypeOK, HookKnown, Reply, DiscardOwn, Proceed, poolVars, connVars, leaseVars, Requests, Sessions, NoSession, Users
  <2>5. Custody'
    BY <1>0, <1>1, FTPAssumption DEF FPInv, FTPTypeOK, Bound, OneOwner, HookKnown, Custody, Holds, Reply, DiscardOwn, Proceed, poolVars, connVars, leaseVars, Requests, Sessions, NoSession, Users
  <2>6. OpenInUse'
    BY <1>0, <1>1, FTPAssumption DEF FPInv, FTPTypeOK, Bound, OneOwner, HookKnown, Custody, OpenInUse, InUsePlaces, ParkedOpen, Holds, Reply, DiscardOwn, Proceed, poolVars, connVars, leaseVars, Requests, Sessions, NoSession, Users
  <2>7. OwedKnown'
    BY <1>0, <1>1, FTPAssumption DEF FPInv, FTPTypeOK, OneOwner, Holds, OwedKnown, Bound, Reply, DiscardOwn, Proceed, poolVars, connVars, leaseVars, Requests, Sessions, NoSession, Users
  <2>8. ParkedOpen'
    BY <1>0, <1>1, FTPAssumption DEF FPInv, FTPTypeOK, ParkedOpen, OneOwner, Custody, Holds, Bound, Reply, DiscardOwn, Proceed, poolVars, connVars, leaseVars, Requests, Sessions, NoSession, Users
  <2>9. QED  BY <1>0, <2>1, <2>2, <2>3, <2>4, <2>5, <2>6, <2>7, <2>8 DEF FPInv
<1>2. CASE DiscardOwn(r) /\ Proceed(r, "end")
  <2>1. FTPTypeOK'
    BY <1>0, <1>2, FTPAssumption DEF FPInv, FTPTypeOK, Reply, DiscardOwn, Proceed, poolVars, connVars, leaseVars, Requests, Sessions, NoSession, Users
  <2>2. Bound'
    BY <1>0, <1>2, FTPAssumption DEF FPInv, FTPTypeOK, Bound, Reply, DiscardOwn, Proceed, poolVars, connVars, leaseVars, Requests, Sessions, NoSession, Users
  <2>3. OneOwner'
    <3>1. \A q \in Requests : \A s \in Sessions : Holds(q, s)' => Holds(q, s)
      BY <1>0, <1>2 DEF FPInv, FTPTypeOK, Holds, Reply, DiscardOwn, Proceed, poolVars, connVars, leaseVars
    <3>2. \A s \in Sessions : ctl'[s] = "open" => ctl[s] = "open" /\ \A q \in Requests : Holds(q, s) => Holds(q, s)'
      BY <1>0, <1>2 DEF FPInv, FTPTypeOK, Holds, Reply, DiscardOwn, Proceed, poolVars, connVars, leaseVars
    <3>3. trash' = trash  BY DEF Reply, DiscardOwn, Proceed
    <3>4. QED  BY <1>0, <1>2, <3>1, <3>2, <3>3, OwnersStay DEF FPInv
  <2>4. HookKnown'
    BY <1>0, <1>2, FTPAssumption DEF FPInv, FTPTypeOK, HookKnown, Reply, DiscardOwn, Proceed, poolVars, connVars, leaseVars, Requests, Sessions, NoSession, Users
  <2>5. Custody'
    BY <1>0, <1>2, FTPAssumption DEF FPInv, FTPTypeOK, Bound, OneOwner, HookKnown, Custody, Holds, Reply, DiscardOwn, Proceed, poolVars, connVars, leaseVars, Requests, Sessions, NoSession, Users
  <2>6. OpenInUse'
    <3>1. SUFFICES ASSUME NEW q \in Requests
                 PROVE  /\ place'[q] \in InUsePlaces => ctl'[sess'[q]] = "open" \/ phase'[q] = "aborted"
                        /\ place'[q] \in {"read", "reply"} => phase'[q] = "transferring"
                        /\ place'[q] = "put" => phase'[q] = "transferring" \/ hook'[q] = "none"
      BY DEF OpenInUse, InUsePlaces
    <3>2. sess[r] \in Sessions /\ sess' = sess /\ phase' = phase /\ ctl' = [ctl EXCEPT ![sess[r]] = "closed"]
      BY <1>0, <1>2, FTPAssumption DEF FPInv, FTPTypeOK, Bound, Reply, DiscardOwn, Proceed, NoSession, Custody
    <3>3. CASE q = r  BY <1>0, <1>2, <3>2, <3>3 DEF FPInv, FTPTypeOK, OpenInUse, InUsePlaces, HookKnown, Reply, DiscardOwn, Proceed
    <3>4. CASE q # r
      <4>1. place'[q] = place[q] /\ hook'[q] = hook[q]  BY <1>0, <1>2, <3>4 DEF FPInv, FTPTypeOK, Reply, DiscardOwn, Proceed
      <4>2. CASE place[q] \in InUsePlaces
        <5>1. sess[q] \in Sessions /\ Holds(q, sess[q])
          BY <4>2, FTPAssumption DEF FPInv, FTPTypeOK, Bound, NoSession, Holds, InUsePlaces
        <5>2. CASE ctl[sess[q]] # "open"  BY <3>2, <4>1, <4>2, <5>2 DEF FPInv, OpenInUse, InUsePlaces
        <5>3. CASE ctl[sess[q]] = "open"
          <6>1. Holds(r, sess[r]) \/ ctl[sess[r]] = "closed"  BY <1>0, <1>2 DEF FPInv, FTPTypeOK, Bound, Holds, Custody, Reply, DiscardOwn, Proceed
          <6>2. sess[q] # sess[r]  BY <3>4, <5>1, <5>3, <6>1 DEF FPInv, OneOwner
          <6>3. ctl'[sess[q]] = "open"  BY <3>2, <5>1, <5>3, <6>2 DEF FPInv, FTPTypeOK
          <6>4. QED  BY <3>2, <4>1, <4>2, <6>3 DEF FPInv, OpenInUse
        <5>4. QED  BY <5>2, <5>3
      <4>3. QED  BY <3>2, <4>1, <4>2 DEF FPInv, OpenInUse, InUsePlaces
    <3>5. QED  BY <3>3, <3>4
  <2>7. OwedKnown'
    BY <1>0, <1>2, FTPAssumption DEF FPInv, FTPTypeOK, OneOwner, Holds, OwedKnown, Bound, Reply, DiscardOwn, Proceed, poolVars, connVars, leaseVars, Requests, Sessions, NoSession, Users
  <2>8. ParkedOpen'
    <3>1. Holds(r, sess[r]) /\ sess[r] \in Sessions  BY <1>0, <1>2, FTPAssumption DEF FPInv, FTPTypeOK, Bound, Holds, NoSession, Reply, DiscardOwn, Proceed
    <3>2. sess[r] \notin Parked  BY <3>1 DEF FPInv, OneOwner
    <3>3. QED  BY <1>0, <1>2, <3>1, <3>2 DEF FPInv, FTPTypeOK, ParkedOpen, Reply, DiscardOwn, Proceed, Parked
  <2>9. QED  BY <1>0, <2>1, <2>2, <2>3, <2>4, <2>5, <2>6, <2>7, <2>8 DEF FPInv
<1>3. QED  BY <1>1, <1>2 DEF Reply

LEMMA CancelRequestKeeps == ASSUME FPInv, NEW r \in Requests, CancelRequest(r) PROVE FPInv'
<1>0. Parked' = Parked /\ PoolBounded' /\ RanksDiffer'  BY PoolStays DEF CancelRequest
<1>1. FTPTypeOK'
  BY <1>0, FTPAssumption DEF FPInv, FTPTypeOK, CancelRequest, poolVars, connVars, leaseVars, Requests, Sessions, NoSession, Users
<1>2. Bound'
  BY <1>0, FTPAssumption DEF FPInv, FTPTypeOK, Bound, CancelRequest, poolVars, connVars, leaseVars, Requests, Sessions, NoSession, Users
<1>3. OneOwner'
  <2>1. \A q \in Requests : \A s \in Sessions : Holds(q, s)' => Holds(q, s)
    BY <1>0 DEF FPInv, FTPTypeOK, Holds, CancelRequest, poolVars, connVars, leaseVars
  <2>2. \A s \in Sessions : ctl'[s] = "open" => ctl[s] = "open" /\ \A q \in Requests : Holds(q, s) => Holds(q, s)'
    BY <1>0 DEF FPInv, FTPTypeOK, Holds, CancelRequest, poolVars, connVars, leaseVars
  <2>3. trash' = trash  BY DEF CancelRequest
  <2>4. QED  BY <1>0, <2>1, <2>2, <2>3, OwnersStay DEF FPInv
<1>4. HookKnown'
  BY <1>0, FTPAssumption DEF FPInv, FTPTypeOK, HookKnown, CancelRequest, poolVars, connVars, leaseVars, Requests, Sessions, NoSession, Users
<1>5. Custody'
  BY <1>0, FTPAssumption DEF FPInv, FTPTypeOK, Bound, OneOwner, HookKnown, Custody, Holds, CancelRequest, poolVars, connVars, leaseVars, Requests, Sessions, NoSession, Users
<1>6. OpenInUse'
  BY <1>0, FTPAssumption DEF FPInv, FTPTypeOK, Bound, OneOwner, HookKnown, Custody, OpenInUse, InUsePlaces, ParkedOpen, Holds, CancelRequest, poolVars, connVars, leaseVars, Requests, Sessions, NoSession, Users
<1>7. OwedKnown'
  BY <1>0, FTPAssumption DEF FPInv, FTPTypeOK, OneOwner, Holds, OwedKnown, Bound, CancelRequest, poolVars, connVars, leaseVars, Requests, Sessions, NoSession, Users
<1>8. ParkedOpen'
  BY <1>0, FTPAssumption DEF FPInv, FTPTypeOK, ParkedOpen, OneOwner, Custody, Holds, Bound, CancelRequest, poolVars, connVars, leaseVars, Requests, Sessions, NoSession, Users
<1>9. QED  BY <1>0, <1>1, <1>2, <1>3, <1>4, <1>5, <1>6, <1>7, <1>8 DEF FPInv

LEMMA HookStartsKeeps == ASSUME FPInv, NEW r \in Requests, HookStarts(r) PROVE FPInv'
<1>0. Parked' = Parked /\ PoolBounded' /\ RanksDiffer'  BY PoolStays DEF HookStarts
<1>1. FTPTypeOK'
  BY <1>0, FTPAssumption DEF FPInv, FTPTypeOK, HookStarts, poolVars, connVars, leaseVars, Requests, Sessions, NoSession, Users
<1>2. Bound'
  BY <1>0, FTPAssumption DEF FPInv, FTPTypeOK, Bound, HookStarts, poolVars, connVars, leaseVars, Requests, Sessions, NoSession, Users
<1>3. OneOwner'
  <2>1. \A q \in Requests : \A s \in Sessions : Holds(q, s)' => Holds(q, s)
    BY <1>0 DEF FPInv, FTPTypeOK, Holds, HookStarts, poolVars, connVars, leaseVars
  <2>2. \A s \in Sessions : ctl'[s] = "open" => ctl[s] = "open" /\ \A q \in Requests : Holds(q, s) => Holds(q, s)'
    BY <1>0 DEF FPInv, FTPTypeOK, Holds, HookStarts, poolVars, connVars, leaseVars
  <2>3. trash' = trash  BY DEF HookStarts
  <2>4. QED  BY <1>0, <2>1, <2>2, <2>3, OwnersStay DEF FPInv
<1>4. HookKnown'
  BY <1>0, FTPAssumption DEF FPInv, FTPTypeOK, HookKnown, HookStarts, poolVars, connVars, leaseVars, Requests, Sessions, NoSession, Users
<1>5. Custody'
  BY <1>0, FTPAssumption DEF FPInv, FTPTypeOK, Bound, OneOwner, HookKnown, Custody, Holds, HookStarts, poolVars, connVars, leaseVars, Requests, Sessions, NoSession, Users
<1>6. OpenInUse'
  BY <1>0, FTPAssumption DEF FPInv, FTPTypeOK, Bound, OneOwner, HookKnown, Custody, OpenInUse, InUsePlaces, ParkedOpen, Holds, HookStarts, poolVars, connVars, leaseVars, Requests, Sessions, NoSession, Users
<1>7. OwedKnown'
  BY <1>0, FTPAssumption DEF FPInv, FTPTypeOK, OneOwner, Holds, OwedKnown, Bound, HookStarts, poolVars, connVars, leaseVars, Requests, Sessions, NoSession, Users
<1>8. ParkedOpen'
  BY <1>0, FTPAssumption DEF FPInv, FTPTypeOK, ParkedOpen, OneOwner, Custody, Holds, Bound, HookStarts, poolVars, connVars, leaseVars, Requests, Sessions, NoSession, Users
<1>9. QED  BY <1>0, <1>1, <1>2, <1>3, <1>4, <1>5, <1>6, <1>7, <1>8 DEF FPInv

LEMMA HookDataKeeps == ASSUME FPInv, NEW r \in Requests, HookData(r) PROVE FPInv'
<1>0. Parked' = Parked /\ PoolBounded' /\ RanksDiffer'  BY PoolStays DEF HookData
<1>1. FTPTypeOK'
  BY <1>0, FTPAssumption DEF FPInv, FTPTypeOK, HookData, poolVars, connVars, leaseVars, Requests, Sessions, NoSession, Users
<1>2. Bound'
  BY <1>0, FTPAssumption DEF FPInv, FTPTypeOK, Bound, HookData, poolVars, connVars, leaseVars, Requests, Sessions, NoSession, Users
<1>3. OneOwner'
  <2>1. \A q \in Requests : \A s \in Sessions : Holds(q, s)' => Holds(q, s)
    BY <1>0 DEF FPInv, FTPTypeOK, Holds, HookData, poolVars, connVars, leaseVars
  <2>2. \A s \in Sessions : ctl'[s] = "open" => ctl[s] = "open" /\ \A q \in Requests : Holds(q, s) => Holds(q, s)'
    BY <1>0 DEF FPInv, FTPTypeOK, Holds, HookData, poolVars, connVars, leaseVars
  <2>3. trash' = trash  BY DEF HookData
  <2>4. QED  BY <1>0, <2>1, <2>2, <2>3, OwnersStay DEF FPInv
<1>4. HookKnown'
  BY <1>0, FTPAssumption DEF FPInv, FTPTypeOK, HookKnown, HookData, poolVars, connVars, leaseVars, Requests, Sessions, NoSession, Users
<1>5. Custody'
  BY <1>0, FTPAssumption DEF FPInv, FTPTypeOK, Bound, OneOwner, HookKnown, Custody, Holds, HookData, poolVars, connVars, leaseVars, Requests, Sessions, NoSession, Users
<1>6. OpenInUse'
  BY <1>0, FTPAssumption DEF FPInv, FTPTypeOK, Bound, OneOwner, HookKnown, Custody, OpenInUse, InUsePlaces, ParkedOpen, Holds, HookData, poolVars, connVars, leaseVars, Requests, Sessions, NoSession, Users
<1>7. OwedKnown'
  BY <1>0, FTPAssumption DEF FPInv, FTPTypeOK, OneOwner, Holds, OwedKnown, Bound, HookData, poolVars, connVars, leaseVars, Requests, Sessions, NoSession, Users
<1>8. ParkedOpen'
  BY <1>0, FTPAssumption DEF FPInv, FTPTypeOK, ParkedOpen, OneOwner, Custody, Holds, Bound, HookData, poolVars, connVars, leaseVars, Requests, Sessions, NoSession, Users
<1>9. QED  BY <1>0, <1>1, <1>2, <1>3, <1>4, <1>5, <1>6, <1>7, <1>8 DEF FPInv

LEMMA HookPhaseKeeps == ASSUME FPInv, NEW r \in Requests, HookPhase(r) PROVE FPInv'
<1>0. Parked' = Parked /\ PoolBounded' /\ RanksDiffer'  BY PoolStays DEF HookPhase
<1>1. FTPTypeOK'
  BY <1>0, FTPAssumption DEF FPInv, FTPTypeOK, HookPhase, poolVars, connVars, leaseVars, Requests, Sessions, NoSession, Users
<1>2. Bound'
  BY <1>0, FTPAssumption DEF FPInv, FTPTypeOK, Bound, HookPhase, poolVars, connVars, leaseVars, Requests, Sessions, NoSession, Users
<1>3. OneOwner'
  <2>1. \A q \in Requests : \A s \in Sessions : Holds(q, s)' => Holds(q, s)
    BY <1>0 DEF FPInv, FTPTypeOK, Holds, HookPhase, poolVars, connVars, leaseVars
  <2>2. \A s \in Sessions : ctl'[s] = "open" => ctl[s] = "open" /\ \A q \in Requests : Holds(q, s) => Holds(q, s)'
    BY <1>0 DEF FPInv, FTPTypeOK, Holds, HookPhase, poolVars, connVars, leaseVars
  <2>3. trash' = trash  BY DEF HookPhase
  <2>4. QED  BY <1>0, <2>1, <2>2, <2>3, OwnersStay DEF FPInv
<1>4. HookKnown'
  BY <1>0, FTPAssumption DEF FPInv, FTPTypeOK, HookKnown, HookPhase, poolVars, connVars, leaseVars, Requests, Sessions, NoSession, Users
<1>5. Custody'
  BY <1>0, FTPAssumption DEF FPInv, FTPTypeOK, Bound, OneOwner, HookKnown, Custody, Holds, HookPhase, poolVars, connVars, leaseVars, Requests, Sessions, NoSession, Users
<1>6. OpenInUse'
  BY <1>0, FTPAssumption DEF FPInv, FTPTypeOK, Bound, OneOwner, HookKnown, Custody, OpenInUse, InUsePlaces, ParkedOpen, Holds, HookPhase, poolVars, connVars, leaseVars, Requests, Sessions, NoSession, Users
<1>7. OwedKnown'
  BY <1>0, FTPAssumption DEF FPInv, FTPTypeOK, OneOwner, Holds, OwedKnown, Bound, HookPhase, poolVars, connVars, leaseVars, Requests, Sessions, NoSession, Users
<1>8. ParkedOpen'
  BY <1>0, FTPAssumption DEF FPInv, FTPTypeOK, ParkedOpen, OneOwner, Custody, Holds, Bound, HookPhase, poolVars, connVars, leaseVars, Requests, Sessions, NoSession, Users
<1>9. QED  BY <1>0, <1>1, <1>2, <1>3, <1>4, <1>5, <1>6, <1>7, <1>8 DEF FPInv

LEMMA HookCtlKeeps == ASSUME FPInv, NEW r \in Requests, HookCtl(r) PROVE FPInv'
<1>0. Parked' = Parked /\ PoolBounded' /\ RanksDiffer'  BY PoolStays DEF HookCtl
<1>1. FTPTypeOK'
  BY <1>0, FTPAssumption DEF FPInv, FTPTypeOK, HookCtl, poolVars, connVars, leaseVars, Requests, Sessions, NoSession, Users
<1>2. Bound'
  BY <1>0, FTPAssumption DEF FPInv, FTPTypeOK, Bound, HookCtl, poolVars, connVars, leaseVars, Requests, Sessions, NoSession, Users
<1>3. OneOwner'
  <2>1. \A q \in Requests : \A s \in Sessions : Holds(q, s)' => Holds(q, s)
    BY <1>0 DEF FPInv, FTPTypeOK, Holds, HookCtl, poolVars, connVars, leaseVars
  <2>2. \A s \in Sessions : ctl'[s] = "open" => ctl[s] = "open" /\ \A q \in Requests : Holds(q, s) => Holds(q, s)'
    BY <1>0 DEF FPInv, FTPTypeOK, Holds, HookCtl, poolVars, connVars, leaseVars
  <2>3. trash' = trash  BY DEF HookCtl
  <2>4. QED  BY <1>0, <2>1, <2>2, <2>3, OwnersStay DEF FPInv
<1>4. HookKnown'
  BY <1>0, FTPAssumption DEF FPInv, FTPTypeOK, HookKnown, HookCtl, poolVars, connVars, leaseVars, Requests, Sessions, NoSession, Users
<1>5. Custody'
  BY <1>0, FTPAssumption DEF FPInv, FTPTypeOK, Bound, OneOwner, HookKnown, Custody, Holds, HookCtl, poolVars, connVars, leaseVars, Requests, Sessions, NoSession, Users
<1>6. OpenInUse'
  <2>1. SUFFICES ASSUME NEW q \in Requests
               PROVE  /\ place'[q] \in InUsePlaces => ctl'[sess'[q]] = "open" \/ phase'[q] = "aborted"
                      /\ place'[q] \in {"read", "reply"} => phase'[q] = "transferring"
                      /\ place'[q] = "put" => phase'[q] = "transferring" \/ hook'[q] = "none"
    BY DEF OpenInUse, InUsePlaces
  <2>2. sess[r] \in Sessions /\ sess' = sess /\ phase' = phase /\ ctl' = [ctl EXCEPT ![sess[r]] = "closed"]
    BY <1>0, FTPAssumption DEF FPInv, FTPTypeOK, Bound, HookCtl, NoSession, Custody
  <2>3. CASE q = r  BY <1>0, <2>2, <2>3 DEF FPInv, FTPTypeOK, OpenInUse, InUsePlaces, HookKnown, HookCtl
  <2>4. CASE q # r
    <3>1. place'[q] = place[q] /\ hook'[q] = hook[q]  BY <1>0, <2>4 DEF FPInv, FTPTypeOK, HookCtl
    <3>2. CASE place[q] \in InUsePlaces
      <4>1. sess[q] \in Sessions /\ Holds(q, sess[q])
        BY <3>2, FTPAssumption DEF FPInv, FTPTypeOK, Bound, NoSession, Holds, InUsePlaces
      <4>2. CASE ctl[sess[q]] # "open"  BY <2>2, <3>1, <3>2, <4>2 DEF FPInv, OpenInUse, InUsePlaces
      <4>3. CASE ctl[sess[q]] = "open"
        <5>1. Holds(r, sess[r]) \/ ctl[sess[r]] = "closed"  BY <1>0 DEF FPInv, FTPTypeOK, Bound, Holds, Custody, HookCtl
        <5>2. sess[q] # sess[r]  BY <2>4, <4>1, <4>3, <5>1 DEF FPInv, OneOwner
        <5>3. ctl'[sess[q]] = "open"  BY <2>2, <4>1, <4>3, <5>2 DEF FPInv, FTPTypeOK
        <5>4. QED  BY <2>2, <3>1, <3>2, <5>3 DEF FPInv, OpenInUse
      <4>4. QED  BY <4>2, <4>3
    <3>3. QED  BY <2>2, <3>1, <3>2 DEF FPInv, OpenInUse, InUsePlaces
  <2>5. QED  BY <2>3, <2>4
<1>7. OwedKnown'
  BY <1>0, FTPAssumption DEF FPInv, FTPTypeOK, OneOwner, Holds, OwedKnown, Bound, HookCtl, poolVars, connVars, leaseVars, Requests, Sessions, NoSession, Users
<1>8. ParkedOpen'
  BY <1>0, FTPAssumption DEF FPInv, FTPTypeOK, ParkedOpen, OneOwner, Custody, Holds, Bound, HookCtl, poolVars, connVars, leaseVars, Requests, Sessions, NoSession, Users
<1>9. QED  BY <1>0, <1>1, <1>2, <1>3, <1>4, <1>5, <1>6, <1>7, <1>8 DEF FPInv


\* Sessions move out of the pool, to a request or to a heap to be discarded.
LEMMA OwnersMove ==
  ASSUME OneOwner, NEW S, NEW H, NEW u \in Users, S \subseteq Parked, H \subseteq S, u \in Requests \/ H = {},
         Parked' = Parked \ S, ctl' = ctl,
         \A q \in Requests : \A s \in Sessions : Holds(q, s)' <=> Holds(q, s) \/ (q = u /\ s \in H),
         \A v \in Users : \A s \in Sessions : s \in trash'[v] <=> s \in trash[v] \/ (v = u /\ s \in S \ H)
  PROVE  OneOwner'
<1> SUFFICES ASSUME NEW s \in Sessions
             PROVE  /\ \A p, q \in Requests : Holds(p, s)' /\ Holds(q, s)' => p = q
                    /\ \A w, v \in Users : s \in trash'[w] /\ s \in trash'[v] => w = v
                    /\ \A q \in Requests, v \in Users : ~(Holds(q, s)' /\ s \in trash'[v])
                    /\ s \in Parked' => (\A q \in Requests : ~Holds(q, s)') /\ (\A v \in Users : s \notin trash'[v])
                    /\ ctl'[s] = "open" => s \in Parked' \/ (\E q \in Requests : Holds(q, s)') \/ (\E v \in Users : s \in trash'[v])
  BY DEF OneOwner, Sessions, Requests, Users
<1>1. \A q \in Requests : Holds(q, s)' <=> Holds(q, s) \/ (q = u /\ s \in H)  OBVIOUS
<1>2. \A v \in Users : s \in trash'[v] <=> s \in trash[v] \/ (v = u /\ s \in S \ H)  OBVIOUS
<1>3. QED  BY <1>1, <1>2 DEF OneOwner

LEMMA PoolGetKeeps == ASSUME FPInv, NEW r \in Requests, PoolGet(r) PROVE FPInv'
<1>1. PICK A, live : A = Of(want[r]) /\ live = A \ expired  OBVIOUS
<1>2. A \in SUBSET Parked /\ A \in SUBSET Sessions /\ place[r] = "start"  BY <1>1 DEF Of, Parked, PoolGet, MayStart
<1>3. trash[r] = {} /\ sess[r] = NoSession /\ r \in Users  BY <1>2 DEF FPInv, Bound, Users
<1>4. CASE live = {}
  <2>1. /\ TakeOut(A) /\ trash' = [trash EXCEPT ![r] = A] /\ place' = [place EXCEPT ![r] = "dial"]
        /\ UNCHANGED <<phase, data, hook, sess, ctl, owed, want, cancelled>>
    BY <1>1, <1>4 DEF PoolGet, Proceed, connVars, leaseVars
  <2>2. /\ ftpPool' \in [Sessions -> 0 .. NumRequests] /\ expired' \subseteq Parked' /\ ftpPoolIdle' \in Nat
        /\ Parked' = Parked \ A /\ PoolBounded' /\ RanksDiffer'
    BY <1>2, <2>1, TakeOutKeeps DEF FPInv
  <2>3. FTPTypeOK'  BY <1>2, <2>1, <2>2 DEF FPInv, FTPTypeOK
  <2>4. Bound'  BY <1>2, <1>3, <2>1, <2>2 DEF FPInv, FTPTypeOK, Bound, NoSession
  <2>5. \A q \in Requests : \A s \in Sessions : Holds(q, s)' <=> Holds(q, s)
    BY <1>2, <1>3, <2>1, FTPAssumption DEF FPInv, FTPTypeOK, Holds, NoSession, Sessions, Requests
  <2>6. \A v \in Users : \A s \in Sessions : s \in trash'[v] <=> s \in trash[v] \/ (v = r /\ s \in A)
    BY <1>2, <1>3, <2>1 DEF FPInv, FTPTypeOK
  <2>8. OneOwner'
    <3> PICK H : H = {}  OBVIOUS
    <3>1. \A q \in Requests : \A s \in Sessions : Holds(q, s)' <=> Holds(q, s) \/ (q = r /\ s \in H)
      BY <2>5
    <3>2. \A v \in Users : \A s \in Sessions : s \in trash'[v] <=> s \in trash[v] \/ (v = r /\ s \in A \ H)
      BY <2>6
    <3>3. A \subseteq Parked /\ H \subseteq A /\ Parked' = Parked \ A /\ ctl' = ctl /\ OneOwner
      BY <1>2, <2>1, <2>2 DEF FPInv
    <3>4. QED  BY ONLY <1>3, <3>1, <3>2, <3>3, r \in Requests, OwnersMove
  <2>9. HookKnown' /\ ParkedOpen'  BY <2>1, <2>2 DEF FPInv, HookKnown, ParkedOpen
  <2>10. Custody'  BY <1>2, <1>3, <2>1, FTPAssumption DEF FPInv, FTPTypeOK, Custody, Holds, NoSession, Sessions, Requests
  <2>11. OpenInUse'  BY <1>2, <2>1 DEF FPInv, FTPTypeOK, OpenInUse, InUsePlaces
  <2>12. OwedKnown'  BY <1>2, <2>1 DEF FPInv, FTPTypeOK, OwedKnown, Holds
  <2>13. QED  BY <2>2, <2>3, <2>4, <2>8, <2>9, <2>10, <2>11, <2>12 DEF FPInv
<1>5. CASE live # {}
  <2>1. PICK x \in live : x = Newest(live)
    <3>1. live \in SUBSET Sessions  BY <1>1, <1>2
    <3>2. Newest(live) \in live  BY <1>5, <3>1, SomeOldest DEF FPInv
    <3>3. QED  BY <3>2
  <2>2. x \in Parked /\ x \in Sessions /\ want[x] = want[r] /\ {x} \in SUBSET Parked  BY <1>1, <1>2, <2>1 DEF Of
  <2>3. x # r  BY <1>3, <2>2, FTPAssumption DEF FPInv, Bound, NoSession, Requests, Sessions
  <2>4. /\ TakeOut({x}) /\ sess' = [sess EXCEPT ![r] = x] /\ place' = [place EXCEPT ![r] = "retr"]
        /\ phase' = [phase EXCEPT ![r] = "opening"] /\ data' = [data EXCEPT ![r] = "none"] /\ hook' = [hook EXCEPT ![r] = "armed"]
        /\ UNCHANGED <<ctl, owed, want, cancelled, trash>>
    BY <1>1, <1>5, <2>1, <2>3 DEF PoolGet, Bind, Proceed, connVars
  <2>5. /\ ftpPool' \in [Sessions -> 0 .. NumRequests] /\ expired' \subseteq Parked' /\ ftpPoolIdle' \in Nat
        /\ Parked' = Parked \ {x} /\ PoolBounded' /\ RanksDiffer'
    BY <2>2, <2>4, TakeOutKeeps DEF FPInv
  <2>6. FTPTypeOK'  BY <2>2, <2>4, <2>5 DEF FPInv, FTPTypeOK
  <2>7. Bound'  BY <1>2, <1>3, <2>2, <2>3, <2>4, <2>5, FTPAssumption DEF FPInv, FTPTypeOK, Bound, NoSession, Sessions, Requests
  <2>8. \A q \in Requests : \A s \in Sessions : Holds(q, s)' <=> Holds(q, s) \/ (q = r /\ s = x)
    BY <1>2, <1>3, <2>2, <2>4, FTPAssumption DEF FPInv, FTPTypeOK, Holds, NoSession, Sessions, Requests
  <2>10. OneOwner'
    <3> PICK H : H = {x}  OBVIOUS
    <3>1. \A q \in Requests : \A s \in Sessions : Holds(q, s)' <=> Holds(q, s) \/ (q = r /\ s \in H)
      BY <2>8
    <3>2. \A v \in Users : \A s \in Sessions : s \in trash'[v] <=> s \in trash[v] \/ (v = r /\ s \in H \ H)
      BY <2>4
    <3>3. H \subseteq Parked /\ H \subseteq H /\ Parked' = Parked \ H /\ ctl' = ctl /\ OneOwner
      BY <2>2, <2>4, <2>5 DEF FPInv
    <3>4. QED  BY ONLY <1>3, <3>1, <3>2, <3>3, r \in Requests, OwnersMove
  <2>11. HookKnown'
    <3>1. hook[r] \notin {"ctl", "done", "data", "phase"} \/ r \in cancelled  BY DEF FPInv, HookKnown
    <3>2. QED  BY <2>4, <3>1 DEF FPInv, FTPTypeOK, HookKnown
  <2>12. ParkedOpen'  BY <2>4, <2>5 DEF FPInv, ParkedOpen
  <2>13. Custody'
    <3>1. Holds(r, x)'  BY <2>2, <2>8
    <3>2. QED  BY <1>3, <2>2, <2>4, <2>8, <3>1, FTPAssumption DEF FPInv, FTPTypeOK, Custody, Holds, NoSession, Sessions, Requests
  <2>14. OpenInUse'  BY <1>2, <2>2, <2>4 DEF FPInv, FTPTypeOK, OpenInUse, InUsePlaces, ParkedOpen
  <2>15. OwedKnown'  BY <1>2, <2>4 DEF FPInv, FTPTypeOK, OwedKnown, Holds
  <2>16. QED  BY <2>5, <2>6, <2>7, <2>10, <2>11, <2>12, <2>13, <2>14, <2>15 DEF FPInv
<1>6. QED  BY <1>4, <1>5

LEMMA PoolEvictKeeps == ASSUME FPInv, PoolEvict PROVE FPInv'
<1>1. PICK u : u = PoolJanitor  OBVIOUS
<1>2. /\ trash[u] = {} /\ TakeOut(expired) /\ trash' = [trash EXCEPT ![u] = expired] /\ u \in Users /\ u \notin Requests
      /\ UNCHANGED <<ctl, owed, phase, data, hook, want, sess, place, cancelled>>
  BY <1>1, FTPAssumption DEF PoolEvict, connVars, leaseVars, Users
<1>3. expired \in SUBSET Parked /\ expired \in SUBSET Sessions  BY DEF FPInv, FTPTypeOK, Parked
<1>4. /\ ftpPool' \in [Sessions -> 0 .. NumRequests] /\ expired' \subseteq Parked' /\ ftpPoolIdle' \in Nat
      /\ Parked' = Parked \ expired /\ PoolBounded' /\ RanksDiffer'
  BY <1>2, <1>3, TakeOutKeeps DEF FPInv
<1>5. FTPTypeOK'  BY <1>2, <1>3, <1>4 DEF FPInv, FTPTypeOK
<1>6. Bound'  BY <1>2, <1>3, <1>4 DEF FPInv, FTPTypeOK, Bound
<1>7. \A q \in Requests : \A s \in Sessions : Holds(q, s)' <=> Holds(q, s)  BY <1>2 DEF Holds
<1>8. \A v \in Users : \A s \in Sessions : s \in trash'[v] <=> s \in trash[v] \/ (v = u /\ s \in expired)
  BY <1>2, <1>3 DEF FPInv, FTPTypeOK
<1>9. OneOwner'
  <2> PICK S, H : S = expired /\ H = {}  OBVIOUS
  <2>1. \A q \in Requests : \A s \in Sessions : Holds(q, s)' <=> Holds(q, s) \/ (q = u /\ s \in H)
    BY <1>7
  <2>2. \A v \in Users : \A s \in Sessions : s \in trash'[v] <=> s \in trash[v] \/ (v = u /\ s \in S \ H)
    BY <1>8
  <2>3. S \subseteq Parked /\ H \subseteq S /\ H = {} /\ Parked' = Parked \ S /\ ctl' = ctl /\ OneOwner
    BY <1>2, <1>3, <1>4 DEF FPInv
  <2>4. QED  BY ONLY <1>2, <2>1, <2>2, <2>3, OwnersMove
<1>10. HookKnown' /\ Custody' /\ OpenInUse' /\ OwedKnown' /\ ParkedOpen'
  BY <1>2, <1>4 DEF FPInv, HookKnown, Custody, OpenInUse, OwedKnown, ParkedOpen, Holds
<1>11. QED  BY <1>4, <1>5, <1>6, <1>9, <1>10 DEF FPInv

LEMMA ExpireKeeps == ASSUME FPInv, Expire PROVE FPInv'
<1>1. Parked' = Parked /\ UNCHANGED <<ftpPool, ftpPoolIdle, ctl, owed, phase, data, hook, want, sess, place, cancelled, trash>>
  BY DEF Expire, connVars, leaseVars, Parked
<1>2. expired' \subseteq Parked
  <2>1. PICK S : S = Parked \ expired  OBVIOUS
  <2>2. S \in SUBSET Sessions /\ S # {}  BY <2>1 DEF Parked, Expire
  <2>3. Oldest(S) \in S  BY <2>2, SomeOldest DEF FPInv
  <2>4. QED  BY <2>1, <2>3 DEF Expire, FPInv, FTPTypeOK
<1>3. FTPTypeOK'  BY <1>1, <1>2 DEF FPInv, FTPTypeOK
<1>4. PoolBounded' /\ RanksDiffer'  BY <1>1 DEF FPInv, PoolBounded, RanksDiffer, Of
<1>5. Bound' /\ HookKnown' /\ Custody' /\ OpenInUse' /\ OwedKnown' /\ ParkedOpen'
  BY <1>1 DEF FPInv, Bound, HookKnown, Custody, OpenInUse, OwedKnown, ParkedOpen, Holds
<1>6. OneOwner'
  <2>1. \A q \in Requests : \A s \in Sessions : Holds(q, s)' <=> Holds(q, s)  BY <1>1 DEF Holds
  <2>2. QED  BY <1>1, <2>1, OwnersStay DEF FPInv
<1>7. QED  BY <1>3, <1>4, <1>5, <1>6 DEF FPInv

LEMMA DiscardPooledKeeps == ASSUME FPInv, NEW u \in Users, DiscardPooled(u) PROVE FPInv'
<1>1. PICK x \in trash[u] : /\ ctl' = [ctl EXCEPT ![x] = "closed"] /\ trash' = [trash EXCEPT ![u] = trash[u] \ {x}]
                            /\ UNCHANGED <<ftpPool, expired, ftpPoolIdle, owed, phase, data, hook, want, sess, place, cancelled>>
  BY DEF DiscardPooled, poolVars, leaseVars
<1>2. Parked' = Parked /\ PoolBounded' /\ RanksDiffer'  BY <1>1, PoolStays DEF poolVars
<1>3. x \in Sessions /\ x \notin Parked /\ \A r \in Requests : ~Holds(r, x)
  <2>1. x \in Sessions  BY <1>1 DEF FPInv, FTPTypeOK
  <2>2. QED  BY <1>1, <2>1 DEF FPInv, OneOwner
<1>4. sess[x] = x  BY <1>1, <1>3 DEF FPInv, Bound
<1>5. FTPTypeOK'  BY <1>1, <1>2, <1>3 DEF FPInv, FTPTypeOK
<1>6. Bound'  BY <1>1, <1>2, <1>3, <1>4 DEF FPInv, FTPTypeOK, Bound
<1>7. \A q \in Requests : \A s \in Sessions : Holds(q, s)' <=> Holds(q, s)  BY <1>1 DEF Holds
<1>8. OneOwner'
  <2> SUFFICES ASSUME NEW s \in Sessions
               PROVE  /\ \A p, q \in Requests : Holds(p, s)' /\ Holds(q, s)' => p = q
                      /\ \A w, v \in Users : s \in trash'[w] /\ s \in trash'[v] => w = v
                      /\ \A q \in Requests, v \in Users : ~(Holds(q, s)' /\ s \in trash'[v])
                      /\ s \in Parked' => (\A q \in Requests : ~Holds(q, s)') /\ (\A v \in Users : s \notin trash'[v])
                      /\ ctl'[s] = "open" => s \in Parked' \/ (\E q \in Requests : Holds(q, s)') \/ (\E v \in Users : s \in trash'[v])
    BY DEF OneOwner, Sessions, Requests, Users
  <2>1. \A v \in Users : s \in trash'[v] <=> s \in trash[v] /\ ~(v = u /\ s = x)  BY <1>1 DEF FPInv, FTPTypeOK
  <2>2. ctl'[s] = "open" => ctl[s] = "open" /\ s # x  BY <1>1, <1>3 DEF FPInv, FTPTypeOK
  <2>3. QED  BY <1>2, <1>7, <2>1, <2>2 DEF FPInv, OneOwner
<1>9. HookKnown' /\ OwedKnown'  BY <1>1 DEF FPInv, HookKnown, OwedKnown, Holds
<1>10. ParkedOpen'  BY <1>1, <1>2, <1>3 DEF FPInv, FTPTypeOK, ParkedOpen, Parked
<1>11. Custody'
  <2>1. \A s \in Sessions : ctl[s] = "closed" => ctl'[s] = "closed"  BY <1>1, <1>3 DEF FPInv, FTPTypeOK
  <2>2. QED  BY <1>1, <2>1 DEF FPInv, Custody, Holds
<1>12. OpenInUse'
  <2>1. ASSUME NEW q \in Requests, place[q] \in InUsePlaces PROVE sess[q] # x
    <3>1. ~Holds(q, x)  BY <1>3
    <3>2. QED  BY <2>1, <3>1 DEF Holds, InUsePlaces
  <2>2. QED  BY <1>1, <1>3, <2>1 DEF FPInv, FTPTypeOK, OpenInUse
<1>13. QED  BY <1>2, <1>5, <1>6, <1>8, <1>9, <1>10, <1>11, <1>12 DEF FPInv


LEMMA PoolPutKeeps == ASSUME FPInv, NEW r \in Requests, PoolPut(r) PROVE FPInv'
<1>1. PICK k, x, out, V : k = want[r] /\ x = sess[r] /\ out = Evicted(k) /\ V = Parked \ out  OBVIOUS
<1>2. /\ place[r] = "put" /\ place' = [place EXCEPT ![r] = "end"] /\ data' = [data EXCEPT ![r] = "closed"]
      /\ ftpPool' = [Ranked(V) EXCEPT ![x] = Cardinality(V) + 1] /\ expired' = expired \ out
      /\ ftpPoolIdle' = ftpPoolIdle - Cardinality(out) + 1 /\ trash' = [trash EXCEPT ![r] = out]
      /\ UNCHANGED <<ctl, owed, phase, hook, want, sess, cancelled>>
  BY <1>1 DEF PoolPut, Proceed, connVars
<1>3. k \in Keys /\ out \in SUBSET Parked /\ V \in SUBSET Parked /\ Cardinality(V) < MaxIdle /\ Cardinality(Of(k) \ out) < MaxPerKey
  <2>1. k \in Keys  BY <1>1 DEF FPInv, FTPTypeOK
  <2>2. QED  BY <1>1, <2>1, EvictedMakesRoom DEF FPInv
<1>4. /\ x \in Sessions /\ Holds(r, x) /\ x \notin Parked /\ trash[r] = {} /\ want[x] = k /\ sess[x] = x
      /\ r \in Users /\ \A u \in Users : x \notin trash[u]
  <2>1. x \in Sessions /\ Holds(r, x) /\ trash[r] = {} /\ want[x] = k /\ r \in Users
    BY <1>1, <1>2, FTPAssumption DEF FPInv, FTPTypeOK, Bound, NoSession, Holds, Users
  <2>2. x \notin Parked /\ \A u \in Users : x \notin trash[u]  BY <2>1 DEF FPInv, OneOwner
  <2>3. sess[x] = x  BY <1>1, <2>1 DEF FPInv, Bound
  <2>4. QED  BY <2>1, <2>2, <2>3
<1>5. Parked \in SUBSET Sessions /\ out \in SUBSET Sessions /\ V \in SUBSET Sessions  BY <1>3 DEF Parked
<1>6. /\ IsFiniteSet(V) /\ Cardinality(V) \in Nat /\ IsFiniteSet(V \cup {x}) /\ Cardinality(V \cup {x}) = Cardinality(V) + 1
      /\ Cardinality(V) + 1 \in 0 .. NumRequests
  <2>1. IsFiniteSet(V) /\ Cardinality(V) \in Nat  BY <1>5, FewSessions
  <2>2. x \notin V  BY <1>3, <1>4
  <2>3. IsFiniteSet(V \cup {x}) /\ Cardinality(V \cup {x}) = Cardinality(V) + 1  BY ONLY <2>1, <2>2, FS_AddElement
  <2>4. V \cup {x} \in SUBSET Sessions  BY <1>4, <1>5
  <2>5. Cardinality(V \cup {x}) \in 0 .. NumRequests  BY <2>4, FewSessions
  <2>6. QED  BY <2>1, <2>3, <2>5
<1>7. PICK f : f = Ranked(V)  OBVIOUS
<1>8. /\ f \in [Sessions -> 0 .. NumRequests] /\ (\A s \in Sessions : f[s] > 0 <=> s \in V)
      /\ (\A s \in V : f[s] <= Cardinality(V)) /\ \A s, t \in V : f[s] = f[t] => s = t
  BY <1>3, <1>7, RankedKeeps DEF FPInv
<1>9. ftpPool' = [f EXCEPT ![x] = Cardinality(V) + 1] /\ ftpPool' \in [Sessions -> 0 .. NumRequests]
  BY <1>2, <1>4, <1>6, <1>7, <1>8
<1>10. Parked' = V \cup {x}
  <2>1. \A s \in Sessions : ftpPool'[s] > 0 <=> s \in V \cup {x}  BY <1>4, <1>6, <1>8, <1>9
  <2>2. QED  BY <1>4, <1>5, <2>1 DEF Parked
<1>11. RanksDiffer'
  <2> SUFFICES ASSUME NEW s \in V \cup {x}, NEW t \in V \cup {x}, ftpPool'[s] = ftpPool'[t] PROVE s = t
    BY <1>10 DEF RanksDiffer
  <2>1. \A w \in V : w # x /\ w \in Sessions /\ ftpPool'[w] = f[w] /\ f[w] <= Cardinality(V) /\ f[w] \in Nat
    BY <1>3, <1>4, <1>5, <1>8, <1>9
  <2>2. ftpPool'[x] = Cardinality(V) + 1  BY <1>4, <1>8, <1>9
  <2>3. QED  BY <1>6, <1>8, <2>1, <2>2
<1>12. expired' \subseteq Parked'  BY <1>1, <1>2, <1>10 DEF FPInv, FTPTypeOK
<1>13. Cardinality(V) = Cardinality(Parked) - Cardinality(out) /\ Cardinality(Parked) \in Nat /\ Cardinality(out) \in Nat
  <2>1. PICK P : P = Parked  OBVIOUS
  <2>2. IsFiniteSet(P) /\ Cardinality(P) \in Nat /\ Cardinality(out) \in Nat  BY <1>5, <2>1, FewSessions
  <2>3. Cardinality(P \ out) = Cardinality(P) - Cardinality(P \cap out)  BY ONLY <2>2, FS_Difference
  <2>4. P \cap out = out /\ V = P \ out  BY <1>1, <1>3, <2>1
  <2>5. QED  BY <2>1, <2>2, <2>3, <2>4
<1>14. ftpPoolIdle' = Cardinality(V) + 1 /\ ftpPoolIdle' \in Nat /\ ftpPoolIdle' <= MaxIdle
  BY <1>2, <1>3, <1>6, <1>13, FTPAssumption DEF FPInv, PoolBounded
<1>15. ASSUME NEW j \in Keys PROVE Cardinality(Of(j)') <= MaxPerKey
  <2>1. PICK A, B : A = Of(j) /\ B = Of(j)'  OBVIOUS
  <2>2. A \in SUBSET Sessions /\ B \in SUBSET Sessions /\ Cardinality(A) <= MaxPerKey
    BY <1>4, <1>5, <1>10, <2>1 DEF Of, Parked, FPInv, PoolBounded
  <2>3. IsFiniteSet(A) /\ Cardinality(A) \in Nat /\ Cardinality(B) \in Nat /\ MaxPerKey \in Nat  BY <2>2, FewSessions, FTPAssumption
  <2>4. CASE j = k
    <3>1. PICK C : C = A \ out  OBVIOUS
    <3>2. IsFiniteSet(C) /\ Cardinality(C) \in Nat /\ Cardinality(C) < MaxPerKey
      <4>1. C \in SUBSET Sessions  BY <2>2, <3>1
      <4>2. QED  BY <1>3, <2>1, <2>4, <3>1, <4>1, FewSessions
    <3>3. B = C \cup {x}  BY <1>1, <1>2, <1>4, <1>10, <2>1, <2>4, <3>1 DEF Of
    <3>4. Cardinality(C \cup {x}) = IF x \in C THEN Cardinality(C) ELSE Cardinality(C) + 1  BY ONLY <3>2, FS_AddElement
    <3>5. QED  BY <2>1, <2>3, <3>2, <3>3, <3>4
  <2>5. CASE j # k
    <3>1. B \in SUBSET A  BY <1>1, <1>2, <1>4, <1>10, <2>1, <2>5 DEF Of
    <3>2. Cardinality(B) <= Cardinality(A)  BY ONLY <2>3, <3>1, FS_Subset
    <3>3. QED  BY <2>1, <2>2, <2>3, <3>2
  <2>6. QED  BY <2>4, <2>5
<1>16. PoolBounded'  BY <1>6, <1>10, <1>14, <1>15 DEF PoolBounded
<1>17. FTPTypeOK'  BY <1>2, <1>4, <1>5, <1>9, <1>12, <1>14 DEF FPInv, FTPTypeOK
<1>18. Bound'  BY <1>2, <1>3, <1>4, <1>5, <1>10 DEF FPInv, FTPTypeOK, Bound
<1>19. \A q \in Requests : \A s \in Sessions : Holds(q, s)' <=> Holds(q, s) /\ q # r  BY <1>2 DEF FPInv, FTPTypeOK, Holds
<1>20. \A v \in Users : \A s \in Sessions : s \in trash'[v] <=> s \in trash[v] \/ (v = r /\ s \in out)
  BY <1>2, <1>4, <1>5 DEF FPInv, FTPTypeOK
<1>21. OneOwner'
  <2> SUFFICES ASSUME NEW s \in Sessions
               PROVE  /\ \A p, q \in Requests : Holds(p, s)' /\ Holds(q, s)' => p = q
                      /\ \A w, v \in Users : s \in trash'[w] /\ s \in trash'[v] => w = v
                      /\ \A q \in Requests, v \in Users : ~(Holds(q, s)' /\ s \in trash'[v])
                      /\ s \in Parked' => (\A q \in Requests : ~Holds(q, s)') /\ (\A v \in Users : s \notin trash'[v])
                      /\ ctl'[s] = "open" => s \in Parked' \/ (\E q \in Requests : Holds(q, s)') \/ (\E v \in Users : s \in trash'[v])
    BY DEF OneOwner, Sessions, Requests, Users
  <2>1. \A q \in Requests : Holds(q, s)' <=> Holds(q, s) /\ q # r  BY <1>19
  <2>2. \A v \in Users : s \in trash'[v] <=> s \in trash[v] \/ (v = r /\ s \in out)  BY <1>20
  <2>3. s \in Parked' <=> (s \in Parked /\ s \notin out) \/ s = x  BY <1>1, <1>10
  <2>4. Holds(r, s) => s = x  BY <1>1 DEF Holds
  <2>5. x \notin out /\ ctl' = ctl  BY <1>2, <1>3, <1>4
  <2>6. CASE s = x  BY <1>4, <2>1, <2>2, <2>3, <2>5, <2>6 DEF FPInv, OneOwner
  <2>7. CASE s # x
    <3>1. \A q \in Requests : Holds(q, s)' <=> Holds(q, s)  BY <2>1, <2>4, <2>7
    <3>2. s \in out => s \in Parked  BY <1>3
    <3>3. QED  BY <1>4, <2>2, <2>3, <2>5, <2>7, <3>1, <3>2 DEF FPInv, OneOwner
  <2>8. QED  BY <2>6, <2>7
<1>22. HookKnown'  BY <1>2 DEF FPInv, HookKnown
<1>23. ParkedOpen'
  <2>1. ctl[x] = "open"  BY <1>1, <1>2 DEF FPInv, OpenInUse, InUsePlaces, HookKnown
  <2>2. QED  BY <1>2, <1>3, <1>10, <2>1 DEF FPInv, ParkedOpen
<1>24. Custody'
  <2>1. ~((hook[r] \in {"armed", "data", "phase"} /\ phase[r] = "opening") \/ hook[r] = "ctl")
    BY <1>2 DEF FPInv, OpenInUse, HookKnown
  <2>2. QED  BY <1>2, <2>1 DEF FPInv, FTPTypeOK, Custody, Holds
<1>25. OpenInUse'  BY <1>2 DEF FPInv, FTPTypeOK, OpenInUse, InUsePlaces
<1>26. OwedKnown'  BY <1>2 DEF FPInv, FTPTypeOK, OwedKnown, Holds
<1>27. QED  BY <1>11, <1>16, <1>17, <1>18, <1>21, <1>22, <1>23, <1>24, <1>25, <1>26 DEF FPInv

LEMMA FPInvInit == FTPInit => FPInv
<1> SUFFICES ASSUME FTPInit PROVE FPInv
  OBVIOUS
<1>1. NumRequests \in Nat /\ MaxIdle \in Nat /\ MaxPerKey \in Nat /\ \A r \in Requests : r # NoSession
  BY FTPAssumption DEF NoSession, Requests
<1>2. Parked = {} /\ \A k \in Keys : Of(k) = {}  BY DEF FTPInit, Parked, Of
<1>3. Cardinality({}) = 0  BY FS_EmptySet
<1>4. FTPTypeOK  BY <1>1, <1>2 DEF FTPInit, FTPTypeOK, Sessions, Requests, Keys, NoSession
<1>5. PoolBounded /\ RanksDiffer /\ ParkedOpen  BY <1>1, <1>2, <1>3 DEF FTPInit, PoolBounded, RanksDiffer, ParkedOpen
<1>6. Bound /\ HookKnown /\ Custody /\ OpenInUse /\ OwedKnown
  BY <1>1, <1>2 DEF FTPInit, Bound, HookKnown, Custody, OpenInUse, OwedKnown, InUsePlaces, Users, Sessions
<1>7. OneOwner  BY <1>1, <1>2 DEF FTPInit, OneOwner, Holds, NoSession, Sessions, Requests
<1>8. QED  BY <1>4, <1>5, <1>6, <1>7 DEF FPInv

LEMMA FPInvStep == FPInv /\ [FTPNext]_ftpVars => FPInv'
<1> SUFFICES ASSUME FPInv, [FTPNext]_ftpVars PROVE FPInv'
  OBVIOUS
<1>1. CASE UNCHANGED ftpVars
  <2>1. /\ Parked' = Parked /\ PoolBounded' /\ RanksDiffer'
    BY <1>1, PoolStays DEF ftpVars
  <2>2. QED
    BY <1>1, <2>1 DEF ftpVars, poolVars, connVars, leaseVars, FPInv, FTPTypeOK, Bound, OneOwner, HookKnown, Custody, OpenInUse,
       OwedKnown, ParkedOpen, Holds
<1>2. CASE \E r \in Requests : PoolGet(r) \/ CloseReader(r) \/ EndStep(r) \/ CancelRequest(r)
  BY <1>2, PoolGetKeeps, CloseReaderKeeps, ReplyKeeps, PoolPutKeeps, CancelRequestKeeps DEF EndStep
<1>3. CASE \E r \in Requests : OpenStep(r)
  BY <1>3, DialFreshKeeps, ConnectKeeps, RetrKeeps, CheckCtxKeeps, BeginTransferKeeps, FailKeeps, RedialKeeps, RefusedKeeps
     DEF OpenStep
<1>4. CASE \E r \in Requests : HookStep(r)
  BY <1>4, HookStartsKeeps, HookDataKeeps, HookPhaseKeeps, HookCtlKeeps DEF HookStep
<1>5. CASE (\E u \in Users : DiscardPooled(u)) \/ Expire \/ PoolEvict
  BY <1>5, DiscardPooledKeeps, ExpireKeeps, PoolEvictKeeps
<1>6. QED  BY <1>1, <1>2, <1>3, <1>4, <1>5 DEF FTPNext

\* The inductive invariant of the pool and of the leases (ftpSession, ftpPoolGet, ftpPoolPut).
THEOREM FTPInvariant == FTPSpec => []FPInv
<1>1. QED  BY FPInvInit, FPInvStep, PTL DEF FTPSpec

\* Every session has one owner at most, an open one exactly one, and the pool's counter is
\* exact and within both limits, for any number of requests, cancelled at any moment.
THEOREM FTPPoolExact == FTPSpec => []PoolExact
<1>1. FPInv => PoolExact
  <2> SUFFICES ASSUME FPInv PROVE SessionOwned
    BY DEF FPInv, PoolExact
  <2> SUFFICES ASSUME NEW s \in Sessions
               PROVE  LET n == Cardinality(Owners(s)) + (IF s \in Parked THEN 1 ELSE 0) IN n <= 1 /\ (ctl[s] = "open" => n = 1)
    BY DEF SessionOwned
  <2>1. PICK O : O = Owners(s)  OBVIOUS
  <2>2. \A a, b \in O : a = b
    <3>1. \A r \in Requests : r \in Users  BY DEF Users
    <3>2. QED  BY <2>1, <3>1 DEF FPInv, OneOwner, Owners
  <2>3. (s \in Parked => O = {}) /\ (ctl[s] = "open" => s \in Parked \/ O # {})  BY <2>1 DEF FPInv, OneOwner, Owners
  <2>4. CASE O = {}
    <3>1. Cardinality(O) = 0  BY <2>4, FS_EmptySet
    <3>2. QED  BY <2>1, <2>3, <2>4, <3>1
  <2>5. CASE O # {}
    <3>1. PICK a : a \in O  BY <2>5
    <3>2. O = {a}  BY <2>2, <3>1
    <3>3. Cardinality(O) = 1  BY <3>2, FS_Singleton
    <3>4. QED  BY <2>1, <2>3, <2>5, <3>3
  <2>6. QED  BY <2>4, <2>5
<1>2. QED  BY <1>1, FTPInvariant, PTL

\* Whatever is cancelled at whatever moment, a parked session can be talked to, and no hook
\* closes the control connection under the request that has the session now.
THEOREM FTPInSync == FTPSpec => []InSync
<1>1. FPInv => InSync
  <2> SUFFICES ASSUME FPInv PROVE InSync
    OBVIOUS
  <2>1. \A s \in Parked : ctl[s] = "open" /\ s \notin owed
    <3>1. \A s \in Parked : s \in Sessions /\ \A r \in Requests : ~Holds(r, s)  BY DEF FPInv, OneOwner, Parked
    <3>2. QED  BY <3>1 DEF FPInv, ParkedOpen, OwedKnown
  <2>2. \A r \in Requests \ cancelled : place[r] \in {"retr", "opened", "begin", "read", "reply", "put"} => ctl[sess[r]] = "open"
    BY DEF FPInv, OpenInUse, InUsePlaces, HookKnown
  <2>3. QED  BY <2>1, <2>2 DEF InSync
<1>2. QED  BY <1>1, FTPInvariant, PTL

=============================================================================
