----------------------------- MODULE LoadProofs -----------------------------
(***************************************************************************)
(* Proofs about what is loaded for a stream: the Usenet sessions of the    *)
(* API (NZBSessions), the sessions of archives (ArchiveSessions), the      *)
(* files taken out of them (ArchiveEntry) and the assembly of a Usenet     *)
(* file (NZBAssembly), for any keys, payloads, requests, restarts,         *)
(* articles and workers. In both kinds of session a count of the requests  *)
(* that hold on to it keeps it from being discarded or swept, and the      *)
(* proofs rest on that count being exact. The assembly is right because    *)
(* the articles' own ranges are apart and only they are ever written.      *)
(***************************************************************************)
EXTENDS ArchiveSessions, ArchiveEntry, NZBSessions, NZBAssembly, FiniteSetTheorems, NaturalsInduction,
        WellFoundedInduction, TLAPS

\* The requests that have a pin on session s.
NzbPins(s) == {r \in NzbReqs : nzb[r].at \in {"ensure", "stream", "health"} /\ nzb[r].of = s}

\* refCount is the number of pins.
RefsExact == \A s \in NzbReqs : refCount[s] = Cardinality(NzbPins(s))

\* A pinned session is one that is registered or was replaced.
PinsKnown == \A s \in 0 .. NumNzb : NzbPins(s) # {} => s \in SessionsNow \cup nzbOrphans

\* A session is under one key, and it is registered, replaced or being discarded, one of
\* the three at a time.
OnePlace ==
  /\ \A k, j \in NzbKeys : nzbSessions[k] = nzbSessions[j] => k = j \/ nzbSessions[k] = 0
  /\ SessionsNow \cap (nzbOrphans \cup discards) = {}
  /\ nzbOrphans \cap discards = {}

\* A session has its directory from its build until it is discarded.
DirsKept == SessionsNow \cup nzbOrphans \subseteq tmpDirs /\ \A r \in NzbReqs : nzb[r].at = "register" => r \in tmpDirs

\* A request that has not registered its session yet has no session.
BuiltOnce ==
  \A r \in NzbReqs : nzb[r].at \notin {"finish", "end"} => r \notin SessionsNow \cup nzbOrphans \cup discards

NzbInv == NzbTypeOK /\ RefsExact /\ PinsKnown /\ OnePlace /\ DirsKept /\ BuiltOnce /\ NzbOneBuild

-----------------------------------------------------------------------------
(* Counting *)

\* The numbers up to n are n.
LEMMA UpToCounted == ASSUME NEW n \in Nat PROVE IsFiniteSet(1 .. n) /\ Cardinality(1 .. n) = n
  <1>1. 1 \in Int /\ n \in Int
    OBVIOUS
  <1>2. IsFiniteSet(1 .. n) /\ Cardinality(1 .. n) = IF 1 > n THEN 0 ELSE n - 1 + 1
    BY ONLY <1>1, FS_Interval
  <1> QED
    BY <1>2

LEMMA NzbCounted == IsFiniteSet(NzbReqs) /\ Cardinality(NzbReqs) = NumNzb
  BY UpToCounted, NzbAssumption DEF NzbReqs

\* Requests are finitely many, so pins can be counted.
LEMMA PinsCounted ==
  ASSUME NEW s
  PROVE  IsFiniteSet(NzbPins(s)) /\ Cardinality(NzbPins(s)) \in 0 .. NumNzb
  <1>1. IsFiniteSet(NzbReqs) /\ Cardinality(NzbReqs) = NumNzb
    BY NzbCounted
  <1>2. NzbPins(s) \in SUBSET NzbReqs
    BY DEF NzbPins
  <1> QED
    BY <1>1, <1>2, FS_Subset, FS_CardinalityType, NzbAssumption

\* The same, after a step.
LEMMA PinsCountedNext ==
  ASSUME NEW s
  PROVE  IsFiniteSet(NzbPins(s)') /\ Cardinality(NzbPins(s)') \in 0 .. NumNzb
  <1>1. IsFiniteSet(NzbReqs) /\ Cardinality(NzbReqs) = NumNzb
    BY NzbCounted
  <1>2. NzbPins(s)' \in SUBSET NzbReqs
    BY DEF NzbPins
  <1> QED
    BY <1>1, <1>2, FS_Subset, FS_CardinalityType, NzbAssumption

\* A pin more and one more in refCount.
LEMMA PinAdded ==
  ASSUME NzbTypeOK, RefsExact, NEW s \in NzbReqs, NEW r \in NzbReqs, r \notin NzbPins(s),
         NzbPins(s)' = NzbPins(s) \cup {r}, \A t \in NzbReqs \ {s} : NzbPins(t)' = NzbPins(t),
         refCount' = [refCount EXCEPT ![s] = @ + 1]
  PROVE  RefsExact' /\ refCount' \in [NzbReqs -> 0 .. NumNzb]
  <1>1. Cardinality(NzbPins(s)') = Cardinality(NzbPins(s)) + 1
    BY PinsCounted, FS_AddElement
  <1>2. \A t \in NzbReqs : refCount'[t] = Cardinality(NzbPins(t)')
    BY <1>1 DEF RefsExact, NzbTypeOK
  <1>3. \A t \in NzbReqs : refCount'[t] \in 0 .. NumNzb
    BY <1>2, PinsCountedNext
  <1>4. refCount' \in [NzbReqs -> 0 .. NumNzb]
    BY <1>3 DEF NzbTypeOK
  <1> QED
    BY <1>2, <1>4 DEF RefsExact

\* A pin less and one less in refCount.
LEMMA PinRemoved ==
  ASSUME NzbTypeOK, RefsExact, NEW s \in NzbReqs, NEW r \in NzbPins(s),
         NzbPins(s)' = NzbPins(s) \ {r}, \A t \in NzbReqs \ {s} : NzbPins(t)' = NzbPins(t),
         refCount' = [refCount EXCEPT ![s] = @ - 1]
  PROVE  RefsExact' /\ refCount' \in [NzbReqs -> 0 .. NumNzb]
  <1>1. Cardinality(NzbPins(s)') = Cardinality(NzbPins(s)) - 1
    BY PinsCounted, FS_RemoveElement
  <1>2. \A t \in NzbReqs : refCount'[t] = Cardinality(NzbPins(t)')
    BY <1>1 DEF RefsExact, NzbTypeOK
  <1>3. \A t \in NzbReqs : refCount'[t] \in 0 .. NumNzb
    BY <1>2, PinsCountedNext
  <1>4. refCount' \in [NzbReqs -> 0 .. NumNzb]
    BY <1>3 DEF NzbTypeOK
  <1> QED
    BY <1>2, <1>4 DEF RefsExact

\* A session that nobody counts has no pin; with a count of one, a pin is the only one.
LEMMA FewPins ==
  ASSUME NzbTypeOK, RefsExact, NEW s \in NzbReqs
  PROVE  /\ refCount[s] = 0 => NzbPins(s) = {}
         /\ refCount[s] = 1 => \A r \in NzbPins(s) : NzbPins(s) \ {r} = {}
         /\ refCount[s] # 0 => NzbPins(s) # {}
  <1>1. IsFiniteSet(NzbPins(s)) /\ refCount[s] = Cardinality(NzbPins(s))
    BY PinsCounted DEF RefsExact
  <1>2. refCount[s] = 1 => \E x : NzbPins(s) = {x}
    BY <1>1, FS_Singleton
  <1> QED
    BY <1>1, <1>2, FS_EmptySet

-----------------------------------------------------------------------------
(* The steps *)

\* A step that pins nothing, lets nothing go and leaves sessions where they are.
LEMMA NzbFrame ==
  ASSUME NzbInv, NEW r \in NzbReqs, NzbTypeOK', UNCHANGED poolVars, tmpDirs \subseteq tmpDirs',
         \A q \in NzbReqs \ {r} : nzb'[q] = nzb[q],
         nzb[r].at \notin {"ensure", "stream", "health"}, nzb'[r].at \notin {"ensure", "stream", "health"},
         nzb[r].at \in {"finish", "end"} => nzb'[r].at \in {"finish", "end"},
         nzb'[r].at = "register" => r \in tmpDirs'
  PROVE  RefsExact' /\ PinsKnown' /\ OnePlace' /\ DirsKept' /\ BuiltOnce'
  <1>1. \A s : NzbPins(s)' = NzbPins(s)
    BY DEF NzbPins
  <1>2. SessionsNow' = SessionsNow
    BY DEF SessionsNow, poolVars
  <1> QED
    BY <1>1, <1>2 DEF NzbInv, RefsExact, PinsKnown, OnePlace, DirsKept, BuiltOnce, poolVars

\* Where requests are, as NzbTypeOK has it.
NzbPlaces == {"idle", "decide", "health", "wait", "build", "register", "finish", "ensure", "stream", "end"}
NzbReqType == [at : NzbPlaces, key : NzbKeys, sig : NzbSigs, of : 0 .. NumNzb]

\* What NzbGoes does, and what it leaves alone.
LEMMA GoesMoves ==
  ASSUME nzb \in [NzbReqs -> NzbReqType], NEW r \in NzbReqs, NEW l \in NzbPlaces, NzbGoes(r, l)
  PROVE  /\ nzb' \in [NzbReqs -> NzbReqType] /\ nzb'[r].at = l
         /\ \A q \in NzbReqs \ {r} : nzb'[q] = nzb[q]
         /\ l # "end" => nzb'[r].key = nzb[r].key /\ nzb'[r].sig = nzb[r].sig /\ nzb'[r].of = nzb[r].of
  <1>1. NzbAt("end") \in NzbReqType /\ NzbAt("end").at = "end"
    BY NzbAssumption DEF NzbAt, NoKey, NoSig, NzbReqType, NzbPlaces
  <1> QED
    BY <1>1 DEF NzbGoes, NzbReqType

\* Requests arrive, wait, build and end.
LEMMA NzbQuiet ==
  ASSUME NzbInv, NEW r \in NzbReqs,
         CreateArrives(r) \/ Follow(r) \/ FollowerLeaves(r) \/ BuildSession(r) \/ FinishBuild(r)
  PROVE  NzbInv'
  <1> USE NzbAssumption
  <1>0. nzb \in [NzbReqs -> NzbReqType]
    BY DEF NzbInv, NzbTypeOK, NzbReqType, NzbPlaces
  <1>1. CASE CreateArrives(r)
    <2>1. PICK k \in NzbKeys, g \in NzbSigs : nzb' = [nzb EXCEPT ![r] = [at |-> "decide", key |-> k, sig |-> g, of |-> 0]]
      BY <1>1 DEF CreateArrives
    <2>2. nzb' \in [NzbReqs -> NzbReqType] /\ nzb'[r].at = "decide" /\ \A q \in NzbReqs \ {r} : nzb'[q] = nzb[q]
      BY <1>0, <2>1 DEF NzbReqType, NzbPlaces
    <2>3. NzbTypeOK'
      BY <1>1, <2>2 DEF CreateArrives, poolVars, NzbInv, NzbTypeOK, NzbReqType, NzbPlaces
    <2>4. NzbOneBuild'
      BY <1>1, <2>2 DEF CreateArrives, NzbInv, NzbOneBuild, BuildOf
    <2> QED
      BY <1>1, <2>2, <2>3, <2>4, NzbFrame DEF CreateArrives, InTurn, NzbInv
  <1>2. CASE Follow(r) \/ FollowerLeaves(r)
    <2>1. NzbGoes(r, "end") /\ nzb[r].at = "wait" /\ UNCHANGED <<poolVars, nzbBuilds, sigOf, noReuse, asm, tmpDirs, nzbRestarts>>
      BY <1>2 DEF Follow, FollowerLeaves
    <2>2. nzb' \in [NzbReqs -> NzbReqType] /\ nzb'[r].at = "end" /\ \A q \in NzbReqs \ {r} : nzb'[q] = nzb[q]
      BY <1>0, <2>1, GoesMoves DEF NzbPlaces
    <2>3. NzbTypeOK'
      BY <2>1, <2>2 DEF poolVars, NzbInv, NzbTypeOK, NzbReqType, NzbPlaces
    <2>4. NzbOneBuild'
      BY <2>1, <2>2 DEF NzbInv, NzbOneBuild, BuildOf
    <2> QED
      BY <2>1, <2>2, <2>3, <2>4, NzbFrame DEF NzbInv
  <1>3. CASE BuildSession(r)
    <2>1. PICK l \in {"finish", "register"} : NzbGoes(r, l) /\ (l = "register" => r \in tmpDirs') /\ tmpDirs \subseteq tmpDirs'
      BY <1>3 DEF BuildSession
    <2>2. nzb' \in [NzbReqs -> NzbReqType] /\ nzb'[r].at = l /\ (\A q \in NzbReqs \ {r} : nzb'[q] = nzb[q])
          /\ nzb'[r].key = nzb[r].key /\ nzb'[r].sig = nzb[r].sig
      BY <1>0, <2>1, GoesMoves DEF NzbPlaces
    <2>3. tmpDirs' \subseteq NzbReqs /\ sigOf' \in [NzbReqs -> NzbSigs]
      BY <1>0, <1>3 DEF BuildSession, NzbInv, NzbTypeOK, NzbReqType
    <2>4. NzbTypeOK'
      BY <1>3, <2>2, <2>3 DEF BuildSession, poolVars, NzbInv, NzbTypeOK, NzbReqType, NzbPlaces
    <2>5. NzbOneBuild'
      BY <1>3, <2>2 DEF BuildSession, NzbInv, NzbOneBuild, BuildOf
    <2> QED
      BY <1>3, <2>1, <2>2, <2>4, <2>5, NzbFrame DEF BuildSession, NzbInv
  <1>4. CASE FinishBuild(r)
    <2>1. nzb' \in [NzbReqs -> NzbReqType] /\ nzb'[r].at = "end" /\ \A q \in NzbReqs \ {r} : nzb'[q] = nzb[q]
      BY <1>0, <1>4, GoesMoves DEF NzbPlaces, FinishBuild
    <2>2. BuildOf(r) \in NzbKeys \X NzbSigs
      BY <1>0 DEF BuildOf, NzbReqType
    <2>3. nzbBuilds' \in [NzbKeys \X NzbSigs -> 0 .. NumNzb] /\ \A b \in NzbKeys \X NzbSigs : nzbBuilds[b] # r => nzbBuilds'[b] = nzbBuilds[b]
      BY <1>4, <2>2 DEF FinishBuild, FlightEnds, NzbInv, NzbTypeOK
    <2>4. NzbTypeOK'
      BY <1>4, <2>1, <2>3 DEF FinishBuild, poolVars, NzbInv, NzbTypeOK, NzbReqType, NzbPlaces
    <2>5. \A q \in NzbReqs \ {r} : BuildOf(q)' = BuildOf(q) /\ BuildOf(q) \in NzbKeys \X NzbSigs
      BY <1>0, <2>1 DEF BuildOf, NzbReqType
    <2>6. NzbOneBuild'
      BY <2>1, <2>3, <2>5 DEF NzbInv, NzbOneBuild
    <2> QED
      BY <1>4, <2>1, <2>4, <2>6, NzbFrame DEF FinishBuild, NzbInv
  <1> QED
    BY <1>1, <1>2, <1>3, <1>4

\* A request takes a pin on a registered session.
LEMMA NzbPinStep ==
  ASSUME NzbInv, NEW r \in NzbReqs, NEW s \in SessionsNow, nzb' \in [NzbReqs -> NzbReqType],
         \A q \in NzbReqs \ {r} : nzb'[q] = nzb[q],
         nzb[r].at \notin {"ensure", "stream", "health", "finish", "end"},
         nzb'[r].at \in {"ensure", "stream", "health"}, nzb'[r].of = s,
         refCount' = [refCount EXCEPT ![s] = @ + 1], UNCHANGED <<nzbSessions, nzbOrphans, discards, tmpDirs>>
  PROVE  refCount' \in [NzbReqs -> 0 .. NumNzb] /\ RefsExact' /\ PinsKnown' /\ OnePlace' /\ DirsKept' /\ BuiltOnce'
  <1>1. s \in NzbReqs
    BY DEF NzbInv, NzbTypeOK, SessionsNow, NzbReqs
  <1>2. r \notin NzbPins(s) /\ NzbPins(s)' = NzbPins(s) \cup {r} /\ \A t : t # s => NzbPins(t)' = NzbPins(t)
    BY DEF NzbPins
  <1>3. refCount' \in [NzbReqs -> 0 .. NumNzb] /\ RefsExact'
    BY <1>1, <1>2, PinAdded DEF NzbInv
  <1>4. SessionsNow' = SessionsNow
    BY DEF SessionsNow
  <1>5. PinsKnown'
    BY <1>2, <1>4 DEF NzbInv, PinsKnown
  <1>6. OnePlace' /\ DirsKept' /\ BuiltOnce'
    BY <1>4 DEF NzbInv, OnePlace, DirsKept, BuiltOnce
  <1> QED
    BY <1>3, <1>5, <1>6

\* A request gives up its pin, and the session if it was the last on a replaced one.
LEMMA NzbReleaseStep ==
  ASSUME NzbInv, NEW r \in NzbReqs, NEW s, nzb[r].at \in {"ensure", "stream", "health"}, nzb[r].of = s,
         nzb' \in [NzbReqs -> NzbReqType], \A q \in NzbReqs \ {r} : nzb'[q] = nzb[q],
         nzb'[r].at \notin {"ensure", "stream", "health", "register"},
         Release(s), UNCHANGED <<nzbSessions, tmpDirs>>
  PROVE  /\ refCount' \in [NzbReqs -> 0 .. NumNzb] /\ nzbOrphans' \subseteq NzbReqs /\ discards' \subseteq NzbReqs
         /\ RefsExact' /\ PinsKnown' /\ OnePlace' /\ DirsKept' /\ BuiltOnce'
  <1>1. r \in NzbPins(s) /\ NzbPins(s)' = NzbPins(s) \ {r} /\ \A t : t # s => NzbPins(t)' = NzbPins(t)
    BY DEF NzbPins
  <1>2. s \in 0 .. NumNzb
    BY DEF NzbInv, NzbTypeOK
  <1>3. s \in SessionsNow \cup nzbOrphans
    BY <1>1, <1>2 DEF NzbInv, PinsKnown
  <1>4. s \in NzbReqs
    BY <1>3 DEF NzbInv, NzbTypeOK, SessionsNow, NzbReqs
  <1>5. refCount' \in [NzbReqs -> 0 .. NumNzb] /\ RefsExact'
    BY <1>1, <1>4, PinRemoved DEF NzbInv, Release
  <1>6. SessionsNow' = SessionsNow
    BY DEF SessionsNow
  <1>7. r \notin SessionsNow \cup nzbOrphans \cup discards
    BY DEF NzbInv, BuiltOnce
  <1>8. CASE s \in nzbOrphans /\ refCount[s] = 1
    <2>1. NzbPins(s)' = {}
      BY <1>1, <1>4, <1>8, FewPins DEF NzbInv
    <2>2. nzbOrphans' = nzbOrphans \ {s} /\ discards' = discards \cup {s}
      BY <1>8 DEF Release
    <2>3. PinsKnown'
      BY <1>1, <1>6, <2>1, <2>2 DEF NzbInv, PinsKnown
    <2>4. OnePlace' /\ DirsKept' /\ nzbOrphans' \subseteq NzbReqs /\ discards' \subseteq NzbReqs
      BY <1>4, <1>6, <1>8, <2>2 DEF NzbInv, NzbTypeOK, OnePlace, DirsKept
    <2>5. BuiltOnce'
      BY <1>6, <1>7, <1>8, <2>2 DEF NzbInv, BuiltOnce
    <2> QED
      BY <1>5, <2>3, <2>4, <2>5
  <1>9. CASE ~(s \in nzbOrphans /\ refCount[s] = 1)
    <2>1. UNCHANGED <<nzbOrphans, discards>>
      BY <1>9 DEF Release
    <2>2. PinsKnown'
      BY <1>1, <1>6, <2>1 DEF NzbInv, PinsKnown
    <2>3. OnePlace' /\ DirsKept' /\ nzbOrphans' \subseteq NzbReqs /\ discards' \subseteq NzbReqs
      BY <1>6, <2>1 DEF NzbInv, NzbTypeOK, OnePlace, DirsKept
    <2>4. BuiltOnce'
      BY <1>6, <1>7, <2>1 DEF NzbInv, BuiltOnce
    <2> QED
      BY <1>5, <2>2, <2>3, <2>4
  <1> QED
    BY <1>8, <1>9

\* A create decides: it pins, waits or leads.
LEMMA NzbDecides ==
  ASSUME NzbInv, NEW r \in NzbReqs, Decide(r)
  PROVE  NzbInv'
  <1> USE NzbAssumption
  <1>0. nzb \in [NzbReqs -> NzbReqType] /\ nzb[r].at = "decide" /\ nzb[r].key \in NzbKeys /\ BuildOf(r) \in NzbKeys \X NzbSigs
    BY DEF NzbInv, NzbTypeOK, NzbReqType, NzbPlaces, Decide, BuildOf
  <1> DEFINE s == nzbSessions[nzb[r].key]
             lead == nzbBuilds[BuildOf(r)]
  <1>1. CASE NzbReusable(r) /\ refCount' = [refCount EXCEPT ![s] = @ + 1]
             /\ nzb' = [nzb EXCEPT ![r] = [@ EXCEPT !.at = "health", !.of = s]] /\ UNCHANGED nzbBuilds
    <2>1. s \in SessionsNow /\ s \in 0 .. NumNzb
      BY <1>0, <1>1 DEF NzbReusable, SessionsNow, NzbInv, NzbTypeOK
    <2>2. nzb' \in [NzbReqs -> NzbReqType] /\ nzb'[r].at = "health" /\ nzb'[r].of = s /\ \A q \in NzbReqs \ {r} : nzb'[q] = nzb[q]
      BY <1>0, <1>1, <2>1 DEF NzbReqType, NzbPlaces
    <2>3. refCount' \in [NzbReqs -> 0 .. NumNzb] /\ RefsExact' /\ PinsKnown' /\ OnePlace' /\ DirsKept' /\ BuiltOnce'
      BY <1>0, <1>1, <2>1, <2>2, NzbPinStep DEF Decide
    <2>4. NzbTypeOK'
      BY <1>1, <2>2, <2>3 DEF Decide, NzbInv, NzbTypeOK, NzbReqType, NzbPlaces
    <2>5. NzbOneBuild'
      BY <1>1, <2>2 DEF NzbInv, NzbOneBuild, BuildOf
    <2> QED
      BY <2>3, <2>4, <2>5 DEF NzbInv
  <1>2. CASE lead # 0 /\ nzb' = [nzb EXCEPT ![r] = [@ EXCEPT !.at = "wait", !.of = lead]] /\ UNCHANGED <<nzbBuilds, refCount>>
    <2>1. lead \in 0 .. NumNzb
      BY <1>0 DEF NzbInv, NzbTypeOK
    <2>2. nzb' \in [NzbReqs -> NzbReqType] /\ nzb'[r].at = "wait" /\ \A q \in NzbReqs \ {r} : nzb'[q] = nzb[q]
      BY <1>0, <1>2, <2>1 DEF NzbReqType, NzbPlaces
    <2>3. NzbTypeOK'
      BY <1>2, <2>2 DEF Decide, NzbInv, NzbTypeOK, NzbReqType, NzbPlaces
    <2>4. NzbOneBuild'
      BY <1>2, <2>2 DEF NzbInv, NzbOneBuild, BuildOf
    <2> QED
      BY <1>0, <1>2, <2>2, <2>3, <2>4, NzbFrame DEF Decide, NzbInv, poolVars
  <1>3. CASE lead = 0 /\ nzbBuilds' = [nzbBuilds EXCEPT ![BuildOf(r)] = r] /\ NzbGoes(r, "build") /\ UNCHANGED refCount
    <2>1. nzb' \in [NzbReqs -> NzbReqType] /\ nzb'[r].at = "build" /\ (\A q \in NzbReqs \ {r} : nzb'[q] = nzb[q])
          /\ nzb'[r].key = nzb[r].key /\ nzb'[r].sig = nzb[r].sig
      BY <1>0, <1>3, GoesMoves DEF NzbPlaces
    <2>2. nzbBuilds' \in [NzbKeys \X NzbSigs -> 0 .. NumNzb] /\ nzbBuilds'[BuildOf(r)] = r
          /\ \A b \in NzbKeys \X NzbSigs : b # BuildOf(r) => nzbBuilds'[b] = nzbBuilds[b]
      BY <1>0, <1>3 DEF NzbInv, NzbTypeOK, NzbReqs
    <2>3. NzbTypeOK'
      BY <1>3, <2>1, <2>2 DEF Decide, NzbInv, NzbTypeOK, NzbReqType, NzbPlaces
    <2>4. BuildOf(r)' = BuildOf(r) /\ \A q \in NzbReqs \ {r} : BuildOf(q)' = BuildOf(q) /\ BuildOf(q) \in NzbKeys \X NzbSigs
      BY <1>0, <2>1 DEF BuildOf, NzbReqType
    <2>5. NzbOneBuild'
      <3> SUFFICES ASSUME NEW q \in NzbReqs, nzb'[q].at \in {"build", "register"} PROVE nzbBuilds'[BuildOf(q)'] = q
        BY DEF NzbOneBuild
      <3>1. CASE q = r
        BY <2>2, <2>4, <3>1
      <3>2. CASE q # r
        <4>1. nzbBuilds[BuildOf(q)] = q /\ q # 0
          BY <2>1, <3>2 DEF NzbInv, NzbOneBuild, NzbReqs
        <4>2. BuildOf(q) # BuildOf(r)
          BY <1>3, <4>1
        <4> QED
          BY <2>2, <2>4, <3>2, <4>1, <4>2
      <3> QED
        BY <3>1, <3>2
    <2> QED
      BY <1>0, <1>3, <2>1, <2>3, <2>5, NzbFrame DEF Decide, NzbInv, poolVars
  <1> QED
    BY <1>1, <1>2, <1>3 DEF Decide

\* Pins that end: a healthy or a spoilt session, a file that cannot be made, a response.
LEMMA NzbReleases ==
  ASSUME NzbInv, NEW r \in NzbReqs, CheckHealth(r) \/ Ensure(r) \/ StreamEnds(r)
  PROVE  NzbInv'
  <1> USE NzbAssumption
  <1> DEFINE s == nzb[r].of
  <1>0. nzb \in [NzbReqs -> NzbReqType] /\ nzb[r].at \in {"ensure", "stream", "health"} /\ s \in 0 .. NumNzb
    BY DEF NzbInv, NzbTypeOK, NzbReqType, NzbPlaces, CheckHealth, Ensure, StreamEnds
  <1>1. s \in NzbReqs
    <2>1. r \in NzbPins(s)
      BY <1>0 DEF NzbPins
    <2> QED
      BY <1>0, <2>1 DEF NzbInv, PinsKnown, SessionsNow, NzbTypeOK, NzbReqs
  <1>2. CASE Release(s)
    <2>1. PICK l \in {"end", "decide"} : nzb' \in [NzbReqs -> NzbReqType] /\ nzb'[r].at = l /\ \A q \in NzbReqs \ {r} : nzb'[q] = nzb[q]
      <3>1. CASE NzbGoes(r, "end")
        BY <1>0, <3>1, GoesMoves DEF NzbPlaces
      <3>2. CASE nzb' = [nzb EXCEPT ![r] = [@ EXCEPT !.at = "decide", !.of = 0]]
        <4>1. [nzb[r] EXCEPT !.at = "decide", !.of = 0] \in NzbReqType
          <5>1. nzb[r] \in NzbReqType /\ "decide" \in NzbPlaces /\ 0 \in 0 .. NumNzb
            BY <1>0 DEF NzbPlaces
          <5> QED
            BY <5>1 DEF NzbReqType
        <4>2. nzb'[r] = [nzb[r] EXCEPT !.at = "decide", !.of = 0] /\ nzb'[r].at = "decide"
          BY <1>0, <3>2 DEF NzbReqType
        <4> QED
          BY <1>0, <3>2, <4>1, <4>2
      <3>3. CASE Ensure(r) /\ ~NzbGoes(r, "end")
        <4>1. nzb' \in [NzbReqs -> NzbReqType] /\ nzb'[r].at = "stream" /\ refCount' = refCount
          BY <1>0, <3>3, GoesMoves DEF Ensure, NzbPlaces
        <4>2. refCount'[s] = refCount[s] - 1 /\ refCount[s] \in Nat
          BY <1>1, <1>2 DEF Release, NzbInv, NzbTypeOK
        <4> QED
          BY <4>1, <4>2
      <3> QED
        BY <1>2, <3>1, <3>2, <3>3 DEF CheckHealth, StreamEnds
    <2>2. nzbSessions' = nzbSessions /\ tmpDirs' = tmpDirs /\ nzbBuilds' = nzbBuilds
      BY DEF CheckHealth, Ensure, StreamEnds
    <2>3. /\ refCount' \in [NzbReqs -> 0 .. NumNzb] /\ nzbOrphans' \subseteq NzbReqs /\ discards' \subseteq NzbReqs
          /\ RefsExact' /\ PinsKnown' /\ OnePlace' /\ DirsKept' /\ BuiltOnce'
      BY <1>0, <1>2, <2>1, <2>2, NzbReleaseStep
    <2>4. sigOf' = sigOf /\ noReuse' \subseteq NzbReqs /\ asm' \in [NzbReqs -> {"none", "running", "failed", "whole"}]
      BY <1>1 DEF CheckHealth, Ensure, StreamEnds, NzbInv, NzbTypeOK
    <2>5. NzbTypeOK'
      BY <2>1, <2>2, <2>3, <2>4 DEF NzbInv, NzbTypeOK, NzbReqType, NzbPlaces
    <2>6. NzbOneBuild'
      BY <2>1, <2>2 DEF NzbInv, NzbOneBuild, BuildOf
    <2> QED
      BY <2>3, <2>5, <2>6 DEF NzbInv
  <1>3. CASE ~Release(s)
    <2>1. nzb[r].at = "ensure" /\ NzbGoes(r, "stream") /\ UNCHANGED <<refCount, nzbOrphans, discards, nzbSessions, nzbBuilds, tmpDirs, sigOf, noReuse>>
          /\ asm' = [asm EXCEPT ![s] = IF @ \in {"none", "failed"} THEN "running" ELSE @]
      BY <1>3 DEF CheckHealth, Ensure, StreamEnds
    <2>2. nzb' \in [NzbReqs -> NzbReqType] /\ nzb'[r].at = "stream" /\ nzb'[r].of = s /\ \A q \in NzbReqs \ {r} : nzb'[q] = nzb[q]
      BY <1>0, <2>1, GoesMoves DEF NzbPlaces
    <2>3. NzbTypeOK'
      BY <1>1, <2>1, <2>2 DEF NzbInv, NzbTypeOK, NzbReqType, NzbPlaces
    <2>4. \A t : NzbPins(t)' = NzbPins(t)
      BY <2>1, <2>2 DEF NzbPins
    <2>5. SessionsNow' = SessionsNow
      BY <2>1 DEF SessionsNow
    <2>6. RefsExact' /\ PinsKnown' /\ OnePlace' /\ DirsKept' /\ BuiltOnce'
      BY <2>1, <2>2, <2>4, <2>5 DEF NzbInv, RefsExact, PinsKnown, OnePlace, DirsKept, BuiltOnce
    <2>7. NzbOneBuild'
      BY <2>1, <2>2 DEF NzbInv, NzbOneBuild, BuildOf
    <2> QED
      BY <2>3, <2>6, <2>7 DEF NzbInv
  <1> QED
    BY <1>2, <1>3

\* A stream begins, with a pin if there is a session.
LEMMA NzbStreams ==
  ASSUME NzbInv, NEW r \in NzbReqs, StreamArrives(r)
  PROVE  NzbInv'
  <1> USE NzbAssumption
  <1>0. nzb \in [NzbReqs -> NzbReqType] /\ nzb[r].at = "idle"
    BY DEF NzbInv, NzbTypeOK, NzbReqType, NzbPlaces, StreamArrives, InTurn
  <1>1. PICK k \in NzbKeys :
          IF nzbSessions[k] = 0 THEN NzbGoes(r, "end") /\ UNCHANGED refCount
          ELSE /\ nzb' = [nzb EXCEPT ![r] = [NzbAt("ensure") EXCEPT !.of = nzbSessions[k]]]
               /\ refCount' = [refCount EXCEPT ![nzbSessions[k]] = @ + 1]
    BY DEF StreamArrives
  <1>2. UNCHANGED <<nzbSessions, nzbOrphans, discards, nzbBuilds, sigOf, noReuse, asm, tmpDirs, nzbRestarts>>
    BY DEF StreamArrives
  <1>3. CASE nzbSessions[k] = 0
    <2>1. nzb' \in [NzbReqs -> NzbReqType] /\ nzb'[r].at = "end" /\ (\A q \in NzbReqs \ {r} : nzb'[q] = nzb[q]) /\ UNCHANGED refCount
      BY <1>0, <1>1, <1>3, GoesMoves DEF NzbPlaces
    <2>2. NzbTypeOK'
      BY <1>2, <2>1 DEF NzbInv, NzbTypeOK, NzbReqType, NzbPlaces
    <2>3. NzbOneBuild'
      BY <1>2, <2>1 DEF NzbInv, NzbOneBuild, BuildOf
    <2> QED
      BY <1>0, <1>2, <2>1, <2>2, <2>3, NzbFrame DEF NzbInv, poolVars
  <1>4. CASE nzbSessions[k] # 0
    <2>1. nzbSessions[k] \in SessionsNow /\ nzbSessions[k] \in 0 .. NumNzb
      BY <1>4 DEF SessionsNow, NzbInv, NzbTypeOK
    <2>2. [NzbAt("ensure") EXCEPT !.of = nzbSessions[k]] \in NzbReqType
      BY <2>1 DEF NzbAt, NoKey, NoSig, NzbReqType, NzbPlaces
    <2>3. /\ nzb' \in [NzbReqs -> NzbReqType] /\ nzb'[r].at = "ensure" /\ nzb'[r].of = nzbSessions[k]
          /\ \A q \in NzbReqs \ {r} : nzb'[q] = nzb[q]
      BY <1>0, <1>1, <1>4, <2>2 DEF NzbAt
    <2>4. refCount' \in [NzbReqs -> 0 .. NumNzb] /\ RefsExact' /\ PinsKnown' /\ OnePlace' /\ DirsKept' /\ BuiltOnce'
      BY <1>0, <1>1, <1>2, <1>4, <2>1, <2>3, NzbPinStep
    <2>5. NzbTypeOK'
      BY <1>2, <2>3, <2>4 DEF NzbInv, NzbTypeOK, NzbReqType, NzbPlaces
    <2>6. NzbOneBuild'
      BY <1>2, <2>3 DEF NzbInv, NzbOneBuild, BuildOf
    <2> QED
      BY <2>4, <2>5, <2>6 DEF NzbInv
  <1> QED
    BY <1>3, <1>4

\* A new session takes its key; the old one is discarded if nobody reads from it.
LEMMA NzbRegisters ==
  ASSUME NzbInv, NEW r \in NzbReqs, RegisterSession(r)
  PROVE  NzbInv'
  <1> USE NzbAssumption
  <1> DEFINE k == nzb[r].key
             old == nzbSessions[k]
  <1>0. nzb \in [NzbReqs -> NzbReqType] /\ nzb[r].at = "register" /\ k \in NzbKeys /\ BuildOf(r) \in NzbKeys \X NzbSigs
    BY DEF NzbInv, NzbTypeOK, NzbReqType, NzbPlaces, RegisterSession, BuildOf
  <1>1. nzb' \in [NzbReqs -> NzbReqType] /\ nzb'[r].at = "finish" /\ \A q \in NzbReqs \ {r} : nzb'[q] = nzb[q]
    BY <1>0, GoesMoves DEF NzbPlaces, RegisterSession
  <1>2. old \in 0 .. NumNzb /\ nzbSessions' = [nzbSessions EXCEPT ![k] = r] /\ UNCHANGED <<refCount, sigOf, noReuse, asm, tmpDirs, nzbRestarts>>
    BY <1>0 DEF RegisterSession, NzbInv, NzbTypeOK
  <1>3. r \notin SessionsNow \cup nzbOrphans \cup discards /\ r # 0 /\ r \in tmpDirs
    BY <1>0 DEF NzbInv, BuiltOnce, DirsKept, NzbReqs
  <1>4. SessionsNow' = (SessionsNow \ {old}) \cup {r}
    <2>1. \A j \in NzbKeys \ {k} : nzbSessions'[j] = nzbSessions[j] /\ (nzbSessions[j] # old \/ old = 0)
      BY <1>0, <1>2 DEF NzbInv, NzbTypeOK, OnePlace
    <2>2. nzbSessions'[k] = r
      BY <1>0, <1>2 DEF NzbInv, NzbTypeOK
    <2> QED
      BY <1>0, <1>3, <2>1, <2>2 DEF SessionsNow
  <1>5. \A t : NzbPins(t)' = NzbPins(t)
    BY <1>0, <1>1 DEF NzbPins
  <1>6. nzbBuilds' \in [NzbKeys \X NzbSigs -> 0 .. NumNzb] /\ \A b \in NzbKeys \X NzbSigs : nzbBuilds[b] # r => nzbBuilds'[b] = nzbBuilds[b]
    BY <1>0 DEF RegisterSession, FlightEnds, NzbInv, NzbTypeOK
  <1>7. NzbOneBuild'
    <2>1. \A q \in NzbReqs \ {r} : BuildOf(q)' = BuildOf(q) /\ BuildOf(q) \in NzbKeys \X NzbSigs
      BY <1>0, <1>1 DEF BuildOf, NzbReqType
    <2> QED
      BY <1>1, <1>6, <2>1 DEF NzbInv, NzbOneBuild
  <1>8. nzbSessions' \in [NzbKeys -> 0 .. NumNzb] /\ \A i, j \in NzbKeys : nzbSessions'[i] = nzbSessions'[j] => i = j \/ nzbSessions'[i] = 0
    <2>1. \A j \in NzbKeys : nzbSessions[j] # r
      BY <1>3 DEF SessionsNow
    <2> QED
      BY <1>0, <1>2, <2>1 DEF NzbInv, NzbTypeOK, OnePlace, NzbReqs
  <1>9. old \in SessionsNow => old \in NzbReqs
    BY <1>2 DEF SessionsNow, NzbReqs
  <1>10. CASE old # 0 /\ refCount[old] > 0
    <2>1. nzbOrphans' = nzbOrphans \cup {old} /\ discards' = discards /\ old \in SessionsNow
      BY <1>0, <1>10 DEF RegisterSession, NzbRetire, SessionsNow
    <2>2. NzbTypeOK'
      BY <1>1, <1>2, <1>6, <1>8, <1>9, <2>1 DEF NzbInv, NzbTypeOK, NzbReqType, NzbPlaces
    <2>3. RefsExact' /\ PinsKnown'
      BY <1>2, <1>4, <1>5, <2>1 DEF NzbInv, RefsExact, PinsKnown
    <2>4. OnePlace'
      BY <1>3, <1>4, <1>8, <2>1 DEF NzbInv, OnePlace
    <2>5. DirsKept' /\ BuiltOnce'
      BY <1>0, <1>1, <1>2, <1>3, <1>4, <2>1 DEF NzbInv, DirsKept, BuiltOnce
    <2> QED
      BY <1>7, <2>2, <2>3, <2>4, <2>5 DEF NzbInv
  <1>11. CASE ~(old # 0 /\ refCount[old] > 0)
    <2>1. nzbOrphans' = nzbOrphans /\ discards' = discards \cup ({old} \ {0}) /\ (old # 0 => old \in SessionsNow)
      BY <1>0, <1>11 DEF RegisterSession, NzbRetire, SessionsNow
    <2>2. NzbTypeOK'
      BY <1>1, <1>2, <1>6, <1>8, <1>9, <2>1 DEF NzbInv, NzbTypeOK, NzbReqType, NzbPlaces
    <2>3. old # 0 => NzbPins(old) = {}
      <3>1. old # 0 => refCount[old] = 0
        BY <1>9, <1>11, <2>1 DEF NzbInv, NzbTypeOK
      <3> QED
        BY <1>9, <2>1, <3>1, FewPins DEF NzbInv
    <2>4. RefsExact' /\ PinsKnown'
      BY <1>2, <1>4, <1>5, <2>1, <2>3 DEF NzbInv, RefsExact, PinsKnown, SessionsNow
    <2>5. OnePlace'
      BY <1>3, <1>4, <1>8, <2>1 DEF NzbInv, OnePlace
    <2>6. DirsKept' /\ BuiltOnce'
      BY <1>0, <1>1, <1>2, <1>3, <1>4, <2>1 DEF NzbInv, DirsKept, BuiltOnce
    <2> QED
      BY <1>7, <2>2, <2>4, <2>5, <2>6 DEF NzbInv
  <1> QED
    BY <1>10, <1>11

\* Steps that leave the requests and the counts alone: an assembly stops, a session is
\* evicted or discarded, stale directories are swept.
LEMMA NzbReclaims ==
  ASSUME NzbInv,
         \/ \E s \in NzbReqs : AssemblyStops(s) \/ Discard(s)
         \/ \E k \in NzbKeys : EvictSession(k)
         \/ SweepStale
  PROVE  NzbInv'
  <1> USE NzbAssumption
  <1>1. nzb' = nzb /\ refCount' = refCount /\ nzbBuilds' = nzbBuilds /\ nzbOrphans' = nzbOrphans
    BY DEF AssemblyStops, Discard, EvictSession, SweepStale, poolVars
  <1>2. (\A t : NzbPins(t)' = NzbPins(t)) /\ NzbOneBuild'
    BY <1>1 DEF NzbPins, NzbInv, NzbOneBuild, BuildOf
  <1>3. ASSUME NEW s \in NzbReqs, AssemblyStops(s)
        PROVE  NzbInv'
    <2>1. NzbTypeOK' /\ SessionsNow' = SessionsNow
      BY <1>1, <1>3 DEF AssemblyStops, poolVars, NzbInv, NzbTypeOK, SessionsNow
    <2> QED
      BY <1>1, <1>2, <1>3, <2>1 DEF AssemblyStops, poolVars, NzbInv, RefsExact, PinsKnown, OnePlace, DirsKept, BuiltOnce
  <1>4. ASSUME NEW s \in NzbReqs, Discard(s)
        PROVE  NzbInv'
    <2>1. NzbTypeOK' /\ SessionsNow' = SessionsNow
      BY <1>1, <1>4 DEF Discard, NzbInv, NzbTypeOK, SessionsNow
    <2>2. s \notin SessionsNow \cup nzbOrphans /\ \A r \in NzbReqs : nzb[r].at = "register" => r # s
      BY <1>4 DEF Discard, NzbInv, OnePlace, BuiltOnce
    <2> QED
      BY <1>1, <1>2, <1>4, <2>1, <2>2 DEF Discard, NzbInv, RefsExact, PinsKnown, OnePlace, DirsKept, BuiltOnce
  <1>5. ASSUME NEW k \in NzbKeys, EvictSession(k)
        PROVE  NzbInv'
    <2> DEFINE s == nzbSessions[k]
    <2>1. s \in SessionsNow /\ s \in NzbReqs
      BY <1>5 DEF EvictSession, SessionsNow, NzbInv, NzbTypeOK, NzbReqs
    <2>2. NzbPins(s) = {}
      BY <1>5, <2>1, FewPins DEF EvictSession, NzbInv
    <2>3. nzbSessions' = [nzbSessions EXCEPT ![k] = 0] /\ discards' = discards \cup {s} /\ tmpDirs' = tmpDirs
      BY <1>5 DEF EvictSession
    <2>4. SessionsNow' = SessionsNow \ {s}
      <3>1. \A j \in NzbKeys \ {k} : nzbSessions'[j] = nzbSessions[j] /\ nzbSessions[j] # s
        BY <1>5, <2>1, <2>3 DEF NzbInv, NzbTypeOK, OnePlace, SessionsNow
      <3>2. nzbSessions'[k] = 0
        BY <2>3 DEF NzbInv, NzbTypeOK
      <3> QED
        BY <3>1, <3>2 DEF SessionsNow
    <2>5. NzbTypeOK'
      BY <1>1, <1>5, <2>1, <2>3 DEF EvictSession, NzbInv, NzbTypeOK
    <2>6. \A i, j \in NzbKeys : nzbSessions'[i] = nzbSessions'[j] => i = j \/ nzbSessions'[i] = 0
      BY <2>3 DEF NzbInv, NzbTypeOK, OnePlace
    <2>7. OnePlace' /\ DirsKept' /\ BuiltOnce'
      BY <1>1, <2>1, <2>3, <2>4, <2>6 DEF NzbInv, OnePlace, DirsKept, BuiltOnce
    <2>8. RefsExact' /\ PinsKnown'
      BY <1>1, <1>2, <2>2, <2>4 DEF NzbInv, RefsExact, PinsKnown
    <2> QED
      BY <1>2, <2>5, <2>7, <2>8 DEF NzbInv
  <1>6. CASE SweepStale
    <2>1. NzbTypeOK' /\ SessionsNow' = SessionsNow /\ discards' = discards /\ nzbSessions' = nzbSessions
      BY <1>1, <1>6 DEF SweepStale, poolVars, NzbInv, NzbTypeOK, SessionsNow
    <2>2. DirsKept'
      BY <1>1, <1>6, <2>1 DEF SweepStale, NzbInv, DirsKept
    <2> QED
      BY <1>1, <1>2, <2>1, <2>2 DEF NzbInv, RefsExact, PinsKnown, OnePlace, BuiltOnce
  <1> QED
    BY <1>3, <1>4, <1>5, <1>6

\* With nobody at work and nothing registered, as at the start and after a crash.
LEMMA NzbEmpty ==
  ASSUME NzbTypeOK, nzbSessions = [k \in NzbKeys |-> 0], nzbOrphans = {}, discards = {},
         refCount = [s \in NzbReqs |-> 0], \A r \in NzbReqs : nzb[r].at \in {"idle", "end"}
  PROVE  NzbInv
  <1>1. \A s : NzbPins(s) = {}
    BY DEF NzbPins
  <1>2. SessionsNow = {}
    BY DEF SessionsNow
  <1>3. RefsExact
    BY <1>1, FS_EmptySet DEF RefsExact
  <1>4. PinsKnown /\ OnePlace /\ DirsKept /\ BuiltOnce /\ NzbOneBuild
    BY <1>1, <1>2 DEF PinsKnown, OnePlace, DirsKept, BuiltOnce, NzbOneBuild
  <1> QED
    BY <1>3, <1>4 DEF NzbInv

\* The same, after a step.
LEMMA NzbEmptyNext ==
  ASSUME NzbTypeOK', nzbSessions' = [k \in NzbKeys |-> 0], nzbOrphans' = {}, discards' = {},
         refCount' = [s \in NzbReqs |-> 0], \A r \in NzbReqs : nzb'[r].at \in {"idle", "end"}
  PROVE  NzbInv'
  <1>1. \A s : NzbPins(s)' = {}
    BY DEF NzbPins
  <1>2. SessionsNow' = {}
    BY DEF SessionsNow
  <1>3. RefsExact'
    BY <1>1, FS_EmptySet DEF RefsExact
  <1>4. PinsKnown' /\ OnePlace' /\ DirsKept' /\ BuiltOnce' /\ NzbOneBuild'
    BY <1>1, <1>2 DEF PinsKnown, OnePlace, DirsKept, BuiltOnce, NzbOneBuild
  <1> QED
    BY <1>3, <1>4 DEF NzbInv

\* The invariant holds when the server starts.
LEMMA NzbStarts == NzbInit => NzbInv
  <1> SUFFICES ASSUME NzbInit PROVE NzbInv
    OBVIOUS
  <1> USE NzbAssumption
  <1>1. NzbAt("idle") \in NzbReqType /\ NzbAt("idle").at = "idle" /\ NoSig \in NzbSigs
    BY DEF NzbAt, NoKey, NoSig, NzbReqType, NzbPlaces
  <1>2. NzbTypeOK
    BY <1>1 DEF NzbInit, NzbTypeOK, NzbReqType, NzbPlaces
  <1> QED
    BY <1>1, <1>2, NzbEmpty DEF NzbInit

\* The invariant holds after a crash.
LEMMA NzbRestarts ==
  ASSUME NzbInv, NzbRestart
  PROVE  NzbInv'
  <1> USE NzbAssumption
  <1>1. NzbAt("end") \in NzbReqType /\ NzbAt("end").at = "end"
    BY DEF NzbAt, NoKey, NoSig, NzbReqType, NzbPlaces
  <1>2. nzb' \in [NzbReqs -> NzbReqType] /\ \A r \in NzbReqs : nzb'[r].at \in {"idle", "end"}
    BY <1>1 DEF NzbRestart, NzbInv, NzbTypeOK, NzbReqType, NzbPlaces
  <1>3. NzbTypeOK'
    BY <1>2 DEF NzbRestart, NzbInv, NzbTypeOK, NzbReqType, NzbPlaces
  <1> QED
    BY <1>2, <1>3, NzbEmptyNext DEF NzbRestart

\* Every step keeps the invariant.
LEMMA NzbSteps == NzbInv /\ [NzbNext]_nzbVars => NzbInv'
  <1> SUFFICES ASSUME NzbInv, [NzbNext]_nzbVars PROVE NzbInv'
    OBVIOUS
  <1>1. ASSUME NEW r \in NzbReqs,
               CreateArrives(r) \/ StreamArrives(r) \/ NzbRuns(r) \/ FollowerLeaves(r) \/ StreamEnds(r)
        PROVE  NzbInv'
    BY <1>1, NzbQuiet, NzbDecides, NzbReleases, NzbStreams, NzbRegisters DEF NzbRuns
  <1>2. CASE UNCHANGED nzbVars
    <2>1. (\A t : NzbPins(t)' = NzbPins(t)) /\ SessionsNow' = SessionsNow
      BY <1>2 DEF nzbVars, NzbPins, SessionsNow
    <2>2. NzbTypeOK' /\ NzbOneBuild'
      BY <1>2 DEF nzbVars, NzbInv, NzbTypeOK, NzbOneBuild, BuildOf
    <2> QED
      BY <1>2, <2>1, <2>2 DEF nzbVars, NzbInv, RefsExact, PinsKnown, OnePlace, DirsKept, BuiltOnce
  <1> QED
    BY <1>1, <1>2, NzbReclaims, NzbRestarts DEF NzbNext

\* refCount is exact, a session has one place, a pinned one its directory and an
\* identical create one build, in every reachable state (nzbRetire, nzbRelease,
\* nzbEvictIdle, nzbSweepStale).
THEOREM NzbInvariant == NzbSpec => []NzbInv
  BY NzbStarts, NzbSteps, PTL DEF NzbSpec

\* A session that is streamed, or about to be, keeps its directory and is not being
\* discarded, and identical creates build once.
THEOREM NzbKeepsStreamed == NzbSpec => []StreamedIsKept
  <1>1. NzbInv => StreamedIsKept
    <2> SUFFICES ASSUME NzbInv PROVE StreamedIsKept
      OBVIOUS
    <2>1. ASSUME NEW r \in NzbReqs, nzb[r].at \in {"ensure", "stream", "health"}
          PROVE  nzb[r].of \in SessionsNow \cup nzbOrphans
      <3>1. r \in NzbPins(nzb[r].of) /\ nzb[r].of \in 0 .. NumNzb
        BY <2>1 DEF NzbPins, NzbInv, NzbTypeOK
      <3> QED
        BY <3>1 DEF NzbInv, PinsKnown
    <2> QED
      BY <2>1 DEF StreamedIsKept, NzbInv, OnePlace, DirsKept
  <1> QED
    BY <1>1, NzbInvariant, PTL

-----------------------------------------------------------------------------
(* The entries of archives *)

\* The records of EntryTypeOK.
EntryFacts == [kind : InPlaceKinds \cup {"deflated", "streamed"}, content : {"good", "bad", "long"}]
Stages == {"none", "run", "copied", "dropped", "cached", "failing", "ok", "err"}
FlightType == [st : Stages, written : 0 .. EntrySize, readers : 0 .. NumReaders, gone : BOOLEAN]
ReaderPlaces == Ended \cup {"idle", "open", "gate", "section", "extract", "join", "first", "progress", "file"}
ReaderType == [at : ReaderPlaces, pos : 0 .. EntrySize, end : 0 .. EntrySize, fl : {0} \cup Flights, gated : BOOLEAN]

\* The requests with an open handle on the file of extraction f.
Handles(f) == {r \in Readers : reader[r].at \in {"first", "progress"} /\ reader[r].fl = f}

\* readers is the number of open handles.
HandlesCounted == \A f \in Flights : flight[f].readers = Cardinality(Handles(f))

\* A file is removed only after a failure and without handles.
RemovedUnread == \A f \in Flights : flight[f].gone => Dropped(f) /\ Handles(f) = {}

\* An extraction that has not been recorded is the one in progress.
OneFlight == \A f \in Flights : flight[f].st \in {"run", "copied", "dropped"} => inflight = f

\* What was extracted to its end checked out, and the cached copy is such a one.
GoodCopies ==
  /\ \A f \in Flights : flight[f].st \in {"copied", "cached", "ok"} => entry.content = "good"
  /\ extracted # 0 => flight[extracted].st \in {"cached", "ok"}

\* A verdict is right, and where there can be one somebody has asked for it.
VerdictSound ==
  /\ verify = "ok" => entry.content = "good"
  /\ entry.kind # "tar" /\ direct # "unknown" => verify # "off"

\* What a request relies on where it is, with direct at d.
ReaderSound(x, d) ==
  /\ x.at \in {"join", "first", "progress"} => x.fl \in Flights
  /\ x.at = "gate" => d # "unknown"
  /\ entry.content # "good" => /\ x.at # "file"
                               /\ x.at = "section" => x.gated \/ entry.kind = "tar"
                               /\ x.at = "whole" => entry.kind = "tar"

EntryInv ==
  /\ EntryTypeOK /\ entry \in EntryFacts
  /\ HandlesCounted /\ RemovedUnread /\ OneFlight /\ GoodCopies /\ VerdictSound
  /\ \A r \in Readers : ReaderSound(reader[r], direct)

\* The handles of an extraction can be counted.
LEMMA HandlesFinite ==
  ASSUME NEW f
  PROVE  IsFiniteSet(Handles(f)) /\ Cardinality(Handles(f)) \in 0 .. NumReaders
  <1>1. IsFiniteSet(Readers) /\ Cardinality(Readers) = NumReaders
    BY UpToCounted, EntryAssumption DEF Readers
  <1>2. Handles(f) \in SUBSET Readers
    BY DEF Handles
  <1> QED
    BY <1>1, <1>2, FS_Subset, FS_CardinalityType, EntryAssumption

\* The same, after a step.
LEMMA HandlesFiniteNext ==
  ASSUME NEW f
  PROVE  IsFiniteSet(Handles(f)') /\ Cardinality(Handles(f)') \in 0 .. NumReaders
  <1>1. IsFiniteSet(Readers) /\ Cardinality(Readers) = NumReaders
    BY UpToCounted, EntryAssumption DEF Readers
  <1>2. Handles(f)' \in SUBSET Readers
    BY DEF Handles
  <1> QED
    BY <1>1, <1>2, FS_Subset, FS_CardinalityType, EntryAssumption

\* A request moves without opening or closing a file.
LEMMA ReaderMoves ==
  ASSUME EntryInv, NEW r \in Readers, NEW x \in ReaderType, reader' = [reader EXCEPT ![r] = x], entry' = entry,
         direct # "unknown" => direct' # "unknown", ReaderSound(x, direct'),
         x.at \in {"first", "progress"} <=> reader[r].at \in {"first", "progress"},
         x.at \in {"first", "progress"} => x.fl = reader[r].fl
  PROVE  /\ reader' \in [Readers -> ReaderType]
         /\ \A q \in Readers : ReaderSound(reader'[q], direct')
         /\ \A f : Handles(f)' = Handles(f)
  <1>1. reader \in [Readers -> ReaderType]
    BY DEF EntryInv, EntryTypeOK, ReaderType, ReaderPlaces
  <1>2. reader'[r] = x /\ (\A q \in Readers \ {r} : reader'[q] = reader[q]) /\ reader' \in [Readers -> ReaderType]
    BY <1>1
  <1>3. \A q \in Readers \ {r} : ReaderSound(reader'[q], direct')
    BY <1>2 DEF EntryInv, ReaderSound
  <1> QED
    BY <1>2, <1>3 DEF Handles

\* ReaderSound does not change while the entry is what it is.
LEMMA SoundNext ==
  ASSUME entry' = entry, \A r \in Readers : ReaderSound(reader'[r], direct')
  PROVE  (\A r \in Readers : ReaderSound(reader[r], direct))'
  BY DEF ReaderSound

\* A request moves while extractions stand still.
LEMMA ReaderAlone ==
  ASSUME EntryInv, NEW r \in Readers, NEW x \in ReaderType, reader' = [reader EXCEPT ![r] = x],
         UNCHANGED <<entry, inflight, extracted, flight>>,
         direct' \in {"unknown", "yes", "no"}, verify' \in {"off", "running", "ok", "mismatch", "failed"}, VerdictSound',
         direct # "unknown" => direct' # "unknown", ReaderSound(x, direct'),
         x.at \in {"first", "progress"} <=> reader[r].at \in {"first", "progress"},
         x.at \in {"first", "progress"} => x.fl = reader[r].fl
  PROVE  EntryInv'
  <1>1. /\ reader' \in [Readers -> ReaderType]
        /\ \A q \in Readers : ReaderSound(reader'[q], direct')
        /\ \A f : Handles(f)' = Handles(f)
    BY ReaderMoves
  <1>2. EntryTypeOK'
    BY <1>1 DEF EntryInv, EntryTypeOK, ReaderType, ReaderPlaces
  <1>3. HandlesCounted' /\ RemovedUnread' /\ OneFlight' /\ GoodCopies'
    BY <1>1 DEF EntryInv, HandlesCounted, RemovedUnread, OneFlight, GoodCopies, Dropped
  <1> QED
    BY <1>1, <1>2, <1>3, SoundNext DEF EntryInv

\* Requests that have ended, and those at a new place, have records of the type.
LEMMA ReaderRecords ==
  ASSUME EntryInv, NEW r \in Readers
  PROVE  /\ \A l \in ReaderPlaces : NoReader(l) \in ReaderType /\ NoReader(l).at = l
         /\ reader[r] \in ReaderType
         /\ \A l \in ReaderPlaces : [reader[r] EXCEPT !.at = l] \in ReaderType
  <1>1. reader[r] \in ReaderType
    BY DEF EntryInv, EntryTypeOK, ReaderType, ReaderPlaces
  <1>2. \A l \in ReaderPlaces : NoReader(l) \in ReaderType /\ NoReader(l).at = l
    BY EntryAssumption DEF NoReader, ReaderType
  <1> QED
    BY <1>1, <1>2 DEF ReaderType

\* A response that has ended otherwise than "whole" relies on nothing.
LEMMA EndsWell ==
  ASSUME EntryInv, NEW r \in Readers, NEW how \in Ended, Ends(r, how), reader[r].at \notin {"first", "progress"},
         how = "whole" => entry.content = "good" \/ entry.kind = "tar",
         UNCHANGED <<entry, direct, verify, inflight, extracted, flight>>
  PROVE  EntryInv'
  <1>1. NoReader(how) \in ReaderType /\ NoReader(how).at = how
    BY ReaderRecords DEF ReaderPlaces
  <1>2. ReaderSound(NoReader(how), direct') /\ how \notin {"first", "progress"}
    BY <1>1 DEF ReaderSound, Ended
  <1>3. VerdictSound'
    BY DEF EntryInv, VerdictSound
  <1> QED
    BY <1>1, <1>2, <1>3, ReaderAlone DEF Ends, EntryInv, EntryTypeOK

\* Advanced ends the response or moves it on.
LEMMA AdvancedMoves ==
  ASSUME EntryInv, NEW r \in Readers, NEW n \in Nat
  PROVE  \/ /\ reader[r].pos + n < reader[r].end /\ Advanced(r, n) \in ReaderType
            /\ Advanced(r, n) = [reader[r] EXCEPT !.pos = reader[r].pos + n]
         \/ /\ reader[r].pos + n >= reader[r].end
            /\ \E how \in {"whole", "part"} : Advanced(r, n) = NoReader(how) /\ (how = "whole" => reader[r].end = EntrySize)
  <1>1. reader[r] \in ReaderType
    BY ReaderRecords
  <1>2. reader[r].pos \in Nat /\ reader[r].end \in 0 .. EntrySize /\ EntrySize \in Nat
    BY <1>1, EntryAssumption DEF ReaderType
  <1>3. CASE reader[r].pos + n < reader[r].end
    <2>1. reader[r].pos + n \in 0 .. EntrySize
      BY <1>2, <1>3
    <2>2. [reader[r] EXCEPT !.pos = reader[r].pos + n] \in ReaderType
      BY <1>1, <2>1 DEF ReaderType
    <2>3. Advanced(r, n) = [reader[r] EXCEPT !.pos = reader[r].pos + n]
      BY <1>1, <1>3 DEF Advanced, ReaderType
    <2> QED
      BY <1>3, <2>2, <2>3
  <1>4. CASE ~(reader[r].pos + n < reader[r].end)
    BY <1>2, <1>4 DEF Advanced
  <1> QED
    BY <1>3, <1>4

\* A request begins, opens its entry and passes the gate.
LEMMA EntryOpens ==
  ASSUME EntryInv, NEW r \in Readers, EntryStart(r) \/ OpenEntry(r) \/ Gate(r)
  PROVE  EntryInv'
  <1> USE EntryAssumption
  <1>0. /\ reader[r] \in ReaderType /\ (\A l \in ReaderPlaces : [reader[r] EXCEPT !.at = l] \in ReaderType)
        /\ reader[r].at \notin {"first", "progress"} /\ UNCHANGED <<entry, inflight, extracted, flight>>
    BY ReaderRecords DEF EntryStart, OpenEntry, Gate
  <1>1. CASE EntryStart(r)
    <2>1. PICK a \in 0 .. EntrySize - 1 : \E b \in a + 1 .. EntrySize :
            reader' = [reader EXCEPT ![r] = [NoReader("open") EXCEPT !.pos = a, !.end = b]]
      BY <1>1 DEF EntryStart
    <2>2. PICK b \in a + 1 .. EntrySize : reader' = [reader EXCEPT ![r] = [NoReader("open") EXCEPT !.pos = a, !.end = b]]
      BY <2>1
    <2> DEFINE x == [NoReader("open") EXCEPT !.pos = a, !.end = b]
    <2>3. x \in ReaderType /\ x.at = "open"
      <3>1. a \in 0 .. EntrySize /\ b \in 0 .. EntrySize /\ "open" \in ReaderPlaces
        BY DEF ReaderPlaces
      <3>2. NoReader("open") \in ReaderType /\ NoReader("open").at = "open"
        BY <3>1, ReaderRecords
      <3> QED
        BY <3>1, <3>2 DEF ReaderType
    <2>4. ReaderSound(x, direct')
      BY <2>3 DEF ReaderSound
    <2>5. VerdictSound' /\ direct' = direct /\ verify' = verify
      BY <1>1 DEF EntryStart, EntryInv, VerdictSound
    <2> HIDE DEF x
    <2>6. reader' = [reader EXCEPT ![r] = x]
      BY <2>2 DEF x
    <2> QED
      BY <1>0, <2>3, <2>4, <2>5, <2>6, ReaderAlone DEF EntryInv, EntryTypeOK
  <1>2. CASE OpenEntry(r)
    <2>1. PICK l \in {"gate", "extract"} : /\ reader' = [reader EXCEPT ![r].at = l]
            /\ IF l = "gate" THEN /\ direct' = "yes"
                                  /\ verify' = IF direct = "unknown" /\ entry.kind # "tar" THEN "running" ELSE verify
                             ELSE UNCHANGED <<direct, verify>>
      BY <1>2 DEF OpenEntry, Reads
    <2> DEFINE x == [reader[r] EXCEPT !.at = l]
    <2>2. x \in ReaderType /\ x.at = l /\ reader' = [reader EXCEPT ![r] = x]
      BY <1>0, <2>1 DEF ReaderType, ReaderPlaces
    <2>3. ReaderSound(x, direct') /\ (direct # "unknown" => direct' # "unknown") /\ direct' \in {"unknown", "yes", "no"}
      BY <2>1, <2>2 DEF ReaderSound, EntryInv, EntryTypeOK
    <2>4. verify' \in {"off", "running", "ok", "mismatch", "failed"} /\ VerdictSound'
      BY <1>0, <2>1 DEF EntryInv, EntryTypeOK, VerdictSound
    <2> HIDE DEF x
    <2> QED
      BY <1>0, <2>2, <2>3, <2>4, ReaderAlone
  <1>3. CASE Gate(r)
    <2>0. direct # "unknown" /\ verify' = verify
      BY <1>3 DEF Gate, EntryInv, ReaderSound
    <2>1. CASE verify \in {"running", "ok", "off"} /\ UNCHANGED direct
               /\ reader' = [reader EXCEPT ![r].at = "section", ![r].gated = (verify = "running")]
      <3>0. PICK g \in BOOLEAN : g = (verify = "running")
        OBVIOUS
      <3> DEFINE x == [reader[r] EXCEPT !.at = "section", !.gated = g]
      <3>1. x \in ReaderType /\ x.at = "section" /\ x.gated = g /\ reader' = [reader EXCEPT ![r] = x]
        <4>1. x \in ReaderType /\ x.at = "section" /\ x.gated = g
          <5>1. "section" \in ReaderPlaces
            BY DEF ReaderPlaces
          <5> QED
            BY <1>0, <5>1 DEF ReaderType
        <4>2. reader' = [reader EXCEPT ![r] = x]
          BY <2>1, <3>0
        <4> QED
          BY <4>1, <4>2
      <3>2. ReaderSound(x, direct')
        BY <2>0, <2>1, <3>0, <3>1 DEF ReaderSound, EntryInv, VerdictSound
      <3>3. VerdictSound'
        BY <1>0, <2>0, <2>1 DEF EntryInv, VerdictSound
      <3> HIDE DEF x
      <3> QED
        BY <1>0, <2>0, <2>1, <3>1, <3>2, <3>3, ReaderAlone DEF EntryInv, EntryTypeOK
    <2>2. CASE verify = "mismatch" /\ Ends(r, "error") /\ UNCHANGED direct
      BY <1>0, <2>0, <2>2, EndsWell DEF Ended
    <2>3. CASE verify = "failed" /\ direct' = "no" /\ Reads(r, "extract")
      <3> DEFINE x == [reader[r] EXCEPT !.at = "extract"]
      <3>1. x \in ReaderType /\ x.at = "extract" /\ reader' = [reader EXCEPT ![r] = x]
        BY <1>0, <2>3 DEF ReaderType, ReaderPlaces, Reads
      <3>2. ReaderSound(x, direct')
        BY <3>1 DEF ReaderSound
      <3>3. VerdictSound'
        BY <1>0, <2>0, <2>3 DEF EntryInv, VerdictSound
      <3> HIDE DEF x
      <3> QED
        BY <1>0, <2>0, <2>3, <3>1, <3>2, <3>3, ReaderAlone DEF EntryInv, EntryTypeOK
    <2> QED
      BY <1>3, <2>1, <2>2, <2>3 DEF Gate
  <1> QED
    BY <1>1, <1>2, <1>3

\* A request reads in place, or from a complete copy.
LEMMA EntryReads ==
  ASSUME EntryInv, NEW r \in Readers, SectionRead(r) \/ FileRead(r)
  PROVE  EntryInv'
  <1> USE EntryAssumption
  <1>0. /\ reader[r] \in ReaderType /\ reader[r].at \in {"section", "file"}
        /\ UNCHANGED <<entry, direct, verify, inflight, extracted, flight>> /\ VerdictSound'
    BY ReaderRecords DEF SectionRead, FileRead, EntryInv, VerdictSound
  <1>1. reader[r].pos \in Nat /\ reader[r].end \in 0 .. EntrySize /\ EntrySize \in Nat
    BY <1>0 DEF ReaderType
  <1>2. ASSUME NEW n \in Nat, reader' = [reader EXCEPT ![r] = Advanced(r, n)],
               reader[r].pos + n >= EntrySize => entry.content = "good" \/ entry.kind = "tar"
        PROVE  EntryInv'
    <2>1. CASE reader[r].pos + n < reader[r].end
      <3> DEFINE x == Advanced(r, n)
      <3>1. x \in ReaderType /\ x = [reader[r] EXCEPT !.pos = reader[r].pos + n]
        BY <1>1, <2>1, AdvancedMoves
      <3>2. x.at = reader[r].at /\ x.gated = reader[r].gated
        BY <1>0, <3>1 DEF ReaderType
      <3>3. ReaderSound(x, direct')
        BY <1>0, <3>2 DEF ReaderSound, EntryInv
      <3> HIDE DEF x
      <3>4. reader' = [reader EXCEPT ![r] = x]
        BY <1>2 DEF x
      <3> QED
        BY <1>0, <3>1, <3>2, <3>3, <3>4, ReaderAlone DEF EntryInv, EntryTypeOK
    <2>2. CASE reader[r].pos + n >= reader[r].end
      <3>1. PICK how \in {"whole", "part"} : Advanced(r, n) = NoReader(how) /\ (how = "whole" => reader[r].end = EntrySize)
        BY <1>1, <2>2, AdvancedMoves
      <3>2. Ends(r, how)
        BY <1>2, <3>1 DEF Ends
      <3>3. how = "whole" => entry.content = "good" \/ entry.kind = "tar"
        BY <1>1, <1>2, <2>2, <3>1
      <3> QED
        BY <1>0, <3>2, <3>3, EndsWell DEF Ended
    <2> QED
      BY <1>1, <2>1, <2>2
  <1>3. CASE FileRead(r)
    <2>1. entry.content = "good"
      BY <1>3 DEF FileRead, EntryInv, ReaderSound
    <2>2. CASE reader[r].end - reader[r].pos \in Nat
      BY <1>2, <1>3, <2>1, <2>2 DEF FileRead
    <2>3. CASE reader[r].end - reader[r].pos \notin Nat
      <3>1. \E how \in {"whole", "part"} : Advanced(r, reader[r].end - reader[r].pos) = NoReader(how)
        BY <1>1 DEF Advanced
      <3>2. PICK how \in {"whole", "part"} : Ends(r, how)
        BY <1>3, <3>1 DEF FileRead, Ends
      <3> QED
        BY <1>0, <2>1, <3>2, EndsWell DEF Ended
    <2> QED
      BY <2>2, <2>3
  <1>4. CASE SectionRead(r)
    <2>1. PICK n \in 1 .. reader[r].end - reader[r].pos :
            IF reader[r].gated /\ reader[r].pos + n >= EntrySize
            THEN \/ verify = "ok" /\ reader' = [reader EXCEPT ![r] = [Advanced(r, n) EXCEPT !.gated = FALSE]]
                 \/ verify \in {"mismatch", "failed"} /\ Ends(r, "cut")
            ELSE reader' = [reader EXCEPT ![r] = Advanced(r, n)]
      BY <1>4 DEF SectionRead
    <2>2. n \in Nat /\ reader[r].pos + n <= reader[r].end
      BY <1>1, <2>1
    <2>3. CASE reader[r].gated /\ reader[r].pos + n >= EntrySize /\ verify = "ok"
               /\ reader' = [reader EXCEPT ![r] = [Advanced(r, n) EXCEPT !.gated = FALSE]]
      <3>1. PICK how \in {"whole", "part"} : Advanced(r, n) = NoReader(how)
        BY <1>1, <2>2, <2>3, AdvancedMoves
      <3> DEFINE x == [NoReader(how) EXCEPT !.gated = FALSE]
      <3>2. NoReader(how) \in ReaderType /\ NoReader(how).at = how
        BY ReaderRecords DEF ReaderPlaces, Ended
      <3>3. x \in ReaderType /\ x.at = how
        BY <3>2 DEF ReaderType
      <3>4. ReaderSound(x, direct') /\ reader' = [reader EXCEPT ![r] = x]
        BY <2>3, <3>1, <3>3 DEF ReaderSound, EntryInv, VerdictSound
      <3> HIDE DEF x
      <3> QED
        BY <1>0, <3>3, <3>4, ReaderAlone DEF EntryInv, EntryTypeOK
    <2>4. CASE Ends(r, "cut")
      BY <1>0, <2>4, EndsWell DEF Ended
    <2>5. CASE ~(reader[r].gated /\ reader[r].pos + n >= EntrySize)
      <3>1. reader' = [reader EXCEPT ![r] = Advanced(r, n)]
        BY <2>1, <2>5
      <3>2. reader[r].pos + n >= EntrySize => entry.content = "good" \/ entry.kind = "tar"
        BY <1>4, <2>5 DEF SectionRead, EntryInv, ReaderSound
      <3> QED
        BY <1>2, <2>2, <3>1, <3>2
    <2> QED
      BY <2>1, <2>3, <2>4, <2>5
  <1> QED
    BY <1>3, <1>4

\* A request asks for an extraction: the cached copy, the one in progress, or a new one.
LEMMA EntryExtracts ==
  ASSUME EntryInv, NEW r \in Readers, StartExtract(r)
  PROVE  EntryInv'
  <1> USE EntryAssumption
  <1>0. /\ reader[r] \in ReaderType /\ (\A l \in ReaderPlaces : [reader[r] EXCEPT !.at = l] \in ReaderType)
        /\ reader[r].at = "extract" /\ UNCHANGED <<entry, direct, verify, extracted>> /\ VerdictSound'
    BY ReaderRecords DEF StartExtract, EntryInv, VerdictSound
  <1>1. CASE extracted # 0 /\ Reads(r, "file") /\ UNCHANGED <<inflight, flight>>
    <2> DEFINE x == [reader[r] EXCEPT !.at = "file"]
    <2>1. x \in ReaderType /\ x.at = "file" /\ reader' = [reader EXCEPT ![r] = x]
      BY <1>0, <1>1 DEF ReaderType, ReaderPlaces, Reads
    <2>2. entry.content = "good"
      BY <1>1 DEF EntryInv, EntryTypeOK, GoodCopies
    <2>3. ReaderSound(x, direct')
      BY <2>1, <2>2 DEF ReaderSound
    <2> HIDE DEF x
    <2> QED
      BY <1>0, <1>1, <2>1, <2>3, ReaderAlone DEF EntryInv, EntryTypeOK
  <1>2. ASSUME NEW f \in Flights, reader' = [reader EXCEPT ![r].at = "join", ![r].fl = f]
        PROVE  \E x \in ReaderType : x.at = "join" /\ ReaderSound(x, direct') /\ reader' = [reader EXCEPT ![r] = x]
    <2> DEFINE x == [reader[r] EXCEPT !.at = "join", !.fl = f]
    <2>1. "join" \in ReaderPlaces
      BY DEF ReaderPlaces
    <2>2. x \in ReaderType /\ x.at = "join" /\ x.fl = f
      BY <1>0, <2>1 DEF ReaderType
    <2>3. reader' = [reader EXCEPT ![r] = x]
      BY <1>2
    <2>4. ReaderSound(x, direct')
      BY <2>2 DEF ReaderSound
    <2> HIDE DEF x
    <2> QED
      BY <2>2, <2>3, <2>4
  <1>3. CASE /\ extracted = 0 /\ inflight # 0 /\ UNCHANGED <<inflight, flight>>
             /\ reader' = [reader EXCEPT ![r].at = "join", ![r].fl = inflight]
    <2>1. inflight \in Flights
      BY <1>3 DEF EntryInv, EntryTypeOK
    <2>2. PICK x \in ReaderType : x.at = "join" /\ ReaderSound(x, direct') /\ reader' = [reader EXCEPT ![r] = x]
      BY <1>2, <1>3, <2>1
    <2> QED
      BY <1>0, <1>3, <2>2, ReaderAlone DEF EntryInv, EntryTypeOK
  <1>4. ASSUME extracted = 0, inflight = 0, NEW f \in Flights, flight[f].st = "none",
               flight' = [flight EXCEPT ![f].st = "run"], inflight' = f,
               reader' = [reader EXCEPT ![r].at = "join", ![r].fl = f]
        PROVE  EntryInv'
    <2>1. PICK x \in ReaderType : x.at = "join" /\ ReaderSound(x, direct') /\ reader' = [reader EXCEPT ![r] = x]
      BY <1>2, <1>4
    <2>2. /\ reader' \in [Readers -> ReaderType] /\ (\A q \in Readers : ReaderSound(reader'[q], direct'))
          /\ \A g : Handles(g)' = Handles(g)
      BY <1>0, <2>1, ReaderMoves
    <2>3. flight \in [Flights -> FlightType]
      BY DEF EntryInv, EntryTypeOK, FlightType, Stages
    <2>4. flight' \in [Flights -> FlightType] /\ flight'[f] = [flight[f] EXCEPT !.st = "run"] /\ \A g \in Flights \ {f} : flight'[g] = flight[g]
      BY <1>4, <2>3 DEF FlightType, Stages
    <2>5. flight'[f].st = "run" /\ flight'[f].readers = flight[f].readers /\ flight'[f].gone = flight[f].gone
      BY <2>3, <2>4 DEF FlightType
    <2>6. ~flight[f].gone
      BY <1>4 DEF EntryInv, RemovedUnread, Dropped
    <2>7. EntryTypeOK'
      BY <1>0, <1>4, <2>2, <2>4 DEF EntryInv, EntryTypeOK, FlightType, Stages, ReaderType, ReaderPlaces
    <2>8. HandlesCounted'
      BY <2>2, <2>4, <2>5 DEF EntryInv, HandlesCounted
    <2>9. RemovedUnread' /\ OneFlight' /\ GoodCopies'
      BY <1>0, <1>4, <2>2, <2>4, <2>5, <2>6 DEF EntryInv, EntryTypeOK, RemovedUnread, OneFlight, GoodCopies, Dropped, Flights
    <2> QED
      BY <1>0, <2>2, <2>7, <2>8, <2>9, SoundNext DEF EntryInv
  <1>5. CASE Ends(r, "error") /\ UNCHANGED <<inflight, flight>>
    BY <1>0, <1>5, EndsWell DEF Ended
  <1> QED
    BY <1>1, <1>3, <1>4, <1>5 DEF StartExtract

\* A request closes its handle and ends; the last one removes the file of a failure.
LEMMA HandleCloses ==
  ASSUME EntryInv, NEW r \in Readers, NEW f, f = reader[r].fl, reader[r].at \in {"first", "progress"}, NEW how \in Ended, Ends(r, how),
         how = "whole" => entry.content = "good",
         flight' = [flight EXCEPT ![f] = Released(f)],
         UNCHANGED <<entry, direct, verify, inflight, extracted>>
  PROVE  EntryInv'
  <1> USE EntryAssumption
  <1>0. f \in Flights
    BY DEF EntryInv, ReaderSound
  <1>1. reader \in [Readers -> ReaderType] /\ flight \in [Flights -> FlightType]
    BY DEF EntryInv, EntryTypeOK, ReaderType, ReaderPlaces, FlightType, Stages
  <1>2. NoReader(how) \in ReaderType /\ NoReader(how).at = how
    BY ReaderRecords DEF ReaderPlaces
  <1>3. reader' \in [Readers -> ReaderType] /\ reader'[r].at = how /\ \A q \in Readers \ {r} : reader'[q] = reader[q]
    BY <1>1, <1>2 DEF Ends
  <1>4. how \notin {"first", "progress", "join", "gate", "section", "file"}
    BY DEF Ended
  <1>5. \A q \in Readers : ReaderSound(reader'[q], direct')
    BY <1>3, <1>4 DEF EntryInv, ReaderSound
  <1>6. r \in Handles(f) /\ Handles(f)' = Handles(f) \ {r} /\ \A g : g # f => Handles(g)' = Handles(g)
    BY <1>3, <1>4 DEF Handles
  <1>7. flight[f].readers = Cardinality(Handles(f)) /\ IsFiniteSet(Handles(f)) /\ flight[f].readers \in Nat
    BY <1>0, HandlesFinite DEF EntryInv, HandlesCounted
  <1>8. Cardinality(Handles(f)') = flight[f].readers - 1
    BY <1>6, <1>7, FS_RemoveElement
  <1>9. PICK g \in BOOLEAN : g <=> flight[f].gone \/ (Dropped(f) /\ flight[f].readers = 1)
    OBVIOUS
  <1>10. flight[f].readers - 1 \in 0 .. NumReaders
    BY <1>8, HandlesFiniteNext
  <1>11. Released(f) = [flight[f] EXCEPT !.readers = flight[f].readers - 1, !.gone = g]
    BY <1>0, <1>1, <1>9 DEF Released, FlightType
  <1>12. Released(f) \in FlightType /\ Released(f).readers = flight[f].readers - 1 /\ Released(f).gone = g /\ Released(f).st = flight[f].st
    <2>1. flight[f] \in FlightType
      BY <1>0, <1>1
    <2>2. PICK m \in 0 .. NumReaders : m = flight[f].readers - 1
      BY <1>10
    <2> DEFINE y == [flight[f] EXCEPT !.readers = m, !.gone = g]
    <2>3. y \in FlightType /\ y.readers = m /\ y.gone = g /\ y.st = flight[f].st
      BY <2>1 DEF FlightType
    <2>4. Released(f) = y
      BY <1>11, <2>2
    <2> QED
      BY <2>2, <2>3, <2>4
  <1>13. flight' \in [Flights -> FlightType] /\ flight'[f] = Released(f) /\ \A h \in Flights \ {f} : flight'[h] = flight[h]
    BY <1>0, <1>1, <1>12
  <1>14. EntryTypeOK'
    BY <1>3, <1>13 DEF EntryInv, EntryTypeOK, FlightType, Stages, ReaderType, ReaderPlaces
  <1>15. HandlesCounted'
    BY <1>6, <1>8, <1>12, <1>13 DEF EntryInv, HandlesCounted
  <1>16. \A h \in Flights : flight'[h].st = flight[h].st
    BY <1>12, <1>13
  <1>17. RemovedUnread'
    <2>1. flight[f].readers = 1 => Handles(f)' = {}
      <3>1. flight[f].readers = 1 => Cardinality(Handles(f)') = 0
        BY <1>8
      <3>2. IsFiniteSet(Handles(f)')
        BY HandlesFiniteNext
      <3> QED
        BY <3>1, <3>2, FS_EmptySet
    <2>2. ~flight[f].gone
      BY <1>0, <1>6 DEF EntryInv, RemovedUnread
    <2>3. flight'[f].gone => Dropped(f) /\ Handles(f)' = {}
      BY <1>9, <1>12, <1>13, <2>1, <2>2
    <2>4. \A h \in Flights : flight'[h].gone => flight'[h].st \in {"dropped", "failing", "err"} /\ Handles(h)' = {}
      BY <1>6, <1>13, <1>16, <2>3 DEF EntryInv, RemovedUnread, Dropped
    <2> QED
      BY <2>4 DEF RemovedUnread, Dropped
  <1>18. OneFlight' /\ GoodCopies' /\ VerdictSound'
    BY <1>16 DEF EntryInv, EntryTypeOK, OneFlight, GoodCopies, VerdictSound
  <1> QED
    BY <1>5, <1>14, <1>15, <1>17, <1>18, SoundNext DEF EntryInv

\* A request waits for an extraction, or registers and opens its file.
LEMMA EntryJoins ==
  ASSUME EntryInv, NEW r \in Readers, JoinFlight(r)
  PROVE  EntryInv'
  <1> USE EntryAssumption
  <1>a. PICK f : f = reader[r].fl
    OBVIOUS
  <1>0. /\ reader[r] \in ReaderType /\ (\A l \in ReaderPlaces : [reader[r] EXCEPT !.at = l] \in ReaderType)
        /\ reader[r].at = "join" /\ UNCHANGED <<entry, direct, verify, inflight, extracted>> /\ f \in Flights /\ VerdictSound'
    BY <1>a, ReaderRecords DEF JoinFlight, EntryInv, VerdictSound, ReaderSound
  <1>1. CASE flight[f].st = "ok" /\ Reads(r, "file") /\ UNCHANGED flight
    <2> DEFINE x == [reader[r] EXCEPT !.at = "file"]
    <2>1. x \in ReaderType /\ x.at = "file" /\ reader' = [reader EXCEPT ![r] = x]
      BY <1>a, <1>0, <1>1 DEF ReaderType, ReaderPlaces, Reads
    <2>2. ReaderSound(x, direct')
      BY <1>a, <1>0, <1>1, <2>1 DEF ReaderSound, EntryInv, GoodCopies
    <2> HIDE DEF x
    <2> QED
      BY <1>a, <1>0, <1>1, <2>1, <2>2, ReaderAlone DEF EntryInv, EntryTypeOK
  <1>2. CASE Ends(r, "error") /\ UNCHANGED flight
    BY <1>a, <1>0, <1>2, EndsWell DEF Ended
  <1>3. CASE ~Dropped(f) /\ flight' = [flight EXCEPT ![f].readers = @ + 1] /\ Reads(r, "first")
    <2>1. reader \in [Readers -> ReaderType] /\ flight \in [Flights -> FlightType]
      BY DEF EntryInv, EntryTypeOK, ReaderType, ReaderPlaces, FlightType, Stages
    <2>2. /\ reader' \in [Readers -> ReaderType] /\ reader'[r].at = "first" /\ reader'[r].fl = f
          /\ \A q \in Readers \ {r} : reader'[q] = reader[q]
      BY <1>a, <1>0, <1>3, <2>1 DEF ReaderType, ReaderPlaces, Reads
    <2>3. \A q \in Readers : ReaderSound(reader'[q], direct')
      BY <1>a, <1>0, <2>2 DEF EntryInv, ReaderSound
    <2>4. r \notin Handles(f) /\ Handles(f)' = Handles(f) \cup {r} /\ \A g : g # f => Handles(g)' = Handles(g)
      BY <1>a, <1>0, <2>2 DEF Handles
    <2>5. Cardinality(Handles(f)') = flight[f].readers + 1
      BY <1>a, <1>0, <2>4, HandlesFinite, FS_AddElement DEF EntryInv, HandlesCounted
    <2>6. flight[f].readers + 1 \in 0 .. NumReaders
      BY <2>5, HandlesFiniteNext
    <2>7. /\ flight' \in [Flights -> FlightType] /\ \A h \in Flights \ {f} : flight'[h] = flight[h]
          /\ flight'[f].readers = flight[f].readers + 1 /\ flight'[f].st = flight[f].st /\ flight'[f].gone = flight[f].gone
      BY <1>a, <1>0, <1>3, <2>1, <2>6 DEF FlightType
    <2>8. EntryTypeOK'
      BY <1>a, <1>0, <2>2, <2>7 DEF EntryInv, EntryTypeOK, FlightType, Stages, ReaderType, ReaderPlaces
    <2>9. HandlesCounted'
      BY <2>4, <2>5, <2>7 DEF EntryInv, HandlesCounted
    <2>10. \A h \in Flights : flight'[h].st = flight[h].st
      BY <2>7
    <2>11. RemovedUnread'
      BY <1>a, <1>0, <1>3, <2>4, <2>7 DEF EntryInv, RemovedUnread, Dropped
    <2>12. OneFlight' /\ GoodCopies'
      BY <1>a, <1>0, <2>10 DEF EntryInv, EntryTypeOK, OneFlight, GoodCopies
    <2> QED
      BY <1>a, <1>0, <2>3, <2>8, <2>9, <2>11, <2>12, SoundNext DEF EntryInv
  <1> QED
    BY <1>a, <1>1, <1>2, <1>3 DEF JoinFlight

\* A request reads what an extraction has written, and its client may go away.
LEMMA EntryFollows ==
  ASSUME EntryInv, NEW r \in Readers, FirstChunk(r) \/ ProgressRead(r) \/ ClientGone(r)
  PROVE  EntryInv'
  <1> USE EntryAssumption
  <1> DEFINE f == reader[r].fl
  <1>0. /\ reader[r] \in ReaderType /\ (\A l \in ReaderPlaces : [reader[r] EXCEPT !.at = l] \in ReaderType)
        /\ UNCHANGED <<entry, direct, verify, inflight, extracted>> /\ VerdictSound'
    BY ReaderRecords DEF FirstChunk, ProgressRead, ClientGone, EntryInv, VerdictSound
  <1>1. ASSUME reader[r].at \in {"first", "progress"}, NEW how \in {"error", "cut"}, Leave(r, how)
        PROVE  EntryInv'
    BY <1>0, <1>1, HandleCloses DEF Leave, Ended
  <1>2. CASE ClientGone(r)
    BY <1>0, <1>1, <1>2, EndsWell DEF ClientGone, Ended
  <1>3. CASE FirstChunk(r)
    <2>1. CASE Leave(r, "error")
      BY <1>1, <1>3, <2>1 DEF FirstChunk
    <2>2. CASE Reads(r, "progress") /\ UNCHANGED flight
      <3> DEFINE x == [reader[r] EXCEPT !.at = "progress"]
      <3>1. x \in ReaderType /\ x.at = "progress" /\ x.fl = f /\ reader' = [reader EXCEPT ![r] = x]
        BY <1>0, <2>2 DEF ReaderType, ReaderPlaces, Reads
      <3>2. f \in Flights
        BY <1>3 DEF FirstChunk, EntryInv, ReaderSound
      <3>3. ReaderSound(x, direct')
        BY <3>1, <3>2 DEF ReaderSound
      <3> HIDE DEF x
      <3> QED
        BY <1>0, <1>3, <2>2, <3>1, <3>3, ReaderAlone DEF FirstChunk, EntryInv, EntryTypeOK
    <2> QED
      BY <1>3, <2>1, <2>2 DEF FirstChunk
  <1>4. CASE ProgressRead(r)
    <2>0. reader[r].at = "progress" /\ f \in Flights
      BY <1>4 DEF ProgressRead, EntryInv, ReaderSound
    <2>1. CASE Leave(r, "cut")
      BY <1>1, <2>0, <2>1
    <2>2. CASE ~Leave(r, "cut")
      <3>1. PICK n \in 1 .. reader[r].end - reader[r].pos :
              /\ flight[f].st # "err" /\ (reader[r].pos + n >= EntrySize => Finished(f))
              /\ reader' = [reader EXCEPT ![r] = Advanced(r, n)]
              /\ flight' = IF Advanced(r, n).at \in Ended THEN [flight EXCEPT ![f] = Released(f)] ELSE flight
        BY <1>4, <2>2 DEF ProgressRead
      <3>2. reader[r].pos \in Nat /\ reader[r].end \in 0 .. EntrySize /\ n \in Nat
        BY <1>0 DEF ReaderType
      <3>3. CASE reader[r].pos + n < reader[r].end
        <4> DEFINE x == Advanced(r, n)
        <4>1. x \in ReaderType /\ x = [reader[r] EXCEPT !.pos = reader[r].pos + n]
          BY <3>2, <3>3, AdvancedMoves
        <4>2. x.at = "progress" /\ x.fl = f
          BY <1>0, <2>0, <4>1 DEF ReaderType
        <4>3. ReaderSound(x, direct') /\ flight' = flight
          BY <2>0, <3>1, <4>2 DEF ReaderSound, Ended
        <4>4. reader' = [reader EXCEPT ![r] = x]
          BY <3>1
        <4> HIDE DEF x
        <4> QED
          BY <1>0, <2>0, <4>1, <4>2, <4>3, <4>4, ReaderAlone DEF EntryInv, EntryTypeOK
      <3>4. CASE reader[r].pos + n >= reader[r].end
        <4>1. PICK how \in {"whole", "part"} : Advanced(r, n) = NoReader(how) /\ (how = "whole" => reader[r].end = EntrySize)
          BY <3>2, <3>4, AdvancedMoves
        <4>2. Ends(r, how) /\ how \in Ended /\ Advanced(r, n).at \in Ended
          BY <3>1, <4>1, ReaderRecords DEF Ends, Ended, ReaderPlaces
        <4>3. how = "whole" => entry.content = "good"
          BY <2>0, <3>1, <3>2, <3>4, <4>1 DEF Finished, EntryInv, GoodCopies
        <4> QED
          BY <1>0, <2>0, <3>1, <4>2, <4>3, HandleCloses
      <3> QED
        BY <3>2, <3>3, <3>4
    <2> QED
      BY <2>1, <2>2
  <1> QED
    BY <1>2, <1>3, <1>4

\* An extraction goes on while requests stand still: x is its new record.
LEMMA FlightAlone ==
  ASSUME EntryInv, NEW f \in Flights, NEW x \in FlightType, flight' = [flight EXCEPT ![f] = x],
         x.readers = flight[f].readers, x.gone => x.st \in {"dropped", "failing", "err"} /\ Handles(f) = {},
         UNCHANGED <<entry, direct, verify, reader>>, inflight' \in {0} \cup Flights, extracted' \in {0} \cup Flights,
         OneFlight', GoodCopies'
  PROVE  EntryInv'
  <1>1. flight \in [Flights -> FlightType]
    BY DEF EntryInv, EntryTypeOK, FlightType, Stages
  <1>2. flight' \in [Flights -> FlightType] /\ flight'[f] = x /\ \A g \in Flights \ {f} : flight'[g] = flight[g]
    BY <1>1
  <1>3. \A g : Handles(g)' = Handles(g)
    BY DEF Handles
  <1>4. EntryTypeOK'
    BY <1>2 DEF EntryInv, EntryTypeOK, FlightType, Stages
  <1>5. HandlesCounted' /\ RemovedUnread' /\ VerdictSound'
    BY <1>2, <1>3 DEF EntryInv, HandlesCounted, RemovedUnread, VerdictSound, Dropped
  <1>6. \A r \in Readers : ReaderSound(reader'[r], direct')
    BY DEF EntryInv
  <1> QED
    BY <1>4, <1>5, <1>6, SoundNext DEF EntryInv

\* The goroutine of an extraction: chunks, its end, what the session and readers learn.
LEMMA EntryFlies ==
  ASSUME EntryInv, NEW f \in Flights, FlightStep(f)
  PROVE  EntryInv'
  <1> USE EntryAssumption
  <1>0. flight \in [Flights -> FlightType] /\ flight[f] \in FlightType /\ UNCHANGED <<entry, direct, verify, reader>>
    BY DEF EntryInv, EntryTypeOK, FlightType, Stages, FlightStep, CopyChunk, CopyEnds, Record, FinishFlight
  <1>1. CASE CopyChunk(f)
    <2>1. PICK n \in 0 .. EntrySize : n = flight[f].written + 1
      BY <1>0, <1>1 DEF CopyChunk, FlightType
    <2> DEFINE x == [flight[f] EXCEPT !.written = n]
    <2>2. x \in FlightType /\ x.readers = flight[f].readers /\ x.gone = flight[f].gone /\ x.st = flight[f].st
      BY <1>0 DEF FlightType
    <2>3. flight' = [flight EXCEPT ![f] = x]
      BY <1>1, <2>1 DEF CopyChunk
    <2>4. flight'[f] = x /\ (\A g \in Flights \ {f} : flight'[g] = flight[g]) /\ inflight' = inflight /\ extracted' = extracted
      BY <1>0, <1>1, <2>3 DEF CopyChunk
    <2>5. \A g \in Flights : flight'[g].st = flight[g].st
      BY <2>2, <2>4
    <2>6. OneFlight' /\ GoodCopies'
      BY <1>0, <2>4, <2>5 DEF EntryInv, EntryTypeOK, OneFlight, GoodCopies
    <2>7. x.gone => x.st \in {"dropped", "failing", "err"} /\ Handles(f) = {}
      BY <2>2 DEF EntryInv, RemovedUnread, Dropped
    <2> HIDE DEF x
    <2> QED
      BY <1>0, <2>2, <2>3, <2>4, <2>6, <2>7, FlightAlone DEF EntryInv, EntryTypeOK
  <1>2. CASE CopyEnds(f)
    <2>1. flight[f].st = "run" /\ UNCHANGED <<inflight, extracted>> /\ ~flight[f].gone
      BY <1>2 DEF CopyEnds, EntryInv, RemovedUnread, Dropped
    <2>2. CASE entry.content = "good" /\ flight' = [flight EXCEPT ![f].st = "copied"]
      <3> DEFINE x == [flight[f] EXCEPT !.st = "copied"]
      <3>1. x \in FlightType /\ x.readers = flight[f].readers /\ x.gone = flight[f].gone /\ x.st = "copied"
        BY <1>0 DEF FlightType, Stages
      <3>2. flight' = [flight EXCEPT ![f] = x]
        BY <2>2
      <3>3. flight'[f].st = "copied" /\ \A g \in Flights \ {f} : flight'[g] = flight[g]
        BY <1>0, <3>1, <3>2
      <3>4. OneFlight' /\ GoodCopies'
        BY <1>0, <2>1, <2>2, <3>3 DEF EntryInv, EntryTypeOK, OneFlight, GoodCopies
      <3> HIDE DEF x
      <3> QED
        BY <1>0, <2>1, <3>1, <3>2, <3>4, FlightAlone DEF EntryInv, EntryTypeOK
    <2>3. CASE flight' = [flight EXCEPT ![f] = DropFile(f)]
      <3>1. PICK g \in BOOLEAN : g <=> flight[f].readers = 0
        OBVIOUS
      <3> DEFINE x == [flight[f] EXCEPT !.st = "dropped", !.gone = g]
      <3>2. x \in FlightType /\ x.readers = flight[f].readers /\ x.gone = g /\ x.st = "dropped"
        BY <1>0 DEF FlightType, Stages
      <3>3. flight' = [flight EXCEPT ![f] = x]
        BY <2>3, <3>1 DEF DropFile
      <3>4. flight'[f].st = "dropped" /\ \A h \in Flights \ {f} : flight'[h] = flight[h]
        BY <1>0, <3>2, <3>3
      <3>5. OneFlight' /\ GoodCopies'
        BY <1>0, <2>1, <3>4 DEF EntryInv, EntryTypeOK, OneFlight, GoodCopies
      <3>6. x.gone => Handles(f) = {}
        BY <3>1, <3>2, HandlesFinite, FS_EmptySet DEF EntryInv, HandlesCounted
      <3> HIDE DEF x
      <3> QED
        BY <1>0, <2>1, <3>2, <3>3, <3>5, <3>6, FlightAlone DEF EntryInv, EntryTypeOK
    <2> QED
      BY <1>2, <2>2, <2>3 DEF CopyEnds
  <1>3. CASE Record(f)
    <2>1. /\ flight[f].st \in {"copied", "dropped"} /\ inflight' = 0 /\ inflight = f
          /\ extracted' = IF flight[f].st = "copied" THEN f ELSE extracted
      BY <1>3 DEF Record, EntryInv, OneFlight
    <2>2. PICK l \in {"cached", "failing"} : (l = "cached" <=> flight[f].st = "copied") /\ flight' = [flight EXCEPT ![f].st = l]
      BY <1>3, <2>1 DEF Record
    <2> DEFINE x == [flight[f] EXCEPT !.st = l]
    <2>3. x \in FlightType /\ x.readers = flight[f].readers /\ x.gone = flight[f].gone /\ x.st = l
      BY <1>0 DEF FlightType, Stages
    <2>4. flight' = [flight EXCEPT ![f] = x]
      BY <2>2
    <2>5. flight'[f].st = l /\ \A g \in Flights \ {f} : flight'[g] = flight[g]
      BY <1>0, <2>3, <2>4
    <2>6. OneFlight'
      BY <2>1, <2>5 DEF EntryInv, OneFlight
    <2>7. GoodCopies'
      BY <1>0, <2>1, <2>2, <2>5 DEF EntryInv, EntryTypeOK, GoodCopies
    <2>8. x.gone => x.st \in {"dropped", "failing", "err"} /\ Handles(f) = {}
      BY <2>1, <2>2, <2>3 DEF EntryInv, RemovedUnread, Dropped
    <2>9. inflight' \in {0} \cup Flights /\ extracted' \in {0} \cup Flights
      BY <2>1 DEF EntryInv, EntryTypeOK
    <2> HIDE DEF x
    <2> QED
      BY <1>0, <2>3, <2>4, <2>6, <2>7, <2>8, <2>9, FlightAlone
  <1>4. CASE FinishFlight(f)
    <2>1. flight[f].st \in {"cached", "failing"} /\ UNCHANGED <<inflight, extracted>>
      BY <1>4 DEF FinishFlight
    <2>2. PICK l \in {"ok", "err"} : (l = "ok" <=> flight[f].st = "cached") /\ flight' = [flight EXCEPT ![f].st = l]
      BY <1>4, <2>1 DEF FinishFlight
    <2> DEFINE x == [flight[f] EXCEPT !.st = l]
    <2>3. x \in FlightType /\ x.readers = flight[f].readers /\ x.gone = flight[f].gone /\ x.st = l
      BY <1>0 DEF FlightType, Stages
    <2>4. flight' = [flight EXCEPT ![f] = x]
      BY <2>2
    <2>5. flight'[f].st = l /\ \A g \in Flights \ {f} : flight'[g] = flight[g]
      BY <1>0, <2>3, <2>4
    <2>6. OneFlight' /\ GoodCopies'
      BY <1>0, <2>1, <2>2, <2>5 DEF EntryInv, EntryTypeOK, OneFlight, GoodCopies
    <2>7. x.gone => x.st \in {"dropped", "failing", "err"} /\ Handles(f) = {}
      BY <2>1, <2>2, <2>3 DEF EntryInv, RemovedUnread, Dropped
    <2> HIDE DEF x
    <2> QED
      BY <1>0, <2>1, <2>3, <2>4, <2>6, <2>7, FlightAlone DEF EntryInv, EntryTypeOK
  <1> QED
    BY <1>1, <1>2, <1>3, <1>4 DEF FlightStep

\* Requests and extractions stand still: a verdict, a teardown, a stutter.
LEMMA EntryStill ==
  ASSUME EntryInv, UNCHANGED <<entry, direct, inflight, extracted, flight, reader>>,
         Verified \/ verify' = verify
  PROVE  EntryInv'
  <1>1. \A f : Handles(f)' = Handles(f)
    BY DEF Handles
  <1>2. EntryTypeOK' /\ VerdictSound'
    BY DEF EntryInv, EntryTypeOK, VerdictSound, Verified
  <1>3. HandlesCounted' /\ RemovedUnread' /\ OneFlight' /\ GoodCopies'
    BY <1>1 DEF EntryInv, HandlesCounted, RemovedUnread, OneFlight, GoodCopies, Dropped
  <1>4. \A r \in Readers : ReaderSound(reader'[r], direct')
    BY DEF EntryInv
  <1> QED
    BY <1>2, <1>3, <1>4, SoundNext DEF EntryInv

\* The invariant holds for every entry when its session is created.
LEMMA EntryStarts == EntryInit => EntryInv
  <1> SUFFICES ASSUME EntryInit PROVE EntryInv
    OBVIOUS
  <1> USE EntryAssumption
  <1>1. reader = [r \in Readers |-> NoReader("idle")] /\ NoReader("idle") \in ReaderType /\ NoReader("idle").at = "idle"
    BY DEF EntryInit, NoReader, ReaderType, ReaderPlaces
  <1>2. /\ flight = [f \in Flights |-> [st |-> "none", written |-> 0, readers |-> 0, gone |-> FALSE]]
        /\ \A f \in Flights : flight[f] \in FlightType /\ flight[f].st = "none" /\ flight[f].readers = 0 /\ ~flight[f].gone
    BY DEF EntryInit, FlightType, Stages
  <1>3. flight \in [Flights -> FlightType] /\ reader \in [Readers -> ReaderType]
    BY <1>1, <1>2
  <1>4. EntryTypeOK /\ entry \in EntryFacts
    BY <1>3 DEF EntryInit, EntryTypeOK, EntryFacts, FlightType, Stages, ReaderType, ReaderPlaces
  <1>5. \A f : Handles(f) = {}
    BY <1>1 DEF Handles
  <1>6. HandlesCounted /\ RemovedUnread /\ OneFlight
    BY <1>2, <1>5, FS_EmptySet DEF HandlesCounted, RemovedUnread, OneFlight
  <1>7. GoodCopies /\ VerdictSound
    BY <1>2 DEF EntryInit, GoodCopies, VerdictSound
  <1>8. \A r \in Readers : ReaderSound(reader[r], direct)
    BY <1>1 DEF ReaderSound
  <1> QED
    BY <1>4, <1>6, <1>7, <1>8 DEF EntryInv

\* Every step keeps it.
LEMMA EntrySteps == EntryInv /\ [EntryNext]_entryVars => EntryInv'
  <1> SUFFICES ASSUME EntryInv, [EntryNext]_entryVars PROVE EntryInv'
    OBVIOUS
  <1>1. ASSUME NEW r \in Readers, EntryStart(r) \/ ReaderStep(r) \/ ClientGone(r)
        PROVE  EntryInv'
    BY <1>1, EntryOpens, EntryReads, EntryExtracts, EntryJoins, EntryFollows DEF ReaderStep
  <1>2. ASSUME NEW f \in Flights, FlightStep(f)
        PROVE  EntryInv'
    BY <1>2, EntryFlies
  <1>3. CASE Verified \/ Cancel \/ RemoveFiles \/ UNCHANGED entryVars
    BY <1>3, EntryStill DEF Verified, Cancel, RemoveFiles, entryVars
  <1> QED
    BY <1>1, <1>2, <1>3 DEF EntryNext

\* A clean response to the end of an entry with a checksum is one of a sound entry, and no
\* file is removed under an open handle (archiveOpenInPlace, archiveSectionFile,
\* archiveProgressReader, dropFile), for every number of requests, chunks and extractions.
THEOREM EntryWholeIsGood == EntrySpec => []WholeIsGood
  <1>1. EntryInv => WholeIsGood
    <2> SUFFICES ASSUME EntryInv PROVE WholeIsGood
      OBVIOUS
    <2>1. NoOpenFileRemoved
      <3>1. ASSUME NEW f \in Flights, flight[f].gone
            PROVE  flight[f].st # "run" /\ \A r \in Readers : reader[r].at \in {"first", "progress"} => reader[r].fl # f
        BY <3>1 DEF EntryInv, RemovedUnread, Dropped, Handles
      <3>2. extracted # 0 => ~flight[extracted].gone
        BY DEF EntryInv, EntryTypeOK, GoodCopies, RemovedUnread, Dropped
      <3> QED
        BY <3>1, <3>2 DEF NoOpenFileRemoved
    <2> QED
      BY <2>1 DEF WholeIsGood, EntryInv, ReaderSound
  <1> QED
    BY <1>1, EntryStarts, EntrySteps, PTL DEF EntrySpec

-----------------------------------------------------------------------------
(* The sessions of archives *)

\* Requests and sessions, as the code has them.
ArcPlaces == {"idle", "decide", "acquire", "serve", "served", "check", "await", "build", "finish", "end"}
ArcReqType == [at : ArcPlaces, target : ArcTargets, on : 0 .. NumArc]
SessPlaces == {"none", "download", "live", "retired", "out", "orphan", "gone"}
SessType == [place : SessPlaces, target : ArcTargets, ref : 0 .. NumArc, failed : BOOLEAN, bytes : 0 .. 1]

\* refCount is the number of requests that hold the session.
ArcRefs == \A i \in ArcReqs : sess[i].ref = Cardinality(Pinning(i))

\* A session somebody holds is registered or waits for its last reader.
ArcPinned == \A i \in 0 .. NumArc : Pinning(i) # {} => i # 0 /\ sess[i].place \in {"live", "retired"}

\* Keys lead to live sessions of that key, and every live session is found by its key.
ArcKeyed ==
  /\ \A i \in ArcReqs : sess[i].place = "live" => sessions[sess[i].target[1]] = i
  /\ \A k \in ArcKeys : sessions[k] # 0 => sess[sessions[k]].place = "live" /\ sess[sessions[k]].target[1] = k

\* A build is the one that is found under its target, and downloads what it was asked for.
ArcBuilding ==
  \A r \in ArcReqs : arc[r].at = "build" =>
    builds[arc[r].target] = r /\ sess[r].place = "download" /\ sess[r].target = arc[r].target

\* A request that has not led a build has no session of its own.
ArcUnbuilt == \A r \in ArcReqs : arc[r].at \notin {"build", "finish", "end"} => sess[r].place = "none"

ArcInv ==
  /\ ArcTypeOK /\ arc \in [ArcReqs -> ArcReqType]
  /\ ArcRefs /\ ArcPinned /\ ArcKeyed /\ ArcBuilding /\ ArcUnbuilt

LEMMA ArcCounted == IsFiniteSet(ArcReqs) /\ Cardinality(ArcReqs) = NumArc
  BY UpToCounted, ArcAssumption DEF ArcReqs

\* The holders of a session can be counted.
LEMMA PinningFinite ==
  ASSUME NEW i
  PROVE  IsFiniteSet(Pinning(i)) /\ Cardinality(Pinning(i)) \in 0 .. NumArc
  <1>1. IsFiniteSet(ArcReqs) /\ Cardinality(ArcReqs) = NumArc
    BY ArcCounted
  <1>2. Pinning(i) \in SUBSET ArcReqs
    BY DEF Pinning
  <1> QED
    BY <1>1, <1>2, FS_Subset, FS_CardinalityType, ArcAssumption

\* The same, after a step.
LEMMA PinningFiniteNext ==
  ASSUME NEW i
  PROVE  IsFiniteSet(Pinning(i)') /\ Cardinality(Pinning(i)') \in 0 .. NumArc
  <1>1. IsFiniteSet(ArcReqs) /\ Cardinality(ArcReqs) = NumArc
    BY ArcCounted
  <1>2. Pinning(i)' \in SUBSET ArcReqs
    BY DEF Pinning
  <1> QED
    BY <1>1, <1>2, FS_Subset, FS_CardinalityType, ArcAssumption

\* What ArcInv says of types, in terms of the records.
LEMMA ArcTyped ==
  ASSUME ArcInv
  PROVE  /\ sess \in [ArcReqs -> SessType] /\ arc \in [ArcReqs -> ArcReqType]
         /\ sessions \in [ArcKeys -> {0} \cup ArcReqs] /\ builds \in [ArcTargets -> {0} \cup ArcReqs] /\ capChecks \subseteq ArcReqs
         /\ NoSession \in SessType /\ NoSession.place = "none" /\ NoSession.ref = 0
         /\ Gone \in SessType /\ Gone.place = "gone" /\ Gone.ref = 0
         /\ \A r \in ArcReqs : KeyOf(r) \in ArcKeys /\ arc[r].target \in ArcTargets
         /\ \A i \in ArcReqs : sess[i].target[1] \in ArcKeys
         /\ NumArc \in Nat /\ 0 \notin ArcReqs
  <1>1. NumArc \in Nat /\ 0 \notin ArcReqs /\ FirstTarget \in ArcTargets
    BY ArcAssumption DEF ArcReqs, FirstTarget
  <1>2. NoSession \in SessType /\ NoSession.place = "none" /\ NoSession.ref = 0
    BY <1>1 DEF NoSession, SessType, SessPlaces
  <1>3. Gone \in SessType /\ Gone.place = "gone" /\ Gone.ref = 0
    BY <1>2 DEF Gone, SessType, SessPlaces
  <1>4. sess \in [ArcReqs -> SessType]
    BY DEF ArcInv, ArcTypeOK, SessType, SessPlaces
  <1>5. \A r \in ArcReqs : KeyOf(r) \in ArcKeys /\ arc[r].target \in ArcTargets
    BY DEF ArcInv, KeyOf, ArcKeys, ArcReqType
  <1>6. \A i \in ArcReqs : sess[i].target[1] \in ArcKeys
    BY <1>4 DEF ArcKeys, SessType
  <1> QED
    BY <1>1, <1>2, <1>3, <1>4, <1>5, <1>6 DEF ArcInv, ArcTypeOK

\* What ArcGoto does, and what it leaves alone.
LEMMA ArcGoes ==
  ASSUME ArcInv, NEW r \in ArcReqs, NEW l \in ArcPlaces, ArcGoto(r, l)
  PROVE  /\ arc' \in [ArcReqs -> ArcReqType] /\ arc'[r].at = l
         /\ \A q \in ArcReqs \ {r} : arc'[q] = arc[q]
         /\ l # "end" => arc'[r].target = arc[r].target /\ arc'[r].on = arc[r].on
  <1>1. NoArc("end") \in ArcReqType /\ NoArc("end").at = "end"
    BY ArcAssumption DEF NoArc, FirstTarget, ArcReqType, ArcPlaces
  <1>2. arc \in [ArcReqs -> ArcReqType]
    BY DEF ArcInv
  <1> QED
    BY <1>1, <1>2 DEF ArcGoto, ArcReqType

\* A request moves without a pin, before or after; sessions stay.
LEMMA ArcFrame ==
  ASSUME ArcInv, NEW r \in ArcReqs, arc' \in [ArcReqs -> ArcReqType], \A q \in ArcReqs \ {r} : arc'[q] = arc[q],
         arc[r].at \notin {"check", "serve", "served", "build"}, arc'[r].at \notin {"check", "serve", "served", "build"},
         arc[r].at \in {"finish", "end"} => arc'[r].at \in {"finish", "end"},
         UNCHANGED <<sess, sessions, capChecks>>, builds' \in [ArcTargets -> {0} \cup ArcReqs],
         \A t \in ArcTargets : builds[t] \notin {0, r} => builds'[t] = builds[t]
  PROVE  ArcInv'
  <1>1. \A i : Pinning(i)' = Pinning(i)
    BY DEF Pinning
  <1>2. ArcTypeOK'
    BY DEF ArcInv, ArcTypeOK
  <1>3. ArcRefs' /\ ArcPinned' /\ ArcKeyed'
    BY <1>1 DEF ArcInv, ArcRefs, ArcPinned, ArcKeyed
  <1>4. ArcBuilding'
    BY ArcTyped DEF ArcInv, ArcBuilding
  <1>5. ArcUnbuilt'
    BY DEF ArcInv, ArcUnbuilt
  <1> QED
    BY <1>2, <1>3, <1>4, <1>5 DEF ArcInv

\* Requests begin, find nothing, wait and end.
LEMMA ArcQuiet ==
  ASSUME ArcInv, NEW r \in ArcReqs,
         ArcStart(r) \/ ArcAwaited(r, TRUE) \/ ArcAwaited(r, FALSE) \/ ArcFinish(r)
         \/ (ArcAcquire(r) /\ sessions[KeyOf(r)] = 0)
         \/ (/\ arc[r].at = "decide" /\ builds[arc[r].target] # 0
             /\ arc' = [arc EXCEPT ![r].at = "await", ![r].on = builds[arc[r].target]]
             /\ UNCHANGED <<sess, recent, builds, sessions, capChecks, arcRestarts>>)
  PROVE  ArcInv'
  <1>0. builds \in [ArcTargets -> {0} \cup ArcReqs] /\ arc \in [ArcReqs -> ArcReqType] /\ arc[r].target \in ArcTargets
    BY ArcTyped
  <1>1. CASE ArcStart(r)
    <2>1. PICK t \in ArcTargets, l \in {"decide", "acquire"} : arc' = [arc EXCEPT ![r] = [at |-> l, target |-> t, on |-> 0]]
      BY <1>1 DEF ArcStart
    <2>2. [at |-> l, target |-> t, on |-> 0] \in ArcReqType
      BY ArcTyped DEF ArcReqType, ArcPlaces
    <2>3. arc' \in [ArcReqs -> ArcReqType] /\ arc'[r].at = l /\ \A q \in ArcReqs \ {r} : arc'[q] = arc[q]
      BY <1>0, <2>1, <2>2
    <2> QED
      BY <1>0, <1>1, <2>3, ArcFrame DEF ArcStart
  <1>2. CASE ArcAwaited(r, TRUE) \/ ArcAwaited(r, FALSE)
    <2>1. arc[r].at = "await" /\ ArcGoto(r, "end") /\ UNCHANGED <<sess, sessions, builds, capChecks>>
      BY <1>2 DEF ArcAwaited
    <2>2. arc' \in [ArcReqs -> ArcReqType] /\ arc'[r].at = "end" /\ \A q \in ArcReqs \ {r} : arc'[q] = arc[q]
      BY <2>1, ArcGoes DEF ArcPlaces
    <2> QED
      BY <1>0, <2>1, <2>2, ArcFrame
  <1>3. CASE ArcFinish(r)
    <2>1. /\ arc[r].at = "finish" /\ ArcGoto(r, "end") /\ UNCHANGED <<sess, sessions, capChecks>>
          /\ builds' = IF builds[arc[r].target] = r THEN [builds EXCEPT ![arc[r].target] = 0] ELSE builds
      BY <1>3 DEF ArcFinish
    <2>2. arc' \in [ArcReqs -> ArcReqType] /\ arc'[r].at = "end" /\ \A q \in ArcReqs \ {r} : arc'[q] = arc[q]
      BY <2>1, ArcGoes DEF ArcPlaces
    <2>3. builds' \in [ArcTargets -> {0} \cup ArcReqs] /\ \A t \in ArcTargets : builds[t] \notin {0, r} => builds'[t] = builds[t]
      BY <1>0, <2>1
    <2> QED
      BY <2>1, <2>2, <2>3, ArcFrame
  <1>4. CASE ArcAcquire(r) /\ sessions[KeyOf(r)] = 0
    <2>1. arc[r].at = "acquire" /\ ArcGoto(r, "end") /\ UNCHANGED <<sess, sessions, builds, capChecks>>
      BY <1>4 DEF ArcAcquire
    <2>2. arc' \in [ArcReqs -> ArcReqType] /\ arc'[r].at = "end" /\ \A q \in ArcReqs \ {r} : arc'[q] = arc[q]
      BY <2>1, ArcGoes DEF ArcPlaces
    <2> QED
      BY <1>0, <2>1, <2>2, ArcFrame
  <1>5. CASE /\ arc[r].at = "decide" /\ builds[arc[r].target] # 0
             /\ arc' = [arc EXCEPT ![r].at = "await", ![r].on = builds[arc[r].target]]
             /\ UNCHANGED <<sess, recent, builds, sessions, capChecks, arcRestarts>>
    <2>1. PICK b \in 0 .. NumArc : b = builds[arc[r].target]
      BY <1>0, ArcAssumption DEF ArcReqs
    <2>2. arc' \in [ArcReqs -> ArcReqType] /\ arc'[r].at = "await" /\ \A q \in ArcReqs \ {r} : arc'[q] = arc[q]
      BY <1>0, <1>5, <2>1 DEF ArcReqType, ArcPlaces
    <2> QED
      BY <1>0, <1>5, <2>2, ArcFrame
  <1> QED
    BY <1>1, <1>2, <1>3, <1>4, <1>5

\* A request takes a pin on a session that is registered.
LEMMA ArcPins ==
  ASSUME ArcInv, NEW r \in ArcReqs, NEW i \in ArcReqs, sess[i].place = "live", arc[r].at \in {"acquire", "decide"},
         NEW l \in {"serve", "check"}, Pin(r, i, l), UNCHANGED <<sessions, builds, capChecks>>
  PROVE  ArcInv'
  <1>0. /\ sess \in [ArcReqs -> SessType] /\ arc \in [ArcReqs -> ArcReqType] /\ capChecks \subseteq ArcReqs
        /\ sessions \in [ArcKeys -> {0} \cup ArcReqs] /\ builds \in [ArcTargets -> {0} \cup ArcReqs]
        /\ NumArc \in Nat /\ 0 \notin ArcReqs
    BY ArcTyped
  <1>1. /\ arc' \in [ArcReqs -> ArcReqType] /\ arc'[r].at = l /\ arc'[r].on = i
        /\ \A q \in ArcReqs \ {r} : arc'[q] = arc[q]
    <2>1. i \in 0 .. NumArc /\ l \in ArcPlaces
      BY <1>0 DEF ArcReqs, ArcPlaces
    <2>2. arc' = [arc EXCEPT ![r] = [arc[r] EXCEPT !.at = l, !.on = i]]
      BY DEF Pin
    <2>3. [arc[r] EXCEPT !.at = l, !.on = i] \in ArcReqType
      BY <1>0, <2>1 DEF ArcReqType
    <2> QED
      BY <1>0, <2>2, <2>3 DEF ArcReqType
  <1>2. r \notin Pinning(i) /\ Pinning(i)' = Pinning(i) \cup {r} /\ \A j : j # i => Pinning(j)' = Pinning(j)
    BY <1>1 DEF Pinning
  <1>3. Cardinality(Pinning(i)') = sess[i].ref + 1
    <2>1. IsFiniteSet(Pinning(i)) /\ sess[i].ref = Cardinality(Pinning(i))
      BY PinningFinite DEF ArcInv, ArcRefs
    <2> QED
      BY <1>2, <2>1, FS_AddElement
  <1>4. sess[i].ref + 1 \in 0 .. NumArc
    BY <1>3, PinningFiniteNext
  <1>5. /\ sess' \in [ArcReqs -> SessType] /\ sess'[i].ref = sess[i].ref + 1
        /\ sess'[i].place = sess[i].place /\ sess'[i].target = sess[i].target
        /\ \A j \in ArcReqs \ {i} : sess'[j] = sess[j]
    BY <1>0, <1>4 DEF Pin, SessType
  <1>6. ArcTypeOK'
    BY <1>0, <1>5 DEF ArcTypeOK, SessType, SessPlaces
  <1>7. ArcRefs'
    BY <1>0, <1>2, <1>3, <1>5 DEF ArcInv, ArcRefs
  <1>8. ArcPinned'
    <2>1. \A j \in 0 .. NumArc : j # 0 => j \in ArcReqs
      BY <1>0 DEF ArcReqs
    <2> QED
      BY <1>0, <1>2, <1>5, <2>1 DEF ArcInv, ArcPinned
  <1>9. \A j \in ArcReqs : sess'[j].place = sess[j].place /\ sess'[j].target = sess[j].target
    BY <1>5
  <1>10. ArcKeyed'
    BY <1>0, <1>9 DEF ArcInv, ArcKeyed
  <1>11. ArcBuilding' /\ ArcUnbuilt'
    BY <1>1, <1>9 DEF ArcInv, ArcBuilding, ArcUnbuilt
  <1> QED
    BY <1>1, <1>6, <1>7, <1>8, <1>10, <1>11 DEF ArcInv

\* A request lets go of its session; the last one sends a retired session out.
LEMMA ArcUnpins ==
  ASSUME ArcInv, NEW r \in ArcReqs, NEW i, i = arc[r].on, arc[r].at \in {"check", "served"}, NEW spoilt \in BOOLEAN,
         Unpin(i, spoilt), arc' \in [ArcReqs -> ArcReqType], \A q \in ArcReqs \ {r} : arc'[q] = arc[q],
         arc'[r].at \in {"decide", "end"}, UNCHANGED <<sessions, builds, capChecks>>
  PROVE  ArcInv'
  <1>0. /\ sess \in [ArcReqs -> SessType] /\ arc \in [ArcReqs -> ArcReqType]
        /\ sessions \in [ArcKeys -> {0} \cup ArcReqs] /\ NumArc \in Nat /\ 0 \notin ArcReqs
    BY ArcTyped
  <1>1. r \in Pinning(i) /\ Pinning(i)' = Pinning(i) \ {r} /\ \A j : j # i => Pinning(j)' = Pinning(j)
    BY DEF Pinning
  <1>2. i \in 0 .. NumArc /\ i # 0 /\ sess[i].place \in {"live", "retired"}
    BY <1>0, <1>1 DEF ArcInv, ArcPinned, ArcReqType
  <1>3. i \in ArcReqs
    BY <1>0, <1>2 DEF ArcReqs
  <1>4. IsFiniteSet(Pinning(i)) /\ sess[i].ref = Cardinality(Pinning(i))
    BY <1>3, PinningFinite DEF ArcInv, ArcRefs
  <1>5. Cardinality(Pinning(i)') = sess[i].ref - 1
    BY <1>1, <1>4, FS_RemoveElement
  <1>6. PICK m \in 0 .. NumArc : m = sess[i].ref - 1
    BY <1>5, PinningFiniteNext
  <1>7. PICK g \in BOOLEAN : g = (sess[i].failed \/ spoilt)
    BY <1>0, <1>3 DEF SessType
  <1>8. PICK pl \in {"live", "retired", "out"} : pl = IF sess[i].place = "retired" /\ sess[i].ref = 1 THEN "out" ELSE sess[i].place
    BY <1>2
  <1> DEFINE x == [sess[i] EXCEPT !.ref = m, !.failed = g, !.place = pl]
  <1>9. x \in SessType /\ x.ref = m /\ x.place = pl /\ x.target = sess[i].target
    <2>1. sess[i] \in SessType /\ pl \in SessPlaces
      BY <1>0, <1>3 DEF SessPlaces
    <2> QED
      BY <2>1 DEF SessType
  <1>10. sess' = [sess EXCEPT ![i] = x]
    <2>1. sess[i] \in SessType
      BY <1>0, <1>3
    <2>2. x = [sess[i] EXCEPT !.ref = @ - 1, !.failed = @ \/ spoilt,
                              !.place = IF @ = "retired" /\ sess[i].ref = 1 THEN "out" ELSE @]
      BY <1>6, <1>7, <1>8, <2>1 DEF SessType
    <2> HIDE DEF x
    <2>3. sess' = [sess EXCEPT ![i] = [sess[i] EXCEPT !.ref = @ - 1, !.failed = @ \/ spoilt,
                              !.place = IF @ = "retired" /\ sess[i].ref = 1 THEN "out" ELSE @]]
      BY DEF Unpin
    <2> QED
      BY <2>2, <2>3
  <1> HIDE DEF x
  <1>11. sess' \in [ArcReqs -> SessType] /\ sess'[i] = x /\ \A j \in ArcReqs \ {i} : sess'[j] = sess[j]
    BY <1>0, <1>3, <1>9, <1>10
  <1>12. ArcTypeOK'
    BY <1>0, <1>11 DEF ArcInv, ArcTypeOK, SessType, SessPlaces
  <1>13. ArcRefs'
    BY <1>1, <1>5, <1>6, <1>9, <1>11 DEF ArcInv, ArcRefs
  <1>14. pl = "out" => Pinning(i)' = {}
    <2>1. pl = "out" => Cardinality(Pinning(i)') = 0
      BY <1>2, <1>5, <1>8
    <2>2. IsFiniteSet(Pinning(i)')
      BY PinningFiniteNext
    <2> QED
      BY <2>1, <2>2, FS_EmptySet
  <1>15. ArcPinned'
    <2>1. \A j \in 0 .. NumArc : j # 0 => j \in ArcReqs
      BY <1>0 DEF ArcReqs
    <2> QED
      BY <1>1, <1>2, <1>9, <1>11, <1>14, <2>1 DEF ArcInv, ArcPinned
  <1>16. \A j \in ArcReqs : sess'[j].target = sess[j].target /\ (sess'[j].place = "live" <=> sess[j].place = "live")
    BY <1>2, <1>8, <1>9, <1>11
  <1>17. ArcKeyed'
    BY <1>0, <1>16 DEF ArcInv, ArcKeyed
  <1>18. \A j \in ArcReqs \ {i} : sess'[j].place = sess[j].place
    BY <1>11
  <1>19. ArcBuilding' /\ ArcUnbuilt'
    BY <1>2, <1>3, <1>16, <1>18 DEF ArcInv, ArcBuilding, ArcUnbuilt
  <1> QED
    BY <1>12, <1>13, <1>15, <1>17, <1>19 DEF ArcInv

\* The sessions' own data changes, not where they are or who holds them.
LEMMA ArcServes ==
  ASSUME ArcInv, NEW r \in ArcReqs, ArcServe(r)
  PROVE  ArcInv'
  <1>0. /\ sess \in [ArcReqs -> SessType] /\ arc \in [ArcReqs -> ArcReqType] /\ capChecks \subseteq ArcReqs
        /\ sessions \in [ArcKeys -> {0} \cup ArcReqs] /\ NumArc \in Nat /\ 0 \notin ArcReqs
    BY ArcTyped
  <1>1. PICK i : i = arc[r].on
    OBVIOUS
  <1>2. arc[r].at = "serve" /\ UNCHANGED <<sessions, builds>> /\ r \in Pinning(i)
    BY <1>1 DEF ArcServe, Pinning
  <1>3. i \in ArcReqs
    BY <1>0, <1>1, <1>2 DEF ArcInv, ArcPinned, ArcReqType, ArcReqs
  <1>4. PICK extract \in BOOLEAN, bad \in BOOLEAN :
           /\ sess' = [sess EXCEPT ![i].bytes = IF extract THEN 1 ELSE @, ![i].failed = @ \/ bad]
           /\ capChecks' = IF extract THEN capChecks \cup {i} ELSE capChecks
    BY <1>1 DEF ArcServe
  <1>5. PICK g \in BOOLEAN : g = (sess[i].failed \/ bad)
    BY <1>0, <1>3 DEF SessType
  <1>6. PICK n \in 0 .. 1 : n = IF extract THEN 1 ELSE sess[i].bytes
    BY <1>0, <1>3 DEF SessType
  <1> DEFINE x == [sess[i] EXCEPT !.bytes = n, !.failed = g]
  <1>7. x \in SessType /\ x.place = sess[i].place /\ x.target = sess[i].target /\ x.ref = sess[i].ref
    <2>1. sess[i] \in SessType
      BY <1>0, <1>3
    <2> QED
      BY <2>1 DEF SessType
  <1>8. sess' = [sess EXCEPT ![i] = x]
    BY <1>4, <1>5, <1>6
  <1> HIDE DEF x
  <1>9. /\ sess' \in [ArcReqs -> SessType] /\ capChecks' \subseteq ArcReqs
        /\ \A j \in ArcReqs : sess'[j].place = sess[j].place /\ sess'[j].target = sess[j].target /\ sess'[j].ref = sess[j].ref
    <2>1. sess'[i] = x /\ (\A j \in ArcReqs \ {i} : sess'[j] = sess[j]) /\ sess' \in [ArcReqs -> SessType]
      BY <1>0, <1>3, <1>7, <1>8
    <2>2. capChecks' \subseteq ArcReqs
      BY <1>0, <1>3, <1>4
    <2> QED
      BY <1>7, <2>1, <2>2
  <1>10. /\ arc' \in [ArcReqs -> ArcReqType] /\ arc'[r].at = "served" /\ arc'[r].on = arc[r].on
         /\ \A q \in ArcReqs \ {r} : arc'[q] = arc[q]
    BY ArcGoes DEF ArcServe, ArcPlaces
  <1>11. \A j : Pinning(j)' = Pinning(j)
    BY <1>2, <1>10 DEF Pinning
  <1>12. ArcTypeOK'
    BY <1>2, <1>9 DEF ArcInv, ArcTypeOK, SessType, SessPlaces
  <1>13. ArcRefs' /\ ArcPinned'
    <2>1. \A j \in 0 .. NumArc : j # 0 => j \in ArcReqs
      BY <1>0 DEF ArcReqs
    <2> QED
      BY <1>9, <1>11, <2>1 DEF ArcInv, ArcRefs, ArcPinned
  <1>14. ArcKeyed'
    BY <1>0, <1>2, <1>9 DEF ArcInv, ArcKeyed
  <1>15. ArcBuilding' /\ ArcUnbuilt'
    BY <1>2, <1>9, <1>10 DEF ArcInv, ArcBuilding, ArcUnbuilt
  <1> QED
    BY <1>10, <1>12, <1>13, <1>14, <1>15 DEF ArcInv

\* A session nobody holds and no key leads to gets a new record x, of a place that needs
\* neither.
LEMMA ArcSessionAlone ==
  ASSUME ArcInv, NEW i \in ArcReqs, sess[i].place \notin {"live", "retired"}, NEW x \in SessType,
         x.place \notin {"live", "retired"}, x.ref = 0, sess' = [sess EXCEPT ![i] = x], UNCHANGED <<sessions, capChecks>>,
         arc' \in [ArcReqs -> ArcReqType], builds' \in [ArcTargets -> {0} \cup ArcReqs],
         \A j : Pinning(j)' = Pinning(j), ArcBuilding', ArcUnbuilt'
  PROVE  ArcInv'
  <1>0. /\ sess \in [ArcReqs -> SessType] /\ sessions \in [ArcKeys -> {0} \cup ArcReqs] /\ capChecks \subseteq ArcReqs
        /\ NumArc \in Nat /\ 0 \notin ArcReqs
    BY ArcTyped
  <1>1. sess' \in [ArcReqs -> SessType] /\ sess'[i] = x /\ \A j \in ArcReqs \ {i} : sess'[j] = sess[j]
    BY <1>0
  <1>2. Pinning(i) = {} /\ \A k \in ArcKeys : sessions[k] # i
    BY <1>0 DEF ArcInv, ArcPinned, ArcKeyed, ArcReqs
  <1>3. ArcTypeOK'
    BY <1>0, <1>1 DEF ArcTypeOK, SessType, SessPlaces
  <1>4. ArcRefs'
    BY <1>1, <1>2, FS_EmptySet DEF ArcInv, ArcRefs
  <1>5. ArcPinned'
    <2>1. \A j \in 0 .. NumArc : j # 0 => j \in ArcReqs
      BY <1>0 DEF ArcReqs
    <2> QED
      BY <1>1, <1>2, <2>1 DEF ArcInv, ArcPinned
  <1>6. ArcKeyed'
    BY <1>0, <1>1, <1>2 DEF ArcInv, ArcKeyed
  <1> QED
    BY <1>3, <1>4, <1>5, <1>6 DEF ArcInv

\* A create leads a build, a build fails, a session is destroyed or swept.
LEMMA ArcRecordsMove ==
  ASSUME ArcInv, NEW r \in ArcReqs,
         \/ /\ arc[r].at = "decide" /\ builds[arc[r].target] = 0
            /\ builds' = [builds EXCEPT ![arc[r].target] = r] /\ ArcGoto(r, "build")
            /\ sess' = [sess EXCEPT ![r] = [NoSession EXCEPT !.place = "download", !.target = arc[r].target]]
            /\ UNCHANGED <<sessions, capChecks>>
         \/ ArcBuildFails(r) \/ ArcDestroy(r) \/ ArcSweep(r)
  PROVE  ArcInv'
  <1>0. /\ sess \in [ArcReqs -> SessType] /\ arc \in [ArcReqs -> ArcReqType]
        /\ builds \in [ArcTargets -> {0} \cup ArcReqs] /\ arc[r].target \in ArcTargets
        /\ NoSession \in SessType /\ NoSession.ref = 0 /\ Gone \in SessType /\ Gone.place = "gone" /\ Gone.ref = 0
        /\ NumArc \in Nat /\ 0 \notin ArcReqs
    BY ArcTyped
  <1>1. CASE /\ arc[r].at = "decide" /\ builds[arc[r].target] = 0
             /\ builds' = [builds EXCEPT ![arc[r].target] = r] /\ ArcGoto(r, "build")
             /\ sess' = [sess EXCEPT ![r] = [NoSession EXCEPT !.place = "download", !.target = arc[r].target]]
             /\ UNCHANGED <<sessions, capChecks>>
    <2>1. PICK t \in ArcTargets : t = arc[r].target
      BY <1>0
    <2> DEFINE x == [NoSession EXCEPT !.place = "download", !.target = t]
    <2>2. x \in SessType /\ x.place = "download" /\ x.target = t /\ x.ref = 0 /\ sess' = [sess EXCEPT ![r] = x]
      BY <1>0, <1>1, <2>1 DEF SessType, SessPlaces
    <2> HIDE DEF x
    <2>3. /\ arc' \in [ArcReqs -> ArcReqType] /\ arc'[r].at = "build" /\ arc'[r].target = t
          /\ \A q \in ArcReqs \ {r} : arc'[q] = arc[q]
      BY <1>1, <2>1, ArcGoes DEF ArcPlaces
    <2>4. \A j : Pinning(j)' = Pinning(j)
      BY <1>1, <2>3 DEF Pinning
    <2>5. sess'[r] = x /\ \A j \in ArcReqs \ {r} : sess'[j] = sess[j]
      BY <1>0, <2>2
    <2>6. builds' \in [ArcTargets -> {0} \cup ArcReqs] /\ builds'[t] = r /\ \A u \in ArcTargets : builds[u] # 0 => builds'[u] = builds[u]
      BY <1>0, <1>1, <2>1
    <2>7. ArcUnbuilt'
      BY <2>3, <2>5 DEF ArcInv, ArcUnbuilt
    <2>8. ArcBuilding'
      <3>1. \A q \in ArcReqs : arc[q].target \in ArcTargets
        BY ArcTyped
      <3> QED
        BY <1>0, <2>2, <2>3, <2>5, <2>6, <3>1 DEF ArcInv, ArcBuilding
    <2>9. sess[r].place = "none"
      BY <1>1 DEF ArcInv, ArcUnbuilt
    <2> QED
      BY <1>1, <2>2, <2>3, <2>4, <2>6, <2>7, <2>8, <2>9, ArcSessionAlone
  <1>2. CASE ArcBuildFails(r)
    <2>1. arc' \in [ArcReqs -> ArcReqType] /\ arc'[r].at = "finish" /\ \A q \in ArcReqs \ {r} : arc'[q] = arc[q]
      BY <1>2, ArcGoes DEF ArcBuildFails, ArcPlaces
    <2>2. arc[r].at = "build" /\ sess' = [sess EXCEPT ![r] = Gone] /\ UNCHANGED <<sessions, builds, capChecks>>
      BY <1>2 DEF ArcBuildFails
    <2>3. \A j : Pinning(j)' = Pinning(j)
      BY <2>1, <2>2 DEF Pinning
    <2>4. \A j \in ArcReqs \ {r} : sess'[j] = sess[j]
      BY <1>0, <2>2
    <2>5. ArcBuilding' /\ ArcUnbuilt'
      BY <2>1, <2>2, <2>4 DEF ArcInv, ArcBuilding, ArcUnbuilt
    <2>6. sess[r].place = "download"
      BY <2>2 DEF ArcInv, ArcBuilding
    <2> QED
      BY <1>0, <2>1, <2>2, <2>3, <2>5, <2>6, ArcSessionAlone
  <1>3. CASE ArcDestroy(r) \/ ArcSweep(r)
    <2>1. sess[r].place \in {"out", "orphan"} /\ sess' = [sess EXCEPT ![r] = Gone] /\ UNCHANGED <<sessions, builds, capChecks, arc>>
      BY <1>3 DEF ArcDestroy, ArcSweep, Swept
    <2>2. \A j : Pinning(j)' = Pinning(j)
      BY <2>1 DEF Pinning
    <2>3. \A j \in ArcReqs \ {r} : sess'[j] = sess[j]
      BY <1>0, <2>1
    <2>4. ArcBuilding' /\ ArcUnbuilt'
      BY <2>1, <2>3 DEF ArcInv, ArcBuilding, ArcUnbuilt
    <2> QED
      BY <1>0, <2>1, <2>2, <2>4, ArcSessionAlone
  <1> QED
    BY <1>1, <1>2, <1>3

\* A new session takes its key; the old one is out, or retired while it is held.
LEMMA ArcRegisters ==
  ASSUME ArcInv, NEW r \in ArcReqs, ArcRegister(r)
  PROVE  ArcInv'
  <1>0. /\ sess \in [ArcReqs -> SessType] /\ arc \in [ArcReqs -> ArcReqType] /\ capChecks \subseteq ArcReqs
        /\ sessions \in [ArcKeys -> {0} \cup ArcReqs] /\ builds \in [ArcTargets -> {0} \cup ArcReqs]
        /\ KeyOf(r) \in ArcKeys /\ arc[r].target \in ArcTargets /\ NumArc \in Nat /\ 0 \notin ArcReqs
    BY ArcTyped
  <1>1. PICK k \in ArcKeys : k = KeyOf(r)
    BY <1>0
  <1>2. PICK old \in {0} \cup ArcReqs : old = sessions[k]
    BY <1>0
  <1>3. /\ arc[r].at = "build" /\ sess[r].place = "download" /\ sess[r].target[1] = k /\ builds[arc[r].target] = r
        /\ (old # 0 => sess[old].place = "live" /\ sess[old].target[1] = k) /\ old # r
    <2>1. arc[r].at = "build" /\ sess[r].place = "download" /\ sess[r].target[1] = k /\ builds[arc[r].target] = r
      BY <1>1 DEF ArcRegister, ArcInv, ArcBuilding, KeyOf
    <2>2. old # 0 => sess[old].place = "live" /\ sess[old].target[1] = k
      BY <1>2 DEF ArcInv, ArcKeyed
    <2> QED
      BY <1>0, <2>1, <2>2
  <1>4. PICK n \in 0 .. 1 :
           sess' = [i \in ArcReqs |-> IF i = r THEN [sess[i] EXCEPT !.place = "live", !.bytes = n]
                                      ELSE IF i = old THEN [sess[i] EXCEPT !.place = Retire(old)] ELSE sess[i]]
    BY <1>1, <1>2 DEF ArcRegister
  <1>5. Retire(old) \in {"out", "retired"}
    BY DEF Retire
  <1>6. /\ \A i \in ArcReqs : sess'[i] \in SessType /\ sess'[i].ref = sess[i].ref /\ sess'[i].target = sess[i].target
        /\ sess'[r].place = "live" /\ (old # 0 => sess'[old].place = Retire(old))
        /\ \A i \in ArcReqs \ {r, old} : sess'[i] = sess[i]
    <2>1. \A i \in ArcReqs : sess[i] \in SessType
      BY <1>0
    <2> DEFINE x == [sess[r] EXCEPT !.place = "live", !.bytes = n]
               y == [sess[old] EXCEPT !.place = Retire(old)]
    <2>2. x \in SessType /\ x.ref = sess[r].ref /\ x.target = sess[r].target /\ x.place = "live"
      BY <2>1 DEF SessType, SessPlaces
    <2>3. old # 0 => y \in SessType /\ y.ref = sess[old].ref /\ y.target = sess[old].target /\ y.place = Retire(old)
      BY <1>5, <2>1 DEF SessType, SessPlaces
    <2>4. sess'[r] = x /\ (old # 0 => sess'[old] = y) /\ \A i \in ArcReqs \ {r, old} : sess'[i] = sess[i]
      BY <1>2, <1>3, <1>4
    <2> HIDE DEF x, y
    <2>5. \A i \in ArcReqs : i = r \/ (i = old /\ old # 0) \/ i \in ArcReqs \ {r, old}
      BY <1>0
    <2> QED
      BY <2>1, <2>2, <2>3, <2>4, <2>5
  <1>7. sess' \in [ArcReqs -> SessType]
    BY <1>4, <1>6
  <1>8. sessions' = [sessions EXCEPT ![k] = r] /\ sessions'[k] = r /\ sessions' \in [ArcKeys -> {0} \cup ArcReqs]
        /\ \A j \in ArcKeys \ {k} : sessions'[j] = sessions[j]
    BY <1>0, <1>1 DEF ArcRegister
  <1>9. builds' \in [ArcTargets -> {0} \cup ArcReqs] /\ \A t \in ArcTargets : builds[t] # r => builds'[t] = builds[t]
    BY <1>0 DEF ArcRegister
  <1>10. arc' \in [ArcReqs -> ArcReqType] /\ arc'[r].at = "finish" /\ \A q \in ArcReqs \ {r} : arc'[q] = arc[q]
    BY ArcGoes DEF ArcRegister, ArcPlaces
  <1>11. \A j : Pinning(j)' = Pinning(j)
    BY <1>3, <1>10 DEF Pinning
  <1>12. ArcTypeOK'
    BY <1>0, <1>7, <1>8, <1>9 DEF ArcRegister, ArcTypeOK, SessType, SessPlaces
  <1>13. ArcRefs'
    BY <1>6, <1>11 DEF ArcInv, ArcRefs
  <1>14. old # 0 /\ Retire(old) = "out" => Pinning(old) = {}
    <2>1. old # 0 /\ Retire(old) = "out" => Cardinality(Pinning(old)) = 0 /\ IsFiniteSet(Pinning(old))
      BY PinningFinite DEF Retire, ArcInv, ArcRefs
    <2> QED
      BY <2>1, FS_EmptySet
  <1>15. ArcPinned'
    <2>1. \A j \in 0 .. NumArc : j # 0 => j \in ArcReqs
      BY <1>0 DEF ArcReqs
    <2> QED
      BY <1>3, <1>5, <1>6, <1>11, <1>14, <2>1 DEF ArcInv, ArcPinned
  <1>16. ArcKeyed'
    <2>1. \A i \in ArcReqs : sess'[i].place = "live" => sessions'[sess'[i].target[1]] = i
      <3> SUFFICES ASSUME NEW i \in ArcReqs, sess'[i].place = "live" PROVE sessions'[sess'[i].target[1]] = i
        OBVIOUS
      <3>1. CASE i = r
        BY <1>3, <1>6, <1>8, <3>1
      <3>2. CASE i # r
        <4>1. i # old /\ sess'[i] = sess[i]
          BY <1>0, <1>5, <1>6, <3>2
        <4>2. sessions[sess[i].target[1]] = i /\ sess[i].target[1] \in ArcKeys
          BY <4>1, ArcTyped DEF ArcInv, ArcKeyed
        <4> QED
          BY <1>2, <1>8, <4>1, <4>2
      <3> QED
        BY <3>1, <3>2
    <2>2. \A j \in ArcKeys : sessions'[j] # 0 => sess'[sessions'[j]].place = "live" /\ sess'[sessions'[j]].target[1] = j
      <3> SUFFICES ASSUME NEW j \in ArcKeys, sessions'[j] # 0
                   PROVE  sess'[sessions'[j]].place = "live" /\ sess'[sessions'[j]].target[1] = j
        OBVIOUS
      <3>1. CASE j = k
        BY <1>3, <1>6, <1>8, <3>1
      <3>2. CASE j # k
        <4>1. sessions'[j] = sessions[j] /\ sessions[j] \in ArcReqs /\ sess[sessions[j]].place = "live" /\ sess[sessions[j]].target[1] = j
          BY <1>0, <1>8, <3>2 DEF ArcInv, ArcKeyed
        <4>2. sessions[j] # r /\ sessions[j] # old
          BY <1>3, <3>2, <4>1
        <4> QED
          BY <1>6, <4>1, <4>2
      <3> QED
        BY <3>1, <3>2
    <2> QED
      BY <2>1, <2>2 DEF ArcKeyed
  <1>17. ArcBuilding'
    <2>1. \A q \in ArcReqs : arc[q].target \in ArcTargets
      BY ArcTyped
    <2>2. \A q \in ArcReqs \ {r} : arc[q].at = "build" => q # old
      BY <1>0, <1>3 DEF ArcInv, ArcBuilding
    <2> QED
      BY <1>6, <1>9, <1>10, <2>1, <2>2 DEF ArcInv, ArcBuilding
  <1>18. ArcUnbuilt'
    <2>1. \A q \in ArcReqs \ {r} : arc[q].at \notin {"build", "finish", "end"} => q # old
      BY <1>0, <1>3 DEF ArcInv, ArcUnbuilt
    <2> QED
      BY <1>6, <1>10, <2>1 DEF ArcInv, ArcUnbuilt
  <1> QED
    BY <1>10, <1>12, <1>13, <1>15, <1>16, <1>17, <1>18 DEF ArcInv

\* Sessions that nobody holds are taken out of the registry together.
LEMMA ArcUnregisters ==
  ASSUME ArcInv, NEW V, V \subseteq {i \in Registered : sess[i].ref = 0}, Unregister(V), UNCHANGED <<builds, arc>>,
         capChecks' \subseteq capChecks
  PROVE  ArcInv'
  <1>0. /\ sess \in [ArcReqs -> SessType] /\ capChecks \subseteq ArcReqs /\ sessions \in [ArcKeys -> {0} \cup ArcReqs]
        /\ NumArc \in Nat /\ 0 \notin ArcReqs
    BY ArcTyped
  <1>1. V \subseteq ArcReqs /\ \A i \in V : sess[i].place = "live" /\ sess[i].ref = 0
    BY DEF Registered
  <1>2. /\ \A i \in ArcReqs : sess'[i] \in SessType /\ sess'[i].ref = sess[i].ref /\ sess'[i].target = sess[i].target
        /\ \A i \in V : sess'[i].place = "out"
        /\ \A i \in ArcReqs \ V : sess'[i] = sess[i]
    <2>1. \A i \in ArcReqs : sess[i] \in SessType
      BY <1>0
    <2>2. ASSUME NEW i \in V
          PROVE  sess'[i] \in SessType /\ sess'[i].ref = sess[i].ref /\ sess'[i].target = sess[i].target /\ sess'[i].place = "out"
      <3>1. sess'[i] = [sess[i] EXCEPT !.place = "out"] /\ sess[i] \in SessType
        BY <1>1, <2>1 DEF Unregister
      <3> QED
        BY <3>1 DEF SessType, SessPlaces
    <2>3. \A i \in ArcReqs \ V : sess'[i] = sess[i]
      BY DEF Unregister
    <2> QED
      BY <1>1, <2>1, <2>2, <2>3
  <1>3. sess' \in [ArcReqs -> SessType]
    BY <1>2 DEF Unregister
  <1>4. /\ sessions' \in [ArcKeys -> {0} \cup ArcReqs]
        /\ \A k \in ArcKeys : sessions'[k] = IF sessions[k] \in V THEN 0 ELSE sessions[k]
    BY <1>0 DEF Unregister
  <1>5. \A j : Pinning(j)' = Pinning(j)
    BY DEF Pinning
  <1>6. \A i \in V : Pinning(i) = {}
    <2>1. \A i \in V : IsFiniteSet(Pinning(i)) /\ Cardinality(Pinning(i)) = 0
      BY <1>1, PinningFinite DEF ArcInv, ArcRefs
    <2> QED
      BY <2>1, FS_EmptySet
  <1>7. ArcTypeOK'
    BY <1>0, <1>3, <1>4 DEF ArcInv, ArcTypeOK, SessType, SessPlaces
  <1>8. ArcRefs'
    BY <1>2, <1>5 DEF ArcInv, ArcRefs
  <1>9. ArcPinned'
    <2>1. \A j \in 0 .. NumArc : j # 0 => j \in ArcReqs
      BY <1>0 DEF ArcReqs
    <2> QED
      BY <1>2, <1>5, <1>6, <2>1 DEF ArcInv, ArcPinned
  <1>10. ArcKeyed'
    <2>1. \A i \in ArcReqs : sess'[i].place = "live" => sessions'[sess'[i].target[1]] = i
      <3>1. \A i \in ArcReqs : sess'[i].place = "live" => i \notin V
        BY <1>2
      <3>2. \A i \in ArcReqs : sess[i].target[1] \in ArcKeys
        BY ArcTyped
      <3> QED
        BY <1>2, <1>4, <3>1, <3>2 DEF ArcInv, ArcKeyed
    <2>2. \A k \in ArcKeys : sessions'[k] # 0 => sess'[sessions'[k]].place = "live" /\ sess'[sessions'[k]].target[1] = k
      BY <1>0, <1>2, <1>4 DEF ArcInv, ArcKeyed
    <2> QED
      BY <2>1, <2>2 DEF ArcKeyed
  <1>11. ArcBuilding' /\ ArcUnbuilt'
    <2>1. \A r \in ArcReqs : sess[r].place \in {"none", "download"} => sess'[r] = sess[r]
      BY <1>1, <1>2
    <2> QED
      BY <2>1 DEF ArcInv, ArcBuilding, ArcUnbuilt
  <1> QED
    BY <1>7, <1>8, <1>9, <1>10, <1>11 DEF ArcInv

\* Nobody at work and nothing registered.
LEMMA ArcEmpty ==
  ASSUME ArcTypeOK, arc \in [ArcReqs -> ArcReqType], sessions = [k \in ArcKeys |-> 0],
         \A i \in ArcReqs : sess[i].ref = 0 /\ sess[i].place \notin {"live", "retired", "download"},
         \A r \in ArcReqs : arc[r].at = "end" \/ (arc[r].at = "idle" /\ sess[r].place = "none")
  PROVE  ArcInv
  <1>1. \A i : Pinning(i) = {}
    BY DEF Pinning
  <1>2. ArcRefs
    BY <1>1, FS_EmptySet DEF ArcRefs
  <1>3. ArcPinned /\ ArcKeyed /\ ArcBuilding /\ ArcUnbuilt
    BY <1>1 DEF ArcPinned, ArcKeyed, ArcBuilding, ArcUnbuilt
  <1> QED
    BY <1>2, <1>3 DEF ArcInv

\* The same, after a step.
LEMMA ArcEmptyNext ==
  ASSUME ArcTypeOK', arc' \in [ArcReqs -> ArcReqType], sessions' = [k \in ArcKeys |-> 0],
         \A i \in ArcReqs : sess'[i].ref = 0 /\ sess'[i].place \notin {"live", "retired", "download"},
         \A r \in ArcReqs : arc'[r].at = "end" \/ (arc'[r].at = "idle" /\ sess'[r].place = "none")
  PROVE  ArcInv'
  <1>1. \A i : Pinning(i)' = {}
    BY DEF Pinning
  <1>2. ArcRefs'
    BY <1>1, FS_EmptySet DEF ArcRefs
  <1>3. ArcPinned' /\ ArcKeyed' /\ ArcBuilding' /\ ArcUnbuilt'
    BY <1>1 DEF ArcPinned, ArcKeyed, ArcBuilding, ArcUnbuilt
  <1> QED
    BY <1>2, <1>3 DEF ArcInv

\* The invariant holds when the server starts.
LEMMA ArcStarts == ArcInit => ArcInv
  <1> SUFFICES ASSUME ArcInit PROVE ArcInv
    OBVIOUS
  <1>1. NumArc \in Nat /\ FirstTarget \in ArcTargets
    BY ArcAssumption DEF FirstTarget
  <1>2. NoSession \in SessType /\ NoSession.place = "none" /\ NoSession.ref = 0
    BY <1>1 DEF NoSession, SessType, SessPlaces
  <1>3. NoArc("idle") \in ArcReqType /\ NoArc("idle").at = "idle"
    BY <1>1 DEF NoArc, ArcReqType, ArcPlaces
  <1>4. sess \in [ArcReqs -> SessType] /\ arc \in [ArcReqs -> ArcReqType]
    BY <1>2, <1>3 DEF ArcInit
  <1>5. ArcTypeOK
    BY <1>4 DEF ArcInit, ArcTypeOK, SessType, SessPlaces
  <1> QED
    BY <1>2, <1>3, <1>4, <1>5, ArcEmpty DEF ArcInit

\* The invariant holds after a crash.
LEMMA ArcRestarts ==
  ASSUME ArcInv, ArcRestart
  PROVE  ArcInv'
  <1>1. /\ sess \in [ArcReqs -> SessType] /\ arc \in [ArcReqs -> ArcReqType]
        /\ NoSession \in SessType /\ NoSession.ref = 0
    BY ArcTyped
  <1>2. NoArc("end") \in ArcReqType /\ NoArc("end").at = "end"
    BY ArcAssumption DEF NoArc, FirstTarget, ArcReqType, ArcPlaces
  <1> DEFINE x == [NoSession EXCEPT !.place = "orphan"]
  <1>3. x \in SessType /\ x.place = "orphan" /\ x.ref = 0
    BY <1>1 DEF SessType, SessPlaces
  <1>4. \A i \in ArcReqs : sess[i].place \in {"none", "gone"} => sess[i].ref = 0
    <2>1. \A i \in ArcReqs : sess[i].place \in {"none", "gone"} => Pinning(i) = {}
      BY ArcTyped DEF ArcInv, ArcPinned, ArcReqs
    <2> QED
      BY <2>1, FS_EmptySet DEF ArcInv, ArcRefs
  <1>5. sess' = [i \in ArcReqs |-> IF sess[i].place \in {"none", "gone"} THEN sess[i] ELSE x]
    BY DEF ArcRestart
  <1> HIDE DEF x
  <1>6. /\ sess' \in [ArcReqs -> SessType]
        /\ \A i \in ArcReqs : sess'[i].ref = 0 /\ sess'[i].place \notin {"live", "retired", "download"}
        /\ \A i \in ArcReqs : sess[i].place = "none" => sess'[i].place = "none"
    BY <1>1, <1>3, <1>4, <1>5
  <1>7. /\ arc' \in [ArcReqs -> ArcReqType]
        /\ \A r \in ArcReqs : arc'[r].at = "end" \/ (arc'[r].at = "idle" /\ sess'[r].place = "none")
    BY <1>1, <1>2, <1>6 DEF ArcRestart, ArcInv, ArcUnbuilt
  <1>8. ArcTypeOK' /\ sessions' = [k \in ArcKeys |-> 0]
    BY <1>6 DEF ArcRestart, ArcTypeOK, SessType, SessPlaces
  <1> QED
    BY <1>6, <1>7, <1>8, ArcEmptyNext

\* Every step keeps the invariant.
LEMMA ArcSteps == ArcInv /\ [ArcNext]_arcVars => ArcInv'
  <1> SUFFICES ASSUME ArcInv, [ArcNext]_arcVars PROVE ArcInv'
    OBVIOUS
  <1>1. ASSUME NEW r \in ArcReqs,
               ArcStart(r) \/ ArcStep(r) \/ ArcAwaited(r, TRUE) \/ ArcDestroy(r) \/ ArcSweep(r)
        PROVE  ArcInv'
    <2>0. /\ KeyOf(r) \in ArcKeys /\ sessions \in [ArcKeys -> {0} \cup ArcReqs]
          /\ \A k \in ArcKeys : sessions[k] # 0 => sessions[k] \in ArcReqs /\ sess[sessions[k]].place = "live"
      BY ArcTyped DEF ArcInv, ArcKeyed
    <2>1. CASE ArcAcquire(r)
      <3>1. CASE sessions[KeyOf(r)] = 0
        BY <2>1, <3>1, ArcQuiet
      <3>2. CASE sessions[KeyOf(r)] # 0
        BY <2>0, <2>1, <3>2, ArcPins DEF ArcAcquire
      <3> QED
        BY <3>1, <3>2
    <2>2. CASE ArcDecide(r)
      <3>1. CASE Reusable(sessions[KeyOf(r)], r) /\ Pin(r, sessions[KeyOf(r)], "check") /\ UNCHANGED builds
        BY <2>0, <2>2, <3>1, ArcPins DEF ArcDecide, Reusable
      <3>2. CASE ~(Reusable(sessions[KeyOf(r)], r) /\ Pin(r, sessions[KeyOf(r)], "check") /\ UNCHANGED builds)
        BY <2>2, <3>2, ArcQuiet, ArcRecordsMove DEF ArcDecide
      <3> QED
        BY <3>1, <3>2
    <2>3. CASE ArcServed(r)
      <3>1. arc' \in [ArcReqs -> ArcReqType] /\ arc'[r].at = "end" /\ \A q \in ArcReqs \ {r} : arc'[q] = arc[q]
        BY <2>3, ArcGoes DEF ArcServed, ArcPlaces
      <3> QED
        BY <2>3, <3>1, ArcUnpins DEF ArcServed
    <2>4. CASE ArcCheck(r)
      <3>1. PICK fresh \in BOOLEAN :
              /\ Unpin(arc[r].on, ~fresh)
              /\ IF fresh THEN ArcGoto(r, "end") ELSE arc' = [arc EXCEPT ![r].at = "decide", ![r].on = 0]
        BY <2>4 DEF ArcCheck
      <3>2. PICK l \in {"decide", "end"} : arc' \in [ArcReqs -> ArcReqType] /\ arc'[r].at = l /\ \A q \in ArcReqs \ {r} : arc'[q] = arc[q]
        <4>1. CASE fresh
          BY <3>1, <4>1, ArcGoes DEF ArcPlaces
        <4>2. CASE ~fresh
          <5>1. arc[r] \in ArcReqType /\ "decide" \in ArcPlaces /\ 0 \in 0 .. NumArc
            BY ArcTyped DEF ArcPlaces
          <5>2. [arc[r] EXCEPT !.at = "decide", !.on = 0] \in ArcReqType /\ [arc[r] EXCEPT !.at = "decide", !.on = 0].at = "decide"
            BY <5>1 DEF ArcReqType
          <5>3. arc' = [arc EXCEPT ![r] = [arc[r] EXCEPT !.at = "decide", !.on = 0]]
            BY <3>1, <4>2
          <5>4. arc' \in [ArcReqs -> ArcReqType] /\ arc'[r].at = "decide" /\ \A q \in ArcReqs \ {r} : arc'[q] = arc[q]
            BY <5>2, <5>3 DEF ArcInv
          <5> QED
            BY <5>4
        <4> QED
          BY <4>1, <4>2
      <3> QED
        BY <2>4, <3>1, <3>2, ArcUnpins DEF ArcCheck
    <2> QED
      BY <1>1, <2>1, <2>2, <2>3, <2>4, ArcQuiet, ArcServes, ArcRecordsMove, ArcRegisters DEF ArcStep
  <1>2. CASE ArcEvict
    <2>1. PICK i \in Registered : sess[i].ref = 0 /\ Unregister({i})
      BY <1>2 DEF ArcEvict
    <2> QED
      BY <1>2, <2>1, ArcUnregisters DEF ArcEvict
  <1>3. CASE ArcEnforceCaps
    <2>1. PICK i \in capChecks : capChecks' = capChecks \ {i} /\ Unregister(CapVictims(i))
      BY <1>3 DEF ArcEnforceCaps
    <2>2. CapVictims(i) \subseteq {j \in Registered : sess[j].ref = 0}
      BY DEF CapVictims, Candidates
    <2> QED
      BY <1>3, <2>1, <2>2, ArcUnregisters DEF ArcEnforceCaps
  <1>4. CASE UNCHANGED arcVars
    <2>1. \A i : Pinning(i)' = Pinning(i)
      BY <1>4 DEF arcVars, Pinning
    <2>2. ArcTypeOK' /\ arc' \in [ArcReqs -> ArcReqType]
      BY <1>4 DEF arcVars, ArcInv, ArcTypeOK
    <2> QED
      BY <1>4, <2>1, <2>2 DEF arcVars, ArcInv, ArcRefs, ArcPinned, ArcKeyed, ArcBuilding, ArcUnbuilt
  <1> QED
    BY <1>1, <1>2, <1>3, <1>4, ArcRestarts DEF ArcNext

\* No request loses its archive session under its hands, refCount counts the holders, keys
\* lead to live sessions only, and equivalent creates share one build
\* (archiveAcquireSession, archiveRetireLocked, archiveEnforceCaps, archiveBuildAndRegister).
THEOREM ArcKeepsPinned == ArcSpec => []PinnedSessions
  <1>1. ArcInv => PinnedSessions
    <2> SUFFICES ASSUME ArcInv PROVE PinnedSessions
      OBVIOUS
    <2>1. OneBuild
      BY DEF ArcInv, ArcBuilding, OneBuild
    <2>2. ASSUME NEW i \in ArcReqs
          PROVE  /\ sess[i].ref = Cardinality(Pinning(i))
                 /\ Pinning(i) # {} => sess[i].place \in {"live", "retired"}
                 /\ sess[i].place = "live" <=> sessions[sess[i].target[1]] = i
      <3>1. i \in 0 .. NumArc /\ i # 0 /\ sess[i].target[1] \in ArcKeys
        BY ArcTyped DEF ArcReqs
      <3> QED
        BY <3>1 DEF ArcInv, ArcRefs, ArcPinned, ArcKeyed
    <2> QED
      BY <2>1, <2>2 DEF PinnedSessions, ArcInv
  <1> QED
    BY <1>1, ArcStarts, ArcSteps, PTL DEF ArcSpec

-----------------------------------------------------------------------------
(* The assembly of a Usenet file (NZBAssembly): the invariant *)

\* The bytes of an article in the file.
Own(i) == StartOf(i) .. StartOf(i) + Lens[i] - 1
Done == {i \in Articles : segState[i] = "done"}
AtWork(w) == worker[w].at \in {"ask", "decode", "redial"}

WorkerRecords ==
  [at : {"dial", "pick", "ask", "decode", "redial", "out"}, seg : Articles, start : Nat, end : Nat, again : BOOLEAN]

AsmTyped ==
  /\ post \in Posts /\ segState \in [Articles -> {"pending", "inflight", "done"}] /\ cursor \in Articles
  /\ layout \in {"unknown", "parallel", "sequential"} /\ seqOwner \in 0 .. NumWorkers /\ seqOff \in 0 .. FileSize
  /\ total \in Nat \cup {-1} /\ assembled \in BOOLEAN
  /\ asmErr \in {"none", "refused", "stopped", "bad", "untiled", "cancelled"}
  /\ worker \in [AsmWorkers -> WorkerRecords]
  /\ nzbReader \in [AsmReaders -> [at : {"idle", "size", "run", "end"}, off : Nat]]

Counted ==
  /\ pending = Cardinality({i \in Articles : segState[i] = "pending"})
  /\ remaining = Cardinality({i \in Articles : segState[i] # "done"})
  /\ alive = Cardinality({w \in AsmWorkers : worker[w].at # "out"})
  /\ alive = 0 => assembled \/ asmErr # "none"

\* A worker at work has a segment of its own, in flight; while the assembly goes on,
\* every segment in flight is some worker's. A complete file leaves nothing to fetch.
Shared ==
  /\ \A w \in AsmWorkers : AtWork(w) => segState[worker[w].seg] = "inflight"
  /\ \A w, v \in AsmWorkers : AtWork(w) /\ AtWork(v) /\ worker[w].seg = worker[v].seg => w = v
  /\ asmErr = "none" => \A i \in Articles : segState[i] = "inflight" => \E w \in AsmWorkers : AtWork(w) /\ worker[w].seg = i
  /\ assembled => Done = Articles

\* What is decoded is decoded to its own place; before the first header nothing is, and
\* the first article is the only one fetched.
LayoutSound ==
  /\ \A w \in AsmWorkers : worker[w].at = "decode" => worker[w].start = StartOf(worker[w].seg)
  /\ layout = "parallel" => SelfDescribing(post.head[1])
  /\ layout = "unknown" => /\ \A w \in AsmWorkers : worker[w].at # "decode" /\ (AtWork(w) => worker[w].seg = 1)
                           /\ Done = {} /\ seqOff = 0 /\ cursor = 1

\* In a sequential layout only the owner works, through the articles in their order, and
\* when it has left nobody does.
ArticlesInOrder ==
  /\ \A i \in Articles : i < cursor => segState[i] # "pending"
  /\ \A i \in Done, j \in Articles : j < i => j \in Done
  /\ seqOff = LensOf(Done)
  /\ AtWork(seqOwner) => \A j \in Articles : j < worker[seqOwner].seg => j \in Done
SequenceSound ==
  layout = "sequential" => /\ seqOwner \in AsmWorkers /\ \A w \in AsmWorkers : AtWork(w) => w = seqOwner
                           /\ worker[seqOwner].at # "out" => ArticlesInOrder

\* What is covered are the bytes of the articles that are done, in extents that are apart.
Extents == {e \in (0 .. FileSize) \X (0 .. FileSize) : e[1] < e[2]}
CoveredSound ==
  /\ covered \subseteq Extents
  /\ \A e, c \in covered : e # c => c[2] < e[1] \/ e[2] < c[1]
  /\ CoveredBytes = UNION {Own(i) : i \in Done}
  /\ \A b \in CoveredBytes : disk[b] = "good"
  /\ assembled => total = FileSize /\ CoveredBytes = 0 .. FileSize - 1

AsmInv == AsmTyped /\ Counted /\ Shared /\ LayoutSound /\ SequenceSound /\ CoveredSound

-----------------------------------------------------------------------------
(* Places and sums *)

LEMMA ArticlesAre ==
  /\ Len(Lens) \in Nat \ {0} /\ Articles = 1 .. Len(Lens) /\ IsFiniteSet(Articles)
  /\ \A i \in Articles : i \in Nat /\ Lens[i] \in Nat /\ Lens[i] >= 1
  /\ 1 \in Articles /\ IsFiniteSet(AsmWorkers)
<1>1. Lens \in Seq(Nat \ {0}) /\ Len(Lens) > 0 /\ NumWorkers \in Nat  BY AssemblyAssumption
<1>2. Len(Lens) \in Nat \ {0} /\ Articles = 1 .. Len(Lens)  BY <1>1 DEF Articles
<1>3. \A i \in Articles : i \in Nat /\ Lens[i] \in Nat /\ Lens[i] >= 1  BY <1>1, <1>2
<1>4. IsFiniteSet(1 .. Len(Lens)) /\ IsFiniteSet(1 .. NumWorkers)  BY <1>1, <1>2, UpToCounted
<1>5. QED  BY <1>2, <1>3, <1>4 DEF AsmWorkers

\* A number of bytes is finite.
LEMMA BytesOf ==
  ASSUME NEW x, NEW n \in Nat
  PROVE  IsFiniteSet({x} \X (1 .. n)) /\ Cardinality({x} \X (1 .. n)) = n
<1>1. IsFiniteSet(1 .. n) /\ Cardinality(1 .. n) = n  BY UpToCounted
<1>2. IsFiniteSet({x}) /\ Cardinality({x}) = 1  BY FS_Singleton
<1>3. IsFiniteSet({x} \X (1 .. n)) /\ Cardinality({x} \X (1 .. n)) = 1 * n  BY <1>1, <1>2, FS_Product
<1>4. QED  BY <1>3

LEMMA LensFinite ==
  ASSUME NEW S, S \subseteq Articles
  PROVE  IsFiniteSet(UNION {{j} \X (1 .. Lens[j]) : j \in S}) /\ LensOf(S) \in Nat
<1>1. PICK T : T = {{j} \X (1 .. Lens[j]) : j \in S}  OBVIOUS
<1>2. PICK f : f = [j \in S |-> {j} \X (1 .. Lens[j])]  OBVIOUS
<1>3. IsFiniteSet(S)  BY ArticlesAre, FS_Subset
<1>4. f \in Surjection(S, T)  BY <1>1, <1>2 DEF Surjection
<1>5. IsFiniteSet(T)  BY ONLY <1>3, <1>4, FS_Surjection
<1>6. \A j \in S : IsFiniteSet({j} \X (1 .. Lens[j]))  BY BytesOf, ArticlesAre
<1>7. \A U \in T : IsFiniteSet(U)  BY <1>1, <1>6
<1>8. IsFiniteSet(UNION T)  BY ONLY <1>5, <1>7, FS_UNION
<1>9. PICK B : B = UNION T  OBVIOUS
<1>10. Cardinality(B) \in Nat  BY ONLY <1>8, <1>9, FS_CardinalityType
<1>11. QED  BY <1>1, <1>8, <1>9, <1>10 DEF LensOf

LEMMA LensNone == LensOf({}) = 0
<1>1. PICK A : A = UNION {{j} \X (1 .. Lens[j]) : j \in {}}  OBVIOUS
<1>2. A = {}  BY <1>1
<1>3. Cardinality(A) = 0  BY ONLY <1>2, FS_EmptySet
<1>4. QED  BY <1>1, <1>3 DEF LensOf

\* One more article adds its length, and a part is no longer than the whole.
LEMMA LensPlus ==
  ASSUME NEW S, S \subseteq Articles, NEW i \in Articles, i \notin S
  PROVE  LensOf(S) \in Nat /\ LensOf(S \cup {i}) = LensOf(S) + Lens[i]
<1>1. PICK A : A = UNION {{j} \X (1 .. Lens[j]) : j \in S}  OBVIOUS
<1>2. PICK B : B = {i} \X (1 .. Lens[i])  OBVIOUS
<1>3. IsFiniteSet(A) /\ LensOf(S) \in Nat  BY <1>1, LensFinite
<1>4. IsFiniteSet(B) /\ Cardinality(B) = Lens[i]  BY <1>2, BytesOf, ArticlesAre
<1>5. A \cap B = {}  BY <1>1, <1>2
<1>6. A \cup B = UNION {{j} \X (1 .. Lens[j]) : j \in S \cup {i}}  BY <1>1, <1>2
<1>7. Cardinality(A \cup B) = Cardinality(A) + Cardinality(B) - Cardinality(A \cap B)  BY ONLY <1>3, <1>4, FS_Union
<1>8. Cardinality(A \cap B) = 0  BY ONLY <1>5, FS_EmptySet
<1>9. Cardinality(A) = LensOf(S)  BY <1>1 DEF LensOf
<1>10. Cardinality(A \cup B) = LensOf(S \cup {i})  BY <1>6 DEF LensOf
<1>11. Lens[i] \in Nat  BY ArticlesAre
<1>12. QED  BY <1>3, <1>4, <1>7, <1>8, <1>9, <1>10, <1>11

LEMMA LensPart ==
  ASSUME NEW S, S \subseteq Articles, NEW R, R \subseteq S
  PROVE  LensOf(R) <= LensOf(S)
<1>1. PICK A : A = UNION {{j} \X (1 .. Lens[j]) : j \in R}  OBVIOUS
<1>2. PICK B : B = UNION {{j} \X (1 .. Lens[j]) : j \in S}  OBVIOUS
<1>3. IsFiniteSet(B)  BY <1>2, LensFinite
<1>4. A \in SUBSET B  BY <1>1, <1>2
<1>5. Cardinality(A) <= Cardinality(B)  BY ONLY <1>3, <1>4, FS_Subset
<1>6. QED  BY <1>1, <1>2, <1>5 DEF LensOf

\* Where an article begins, and where it ends.
LEMMA Places ==
  ASSUME NEW i \in Articles
  PROVE  /\ StartOf(i) \in Nat /\ FileSize \in Nat /\ Lens[i] \in Nat
         /\ StartOf(i) + Lens[i] = LensOf(1 .. i) /\ StartOf(i) + Lens[i] <= FileSize
<1>1. PICK S : S = 1 .. i - 1  OBVIOUS
<1>2. i \in 1 .. Len(Lens) /\ Len(Lens) \in Nat  BY ArticlesAre
<1>3. S \subseteq Articles /\ i \notin S /\ S \cup {i} = 1 .. i  BY <1>1, <1>2, ArticlesAre
<1>4. LensOf(S) \in Nat /\ LensOf(S \cup {i}) = LensOf(S) + Lens[i]  BY <1>3, LensPlus
<1>5. PICK T : T = 1 .. i  OBVIOUS
<1>6. T \subseteq Articles  BY <1>2, <1>5, ArticlesAre
<1>7. LensOf(T) <= LensOf(Articles) /\ LensOf(Articles) \in Nat  BY <1>6, LensPart, LensFinite
<1>8. QED  BY <1>1, <1>3, <1>4, <1>5, <1>7, ArticlesAre DEF StartOf, FileSize

LEMMA OwnBytes == ASSUME NEW i \in Articles PROVE Own(i) \subseteq 0 .. FileSize - 1 /\ Own(i) # {}
<1>1. Lens[i] >= 1  BY ArticlesAre
<1>2. StartOf(i) \in Own(i)  BY <1>1, Places DEF Own
<1>3. QED  BY <1>2, Places DEF Own

\* No byte belongs to two articles.
LEMMA OwnApart ==
  ASSUME NEW i \in Articles, NEW j \in Articles, i # j
  PROVE  Own(i) \cap Own(j) = {}
<1>1. ASSUME NEW k \in Articles, NEW l \in Articles, k < l PROVE StartOf(k) + Lens[k] <= StartOf(l)
  <2>1. PICK S : S = 1 .. l - 1  OBVIOUS
  <2>2. PICK R : R = 1 .. k  OBVIOUS
  <2>3. k \in Nat /\ l \in 1 .. Len(Lens) /\ Len(Lens) \in Nat  BY ArticlesAre
  <2>4. S \subseteq Articles /\ R \subseteq S  BY <1>1, <2>1, <2>2, <2>3, ArticlesAre
  <2>5. LensOf(R) <= LensOf(S)  BY <2>4, LensPart
  <2>6. QED  BY <2>1, <2>2, <2>5, Places DEF StartOf
<1>2. i \in Nat /\ j \in Nat  BY ArticlesAre
<1>3. CASE i < j  BY <1>1, <1>3, Places DEF Own
<1>4. CASE j < i  BY <1>1, <1>4, Places DEF Own
<1>5. QED  BY <1>2, <1>3, <1>4

\* The last byte of the file is the last article's.
LEMMA LastByte == FileSize \in Nat /\ FileSize >= 1 /\ \E i \in Articles : FileSize - 1 \in Own(i)
<1>1. PICK i : i = Len(Lens)  OBVIOUS
<1>2. i \in Articles /\ Articles = 1 .. i  BY <1>1, ArticlesAre
<1>3. StartOf(i) + Lens[i] = FileSize  BY <1>2, Places DEF FileSize
<1>4. Lens[i] >= 1 /\ StartOf(i) \in Nat /\ Lens[i] \in Nat  BY <1>2, ArticlesAre, Places
<1>5. FileSize - 1 \in Own(i)  BY <1>3, <1>4 DEF Own
<1>6. QED  BY <1>2, <1>3, <1>4, <1>5

LEMMA FirstPlace == StartOf(1) = 0
<1>1. PICK S : S = 1 .. 1 - 1  OBVIOUS
<1>2. S = {}  BY <1>1
<1>3. QED  BY <1>1, <1>2, LensNone DEF StartOf

-----------------------------------------------------------------------------
(* The least and the greatest *)

LEMMA LeastOf == ASSUME NEW T \in SUBSET Nat, T # {} PROVE \E n \in T : \A m \in T : n <= m
<1>1. PICK R : R = {x \in Nat \X Nat : x[1] < x[2]}  OBVIOUS
<1>2. IsWellFoundedOn(R, Nat)
  <2>1. OpToRel(<, Nat) = R  BY <1>1 DEF OpToRel
  <2>2. QED  BY <2>1, NatLessThanWellFounded
<1>3. PICK n \in T : \A m \in T : ~(<<m, n>> \in R)  BY <1>2, WFMin
<1>4. ASSUME NEW m \in T PROVE n <= m
  <2>1. m \in Nat /\ n \in Nat /\ <<m, n>> \notin R  BY <1>3
  <2>2. <<m, n>> \in Nat \X Nat /\ <<m, n>>[1] = m /\ <<m, n>>[2] = n  BY <2>1
  <2>3. ~(m < n)  BY <1>1, <2>1, <2>2
  <2>4. QED  BY <2>1, <2>3
<1>5. QED  BY <1>4

LEMMA FirstIs == ASSUME NEW S \in SUBSET Nat, S # {} PROVE First(S) \in S /\ \A j \in S : First(S) <= j
<1>1. \E i \in S : \A j \in S : i <= j  BY LeastOf
<1>2. QED  BY <1>1 DEF First

LEMMA LastIs ==
  ASSUME NEW b \in Nat, NEW S \in SUBSET (0 .. b), S # {}
  PROVE  Last(S) \in S /\ \A j \in S : j <= Last(S)
<1>1. PICK V : V = {b - m : m \in S}  OBVIOUS
<1>2. V \in SUBSET Nat /\ V # {}
  <2>1. \A m \in S : b - m \in Nat  OBVIOUS
  <2>2. PICK m \in S : TRUE  OBVIOUS
  <2>3. b - m \in V  BY <1>1
  <2>4. QED  BY <1>1, <2>1, <2>3
<1>3. PICK v \in V : \A m \in V : v <= m  BY <1>2, LeastOf
<1>4. PICK n \in S : v = b - n  BY <1>1, <1>3
<1>5. \A m \in S : b - m \in V  BY <1>1
<1>6. \A m \in S : m <= n
  <2>1. SUFFICES ASSUME NEW m \in S PROVE m <= n  OBVIOUS
  <2>2. v <= b - m  BY <1>3, <1>5
  <2>3. m \in 0 .. b /\ n \in 0 .. b  OBVIOUS
  <2>4. QED  BY <1>4, <2>2, <2>3
<1>7. QED  BY <1>6 DEF Last

-----------------------------------------------------------------------------
(* The covered extents *)

\* Extents that are apart stay so when one is added, and cover its bytes in addition.
LEMMA MergeApart ==
  ASSUME covered \subseteq Extents, \A x, y \in covered : x # y => y[2] < x[1] \/ x[2] < y[1],
         NEW e \in Extents
  PROVE  /\ AddCovered(e) \subseteq Extents
         /\ \A x, y \in AddCovered(e) : x # y => y[2] < x[1] \/ x[2] < y[1]
         /\ UNION {ByteRange(x) : x \in AddCovered(e)} = CoveredBytes \cup ByteRange(e)
<1>1. PICK near : near = {c \in covered : Touching(e, c)}  OBVIOUS
<1>2. PICK G : G = near \cup {e}  OBVIOUS
<1>3. PICK A : A = {c[1] : c \in G}  OBVIOUS
<1>4. PICK B : B = {c[2] : c \in G}  OBVIOUS
<1>5. PICK lo : lo = First(A)  OBVIOUS
<1>6. PICK hi : hi = Last(B)  OBVIOUS
<1>7. AddCovered(e) = (covered \ near) \cup {<<lo, hi>>}  BY <1>1, <1>2, <1>3, <1>4, <1>5, <1>6 DEF AddCovered
<1>8. FileSize \in Nat  BY LastByte
<1>9. \A x \in Extents : x[1] \in 0 .. FileSize /\ x[2] \in 0 .. FileSize /\ x[1] < x[2]  BY DEF Extents
<1>10. G \subseteq Extents /\ e \in G  BY <1>1, <1>2
<1>11. lo \in A /\ \A a \in A : lo <= a
  <2>1. A \in SUBSET Nat /\ A # {}  BY <1>3, <1>8, <1>9, <1>10
  <2>2. QED  BY <1>5, <2>1, FirstIs
<1>12. hi \in B /\ \A a \in B : a <= hi
  <2>1. B \in SUBSET (0 .. FileSize) /\ B # {}  BY <1>4, <1>9, <1>10
  <2>2. QED  BY <1>6, <1>8, <2>1, LastIs
<1>13. PICK p \in G : p[1] = lo  BY <1>3, <1>11
<1>14. PICK q \in G : q[2] = hi  BY <1>4, <1>12
<1>15. \A x \in G : lo <= x[1] /\ x[2] <= hi  BY <1>3, <1>4, <1>11, <1>12
<1>16. /\ lo \in 0 .. FileSize /\ hi \in 0 .. FileSize /\ lo <= e[1] /\ e[2] <= hi /\ e[1] < e[2]
       /\ e[1] \in 0 .. FileSize /\ e[2] \in 0 .. FileSize
  BY <1>9, <1>10, <1>13, <1>14, <1>15
<1>17. PICK m : m = <<lo, hi>>  OBVIOUS
<1>18. m \in Extents /\ m[1] = lo /\ m[2] = hi
  <2>1. lo < hi  BY <1>8, <1>16
  <2>2. m \in (0 .. FileSize) \X (0 .. FileSize)  BY <1>16, <1>17
  <2>3. QED  BY <1>17, <2>1, <2>2 DEF Extents
<1>19. ASSUME NEW x \in G PROVE x = e \/ (x \in covered /\ x[2] >= e[1] /\ x[1] <= e[2])
  BY <1>1, <1>2 DEF Touching
<1>20. AddCovered(e) \subseteq Extents  BY <1>7, <1>17, <1>18
<1>21. ASSUME NEW x \in covered, x \notin near PROVE x[2] < lo \/ hi < x[1]
  <2>1. ~(x[2] >= e[1] /\ x[1] <= e[2])  BY <1>1, <1>21 DEF Touching
  <2>2. x[1] \in 0 .. FileSize /\ x[2] \in 0 .. FileSize /\ x[1] < x[2]  BY <1>9
  <2>3. x[2] < e[1] \/ e[2] < x[1]  BY <1>16, <2>1, <2>2
  <2>4. CASE x[2] < e[1]
    <3>1. x[2] < p[1]
      <4>1. CASE p = e  BY <2>4, <4>1
      <4>2. CASE p # e
        <5>1. p \in covered /\ p[2] >= e[1]  BY <1>13, <1>19, <4>2
        <5>2. p # x
          <6>1. p[2] \in 0 .. FileSize  BY <1>9, <1>10, <1>13
          <6>2. QED  BY <1>16, <2>2, <2>4, <5>1, <6>1
        <5>3. p[2] < x[1] \/ x[2] < p[1]  BY <5>1, <5>2
        <5>4. p[1] \in 0 .. FileSize /\ p[2] \in 0 .. FileSize  BY <1>9, <1>10, <1>13
        <5>5. QED  BY <1>8, <1>16, <2>2, <2>4, <5>1, <5>3, <5>4
      <4>3. QED  BY <4>1, <4>2
    <3>2. QED  BY <1>13, <3>1
  <2>5. CASE e[2] < x[1]
    <3>1. q[2] < x[1]
      <4>1. CASE q = e  BY <2>5, <4>1
      <4>2. CASE q # e
        <5>1. q \in covered /\ q[1] <= e[2]  BY <1>14, <1>19, <4>2
        <5>2. q # x
          <6>1. q[1] \in 0 .. FileSize  BY <1>9, <1>10, <1>14
          <6>2. QED  BY <1>16, <2>2, <2>5, <5>1, <6>1
        <5>3. x[2] < q[1] \/ q[2] < x[1]  BY <5>1, <5>2
        <5>4. q[1] \in 0 .. FileSize /\ q[2] \in 0 .. FileSize  BY <1>9, <1>10, <1>14
        <5>5. QED  BY <1>8, <1>16, <2>2, <2>5, <5>1, <5>3, <5>4
      <4>3. QED  BY <4>1, <4>2
    <3>2. QED  BY <1>14, <3>1
  <2>6. QED  BY <2>3, <2>4, <2>5
<1>22. \A x, y \in AddCovered(e) : x # y => y[2] < x[1] \/ x[2] < y[1]
  <2>1. SUFFICES ASSUME NEW x \in AddCovered(e), NEW y \in AddCovered(e), x # y PROVE y[2] < x[1] \/ x[2] < y[1]
    OBVIOUS
  <2>2. x = m \/ (x \in covered /\ x \notin near)  BY <1>7, <1>17
  <2>3. y = m \/ (y \in covered /\ y \notin near)  BY <1>7, <1>17
  <2>4. CASE x = m  BY <1>18, <1>21, <2>1, <2>3, <2>4
  <2>5. CASE y = m  BY <1>18, <1>21, <2>1, <2>2, <2>5
  <2>6. QED  BY <2>1, <2>2, <2>3, <2>4, <2>5
<1>23. ASSUME NEW b \in ByteRange(m) PROVE \E x \in G : b \in ByteRange(x)
  <2>1. b \in Int /\ lo <= b /\ b < hi  BY <1>8, <1>16, <1>18 DEF ByteRange
  <2>2. CASE b < e[1]
    <3>1. p # e  BY <1>13, <1>16, <2>1, <2>2
    <3>2. p[2] >= e[1] /\ p[2] \in 0 .. FileSize /\ p[1] \in 0 .. FileSize  BY <1>9, <1>10, <1>13, <1>19, <3>1
    <3>3. b \in ByteRange(p)  BY <1>8, <1>13, <1>16, <2>1, <2>2, <3>2 DEF ByteRange
    <3>4. QED  BY <3>3
  <2>3. CASE b >= e[2]
    <3>1. q # e  BY <1>14, <1>16, <2>1, <2>3
    <3>2. q[1] <= e[2] /\ q[2] \in 0 .. FileSize /\ q[1] \in 0 .. FileSize  BY <1>9, <1>10, <1>14, <1>19, <3>1
    <3>3. b \in ByteRange(q)  BY <1>8, <1>14, <1>16, <2>1, <2>3, <3>2 DEF ByteRange
    <3>4. QED  BY <3>3
  <2>4. CASE ~(b < e[1]) /\ ~(b >= e[2])
    <3>1. b \in ByteRange(e)  BY <1>8, <1>16, <2>1, <2>4 DEF ByteRange
    <3>2. QED  BY <1>10, <3>1
  <2>5. QED  BY <2>2, <2>3, <2>4
<1>24. ASSUME NEW x \in G, NEW b \in ByteRange(x) PROVE b \in ByteRange(m)
  <2>1. lo <= x[1] /\ x[2] <= hi /\ x[1] \in 0 .. FileSize /\ x[2] \in 0 .. FileSize  BY <1>9, <1>10, <1>15
  <2>2. QED  BY <1>8, <1>16, <1>18, <2>1 DEF ByteRange
<1>25. UNION {ByteRange(x) : x \in AddCovered(e)} = CoveredBytes \cup ByteRange(e)
  <2>1. PICK K : K = AddCovered(e)  OBVIOUS
  <2>2. K = (covered \ near) \cup {m} /\ G = near \cup {e} /\ near \subseteq covered  BY <1>1, <1>2, <1>7, <1>17, <2>1
  <2>3. ASSUME NEW b, \E x \in K : b \in ByteRange(x) PROVE b \in CoveredBytes \cup ByteRange(e)
    <3>1. PICK x \in K : b \in ByteRange(x)  BY <2>3
    <3>2. CASE x \in covered  BY <3>1, <3>2 DEF CoveredBytes
    <3>3. CASE x = m
      <4>1. PICK y \in G : b \in ByteRange(y)  BY <1>23, <3>1, <3>3
      <4>2. QED  BY <2>2, <4>1 DEF CoveredBytes
    <3>4. QED  BY <2>2, <3>1, <3>2, <3>3
  <2>4. ASSUME NEW b \in CoveredBytes \cup ByteRange(e) PROVE \E x \in K : b \in ByteRange(x)
    <3>1. PICK x \in covered \cup {e} : b \in ByteRange(x)  BY <2>4 DEF CoveredBytes
    <3>2. CASE x \in G  BY <1>24, <2>2, <3>1, <3>2
    <3>3. CASE x \notin G  BY <2>2, <3>1, <3>3
    <3>4. QED  BY <3>2, <3>3
  <2>5. QED  BY <2>1, <2>3, <2>4
<1>26. QED  BY <1>20, <1>22, <1>25

-----------------------------------------------------------------------------
(* Steps of a worker *)

AsmErrors == {"none", "refused", "stopped", "bad", "untiled", "cancelled"}

LEMMA OneLess ==
  ASSUME NEW S, IsFiniteSet(S), NEW x \in S, NEW T, T \subseteq S, x \notin T, \A y \in S : y = x \/ y \in T
  PROVE  Cardinality(T) \in Nat /\ Cardinality(S) = Cardinality(T) + 1
<1>1. PICK U : U = S \ {x}  OBVIOUS
<1>2. Cardinality(S \ {x}) = Cardinality(S) - 1 /\ IsFiniteSet(S \ {x})  BY FS_RemoveElement
<1>3. U = T  BY <1>1
<1>4. IsFiniteSet(T) /\ Cardinality(T) = Cardinality(S) - 1  BY <1>1, <1>2, <1>3
<1>5. Cardinality(T) \in Nat  BY ONLY <1>4, FS_CardinalityType
<1>6. Cardinality(S) \in Nat  BY FS_CardinalityType
<1>7. QED  BY <1>4, <1>5, <1>6

LEMMA RestTyped ==
  ASSUME NEW l \in {"dial", "pick", "ask", "decode", "redial", "out"}
  PROVE  Resting(l) \in WorkerRecords /\ Resting(l).at = l
BY ArticlesAre DEF Resting, WorkerRecords

LEMMA WorkerSet ==
  ASSUME AsmTyped, NEW w \in AsmWorkers, NEW q \in WorkerRecords, worker' = [worker EXCEPT ![w] = q]
  PROVE  /\ worker' \in [AsmWorkers -> WorkerRecords] /\ worker'[w] = q
         /\ \A v \in AsmWorkers : v # w => worker'[v] = worker[v]
BY DEF AsmTyped

\* What is covered stays covered and right as long as the disk keeps it.
LEMMA CoveredKept ==
  ASSUME CoveredSound, UNCHANGED <<segState, covered, assembled, total>>,
         \A b \in CoveredBytes : disk'[b] = "good"
  PROVE  CoveredSound'
<1>1. CoveredBytes' = CoveredBytes  BY DEF CoveredBytes, ByteRange
<1>2. Done' = Done  BY DEF Done
<1>3. QED  BY <1>1, <1>2 DEF CoveredSound

\* A worker leaves; if it leaves its segment behind, the assembly has an error.
LEMMA LeaveKeeps ==
  ASSUME AsmInv, NEW w \in AsmWorkers, worker[w].at # "out", worker' = [worker EXCEPT ![w] = Resting("out")],
         alive' = alive - 1, asmErr' \in AsmErrors, asmErr # "none" => asmErr' # "none",
         alive = 1 => assembled \/ asmErr' # "none", AtWork(w) => asmErr' # "none",
         UNCHANGED <<post, segState, cursor, pending, layoutVars, doneVars, nzbReader>>,
         \A b \in CoveredBytes : disk'[b] = "good"
  PROVE  AsmInv'
<1>1. /\ worker' \in [AsmWorkers -> WorkerRecords] /\ worker'[w].at = "out"
      /\ \A v \in AsmWorkers : v # w => worker'[v] = worker[v]
  BY RestTyped, WorkerSet DEF AsmInv
<1>2. AsmTyped'  BY <1>1 DEF AsmInv, AsmTyped, layoutVars, doneVars, AsmErrors
<1>3. Counted'
  <2>1. PICK S : S = {v \in AsmWorkers : worker[v].at # "out"}  OBVIOUS
  <2>2. PICK T : T = {v \in AsmWorkers : worker'[v].at # "out"}  OBVIOUS
  <2>3. IsFiniteSet(S) /\ w \in S /\ T \subseteq S /\ w \notin T /\ \A v \in S : v = w \/ v \in T
    <3>1. S \in SUBSET AsmWorkers  BY <2>1
    <3>2. IsFiniteSet(S)  BY <3>1, ArticlesAre, FS_Subset
    <3>3. QED  BY <1>1, <2>1, <2>2, <3>2
  <2>4. Cardinality(T) \in Nat /\ Cardinality(S) = Cardinality(T) + 1  BY <2>3, OneLess
  <2>5. alive = Cardinality(S)  BY <2>1 DEF AsmInv, Counted
  <2>6. alive' = Cardinality(T)  BY <2>4, <2>5
  <2>7. alive' = 0 => assembled \/ asmErr' # "none"  BY <2>4, <2>5
  <2>8. QED  BY <2>2, <2>6, <2>7 DEF AsmInv, Counted, doneVars
<1>4. \A v \in AsmWorkers : AtWork(v)' => v # w /\ AtWork(v) /\ worker'[v] = worker[v]  BY <1>1 DEF AtWork
<1>5. \A v \in AsmWorkers : AtWork(v) /\ v # w => AtWork(v)' /\ worker'[v] = worker[v]  BY <1>1 DEF AtWork
<1>6. Shared'
  <2>1. \A v \in AsmWorkers : AtWork(v)' => segState'[worker'[v].seg] = "inflight"  BY <1>4 DEF AsmInv, Shared
  <2>2. \A u, v \in AsmWorkers : AtWork(u)' /\ AtWork(v)' /\ worker'[u].seg = worker'[v].seg => u = v
    BY <1>4 DEF AsmInv, Shared
  <2>3. asmErr' = "none" => \A i \in Articles : segState'[i] = "inflight" =>
          \E v \in AsmWorkers : AtWork(v)' /\ worker'[v].seg = i
    BY <1>5 DEF AsmInv, Shared
  <2>4. QED  BY <2>1, <2>2, <2>3 DEF AsmInv, Shared, Done, doneVars
<1>7. LayoutSound'
  <2>1. \A v \in AsmWorkers : worker'[v].at = "decode" => worker[v].at = "decode" /\ worker'[v] = worker[v]  BY <1>1
  <2>2. QED  BY <1>4, <2>1 DEF AsmInv, LayoutSound, Done, layoutVars, doneVars
<1>8. SequenceSound'
  <2>1. SUFFICES ASSUME layout = "sequential"
                 PROVE  /\ seqOwner \in AsmWorkers /\ \A v \in AsmWorkers : AtWork(v)' => v = seqOwner
                        /\ worker'[seqOwner].at # "out" => ArticlesInOrder'
    BY DEF SequenceSound, layoutVars
  <2>2. seqOwner \in AsmWorkers /\ \A v \in AsmWorkers : AtWork(v)' => v = seqOwner  BY <1>4, <2>1 DEF AsmInv, SequenceSound
  <2>3. ASSUME worker'[seqOwner].at # "out" PROVE ArticlesInOrder'
    <3>1. seqOwner # w /\ worker'[seqOwner] = worker[seqOwner]  BY <1>1, <2>2, <2>3
    <3>2. ArticlesInOrder  BY <2>1, <2>3, <3>1 DEF AsmInv, SequenceSound
    <3>3. QED  BY <3>1, <3>2 DEF ArticlesInOrder, AtWork, Done, layoutVars, doneVars
  <2>4. QED  BY <2>2, <2>3
<1>9. CoveredSound'  BY CoveredKept DEF AsmInv, layoutVars, doneVars
<1>10. QED  BY <1>2, <1>3, <1>6, <1>7, <1>8, <1>9 DEF AsmInv

\* A worker goes on, with the segment it has or with none as before.
LEMMA MoveKeeps ==
  ASSUME AsmInv, NEW w \in AsmWorkers, NEW q \in WorkerRecords, worker' = [worker EXCEPT ![w] = q],
         worker[w].at # "out", q.at \notin {"out", "decode"}, q.at \in {"ask", "redial"} <=> AtWork(w),
         AtWork(w) => q.seg = worker[w].seg,
         UNCHANGED <<post, segState, cursor, pending, layoutVars, doneVars, alive, asmErr, nzbReader>>,
         \A b \in CoveredBytes : disk'[b] = "good"
  PROVE  AsmInv'
<1>1. worker' \in [AsmWorkers -> WorkerRecords] /\ worker'[w] = q /\ \A v \in AsmWorkers : v # w => worker'[v] = worker[v]
  BY WorkerSet DEF AsmInv
<1>2. AsmTyped'  BY <1>1 DEF AsmInv, AsmTyped, layoutVars, doneVars
<1>3. \A v \in AsmWorkers : (worker'[v].at = "out") = (worker[v].at = "out")  BY <1>1
<1>4. Counted'
  <2>1. {v \in AsmWorkers : worker'[v].at # "out"} = {v \in AsmWorkers : worker[v].at # "out"}  BY <1>3
  <2>2. QED  BY <2>1 DEF AsmInv, Counted, doneVars
<1>5. \A v \in AsmWorkers : AtWork(v)' <=> AtWork(v)  BY <1>1 DEF AtWork
<1>6. \A v \in AsmWorkers : AtWork(v) => worker'[v].seg = worker[v].seg  BY <1>1
<1>7. Shared'
  <2>1. \A v \in AsmWorkers : AtWork(v)' => segState'[worker'[v].seg] = "inflight"  BY <1>5, <1>6 DEF AsmInv, Shared
  <2>2. \A u, v \in AsmWorkers : AtWork(u)' /\ AtWork(v)' /\ worker'[u].seg = worker'[v].seg => u = v
    BY <1>5, <1>6 DEF AsmInv, Shared
  <2>3. asmErr' = "none" => \A i \in Articles : segState'[i] = "inflight" =>
          \E v \in AsmWorkers : AtWork(v)' /\ worker'[v].seg = i
    BY <1>5, <1>6 DEF AsmInv, Shared
  <2>4. QED  BY <2>1, <2>2, <2>3 DEF AsmInv, Shared, Done, doneVars
<1>8. LayoutSound'
  <2>1. \A v \in AsmWorkers : worker'[v].at = "decode" => worker[v].at = "decode" /\ worker'[v] = worker[v]  BY <1>1
  <2>2. QED  BY <1>5, <1>6, <2>1 DEF AsmInv, LayoutSound, Done, layoutVars, doneVars
<1>9. SequenceSound'
  <2>1. SUFFICES ASSUME layout = "sequential"
                 PROVE  /\ seqOwner \in AsmWorkers /\ \A v \in AsmWorkers : AtWork(v)' => v = seqOwner
                        /\ worker'[seqOwner].at # "out" => ArticlesInOrder'
    BY DEF SequenceSound, layoutVars
  <2>2. seqOwner \in AsmWorkers /\ \A v \in AsmWorkers : AtWork(v)' => v = seqOwner  BY <1>5, <2>1 DEF AsmInv, SequenceSound
  <2>3. ASSUME worker'[seqOwner].at # "out" PROVE ArticlesInOrder'
    <3>1. ArticlesInOrder  BY <1>3, <2>1, <2>2, <2>3 DEF AsmInv, SequenceSound
    <3>2. seqOwner' = seqOwner /\ cursor' = cursor /\ segState' = segState /\ seqOff' = seqOff  BY DEF layoutVars, doneVars
    <3>3. AtWork(seqOwner)' => AtWork(seqOwner) /\ worker'[seqOwner].seg = worker[seqOwner].seg
      BY <1>5, <1>6, <2>2, <3>2 DEF AtWork
    <3>4. (AtWork(seqOwner))' => \A j \in Articles : j < worker'[seqOwner].seg => j \in Done
      BY <3>1, <3>3 DEF ArticlesInOrder
    <3>5. QED  BY <3>1, <3>2, <3>4 DEF ArticlesInOrder, Done, AtWork
  <2>4. QED  BY <2>2, <2>3
<1>10. CoveredSound'  BY CoveredKept DEF AsmInv, layoutVars, doneVars
<1>11. QED  BY <1>2, <1>4, <1>7, <1>8, <1>9, <1>10 DEF AsmInv

\* Nothing moves but readers, sleepers, the cursor of a parallel layout, or an error.
LEMMA QuietKeeps ==
  ASSUME AsmInv, UNCHANGED <<post, segState, pending, layoutVars, doneVars, alive, worker, disk>>,
         nzbReader' \in [AsmReaders -> [at : {"idle", "size", "run", "end"}, off : Nat]],
         asmErr' \in AsmErrors, asmErr # "none" => asmErr' # "none",
         cursor' \in Articles, cursor' = cursor \/ layout = "parallel"
  PROVE  AsmInv'
<1>1. AsmTyped'  BY DEF AsmInv, AsmTyped, layoutVars, doneVars, AsmErrors
<1>2. Counted'  BY DEF AsmInv, Counted, doneVars
<1>3. Shared'  BY DEF AsmInv, Shared, AtWork, Done, doneVars
<1>4. LayoutSound'  BY DEF AsmInv, LayoutSound, AtWork, Done, layoutVars, doneVars
<1>5. SequenceSound'  BY DEF AsmInv, SequenceSound, ArticlesInOrder, AtWork, Done, layoutVars, doneVars
<1>6. CoveredSound'
  <2>1. \A b \in CoveredBytes : disk'[b] = "good"  BY DEF AsmInv, CoveredSound
  <2>2. QED  BY <2>1, CoveredKept DEF AsmInv, layoutVars, doneVars
<1>7. QED  BY <1>1, <1>2, <1>3, <1>4, <1>5, <1>6 DEF AsmInv

\* An error, once there, stays; a failure leaves one unless the file is complete.
LEMMA FailIs ==
  ASSUME asmErr \in AsmErrors, NEW why \in AsmErrors \ {"none"}
  PROVE  /\ Failed(why) \in AsmErrors /\ (asmErr # "none" => Failed(why) # "none")
         /\ assembled \/ Failed(why) # "none"
BY DEF Failed

\* While somebody is at work, the file is not complete.
LEMMA WorkLeft == ASSUME AsmInv, NEW w \in AsmWorkers, AtWork(w) PROVE ~assembled /\ worker[w].seg \in Articles \ Done
<1>1. segState[worker[w].seg] = "inflight"  BY DEF AsmInv, Shared
<1>2. worker[w].seg \in Articles  BY DEF AsmInv, AsmTyped, WorkerRecords
<1>3. QED  BY <1>1, <1>2 DEF AsmInv, Shared, Done

LEMMA DiskStays == ASSUME AsmInv, disk' = disk PROVE \A b \in CoveredBytes : disk'[b] = "good"
BY DEF AsmInv, CoveredSound

\* What is written of an article in flight leaves what is covered alone.
LEMMA WriteApart ==
  ASSUME AsmInv, NEW w \in AsmWorkers, worker[w].at = "decode", NEW k \in Int, k <= Lens[worker[w].seg],
         NEW right, disk' = Written(worker[w].seg, worker[w].start, k, right)
  PROVE  \A b \in CoveredBytes : disk'[b] = "good"
<1>1. SUFFICES ASSUME NEW b \in CoveredBytes PROVE disk'[b] = "good"  OBVIOUS
<1>2. PICK i : i = worker[w].seg  OBVIOUS
<1>3. i \in Articles \ Done  BY <1>2, WorkLeft DEF AtWork
<1>4. worker[w].start = StartOf(i)  BY <1>2 DEF AsmInv, LayoutSound
<1>5. PICK j \in Done : b \in Own(j)  BY <1>1 DEF AsmInv, CoveredSound
<1>6. j \in Articles /\ j # i  BY <1>3, <1>5 DEF Done
<1>7. b \notin Own(i) /\ b \in PostBytes
  <2>1. Own(i) \cap Own(j) = {}  BY <1>3, <1>6, OwnApart
  <2>2. Own(j) \subseteq 0 .. FileSize - 1 /\ FileSize \in Nat  BY <1>6, OwnBytes, LastByte
  <2>3. QED  BY <1>5, <2>1, <2>2 DEF PostBytes
<1>8. b \notin StartOf(i) .. StartOf(i) + k - 1
  <2>1. StartOf(i) \in Nat /\ Lens[i] \in Nat /\ k <= Lens[i]  BY <1>2, <1>3, Places
  <2>2. QED  BY <1>7, <2>1 DEF Own
<1>9. disk'[b] = disk[b]  BY <1>2, <1>4, <1>7, <1>8 DEF Written
<1>10. QED  BY <1>9 DEF AsmInv, CoveredSound

LEMMA ExitKeeps ==
  ASSUME AsmInv, NEW w \in AsmWorkers, worker[w].at # "out", NEW why \in AsmErrors \ {"none"}, WorkerExit(w, why),
         AtWork(w) => asmErr # "none",
         UNCHANGED <<post, segState, cursor, pending, layoutVars, doneVars, nzbReader>>,
         \A b \in CoveredBytes : disk'[b] = "good"
  PROVE  AsmInv'
<1>1. worker' = [worker EXCEPT ![w] = Resting("out")] /\ alive' = alive - 1  BY DEF WorkerExit, WorkerGoes
<1>2. asmErr \in AsmErrors  BY DEF AsmInv, AsmTyped, AsmErrors
<1>3. asmErr' = asmErr \/ asmErr' = Failed(why)  BY DEF WorkerExit, FailLocked
<1>4. asmErr' \in AsmErrors /\ (asmErr # "none" => asmErr' # "none")  BY <1>2, <1>3, FailIs
<1>5. alive = 1 => assembled \/ asmErr' # "none"  BY <1>2, FailIs DEF WorkerExit, FailLocked
<1>6. AtWork(w) => asmErr' # "none"  BY <1>4
<1>7. QED  BY <1>1, <1>4, <1>5, <1>6, LeaveKeeps

LEMMA FailKeeps ==
  ASSUME AsmInv, NEW w \in AsmWorkers, AtWork(w), WorkerGoes(w, "out"), alive' = alive - 1, FailLocked("bad"),
         UNCHANGED <<post, segState, cursor, pending, layoutVars, doneVars, nzbReader>>,
         \A b \in CoveredBytes : disk'[b] = "good"
  PROVE  AsmInv'
<1>1. worker' = [worker EXCEPT ![w] = Resting("out")]  BY DEF WorkerGoes
<1>2. asmErr \in AsmErrors /\ "bad" \in AsmErrors \ {"none"}  BY DEF AsmInv, AsmTyped, AsmErrors
<1>3. asmErr' = Failed("bad") /\ ~assembled  BY WorkLeft DEF FailLocked
<1>4. asmErr' \in AsmErrors /\ asmErr' # "none"  BY <1>2, <1>3, FailIs
<1>5. worker[w].at # "out"  BY DEF AtWork
<1>6. QED  BY <1>1, <1>4, <1>5, LeaveKeeps

LEMMA DialKeeps == ASSUME AsmInv, NEW w \in AsmWorkers, Dial(w) PROVE AsmInv'
<1>1. /\ worker[w].at = "dial" /\ ~AtWork(w) /\ disk' = disk
      /\ UNCHANGED <<post, segState, cursor, pending, layoutVars, doneVars, nzbReader>>
  BY DEF Dial, AtWork
<1>2. \A b \in CoveredBytes : disk'[b] = "good"  BY <1>1, DiskStays
<1>3. CASE WorkerGoes(w, "pick") /\ UNCHANGED <<alive, asmErr>>
  <2>1. PICK q : q = Resting("pick")  OBVIOUS
  <2>2. q \in WorkerRecords /\ q.at = "pick"  BY <2>1, RestTyped
  <2>3. worker' = [worker EXCEPT ![w] = q]  BY <1>3, <2>1 DEF WorkerGoes
  <2>4. QED  BY <1>1, <1>2, <1>3, <2>2, <2>3, MoveKeeps
<1>4. CASE WorkerExit(w, "refused")
  <2>1. "refused" \in AsmErrors \ {"none"}  BY DEF AsmErrors
  <2>2. QED  BY <1>1, <1>2, <1>4, <2>1, ExitKeeps
<1>5. QED  BY <1>3, <1>4 DEF Dial

\* A pending segment becomes a worker's own.
LEMMA ClaimKeeps ==
  ASSUME AsmInv, NEW w \in AsmWorkers, worker[w].at = "pick", NEW i \in Articles, segState[i] = "pending", Claim(w, i),
         ~assembled, cursor' \in Articles, layout = "unknown" => i = 1 /\ cursor' = cursor,
         layout = "sequential" => /\ w = seqOwner /\ \A j \in Articles : j < i => j \in Done
                                  /\ \A j \in Articles : j < cursor' => segState[j] # "pending" \/ j = i,
         UNCHANGED <<post, layoutVars, doneVars, alive, asmErr, nzbReader, disk>>
  PROVE  AsmInv'
<1>1. PICK q : q = [Resting("ask") EXCEPT !.seg = i]  OBVIOUS
<1>2. q \in WorkerRecords /\ q.at = "ask" /\ q.seg = i
  <2>1. Resting("ask") \in WorkerRecords /\ Resting("ask").at = "ask"  BY RestTyped
  <2>2. QED  BY <1>1, <2>1 DEF WorkerRecords
<1>3. /\ worker' = [worker EXCEPT ![w] = q] /\ segState' = [segState EXCEPT ![i] = "inflight"] /\ pending' = pending - 1
  BY <1>1 DEF Claim
<1>4. worker' \in [AsmWorkers -> WorkerRecords] /\ worker'[w] = q /\ \A v \in AsmWorkers : v # w => worker'[v] = worker[v]
  BY <1>2, <1>3, WorkerSet DEF AsmInv
<1>5. /\ segState' \in [Articles -> {"pending", "inflight", "done"}] /\ segState'[i] = "inflight"
      /\ \A j \in Articles : j # i => segState'[j] = segState[j]
  BY <1>3 DEF AsmInv, AsmTyped
<1>6. AsmTyped'  BY <1>4, <1>5 DEF AsmInv, AsmTyped, layoutVars, doneVars
<1>7. Done' = Done  BY <1>5 DEF Done
<1>8. Counted'
  <2>1. PICK S : S = {j \in Articles : segState[j] = "pending"}  OBVIOUS
  <2>2. PICK T : T = {j \in Articles : segState'[j] = "pending"}  OBVIOUS
  <2>3. IsFiniteSet(S) /\ i \in S /\ T \subseteq S /\ i \notin T /\ \A j \in S : j = i \/ j \in T
    <3>1. S \in SUBSET Articles  BY <2>1
    <3>2. IsFiniteSet(S)  BY <3>1, ArticlesAre, FS_Subset
    <3>3. QED  BY <1>5, <2>1, <2>2, <3>2
  <2>4. Cardinality(T) \in Nat /\ Cardinality(S) = Cardinality(T) + 1  BY <2>3, OneLess
  <2>5. pending' = Cardinality(T)  BY <1>3, <2>1, <2>4 DEF AsmInv, Counted
  <2>6. {j \in Articles : segState'[j] # "done"} = {j \in Articles : segState[j] # "done"}  BY <1>5
  <2>7. {v \in AsmWorkers : worker'[v].at # "out"} = {v \in AsmWorkers : worker[v].at # "out"}  BY <1>2, <1>4
  <2>8. QED  BY <2>2, <2>5, <2>6, <2>7 DEF AsmInv, Counted, doneVars
<1>9. ~AtWork(w) /\ \A v \in AsmWorkers : AtWork(v)' <=> (v = w \/ AtWork(v))  BY <1>2, <1>4 DEF AtWork
<1>10. \A v \in AsmWorkers : AtWork(v) => worker'[v] = worker[v] /\ worker[v].seg # i /\ worker[v].seg \in Articles
  BY <1>4, <1>9 DEF AsmInv, Shared, AsmTyped, WorkerRecords
<1>11. Shared'
  <2>1. \A v \in AsmWorkers : AtWork(v)' => segState'[worker'[v].seg] = "inflight"
    BY <1>2, <1>4, <1>5, <1>9, <1>10 DEF AsmInv, Shared
  <2>2. \A u, v \in AsmWorkers : AtWork(u)' /\ AtWork(v)' /\ worker'[u].seg = worker'[v].seg => u = v
    BY <1>2, <1>4, <1>9, <1>10 DEF AsmInv, Shared
  <2>3. asmErr' = "none" => \A j \in Articles : segState'[j] = "inflight" =>
          \E v \in AsmWorkers : AtWork(v)' /\ worker'[v].seg = j
    <3>1. SUFFICES ASSUME asmErr = "none", NEW j \in Articles, segState'[j] = "inflight"
                   PROVE  \E v \in AsmWorkers : AtWork(v)' /\ worker'[v].seg = j
      OBVIOUS
    <3>2. CASE j = i  BY <1>2, <1>4, <1>9, <3>2
    <3>3. CASE j # i
      <4>1. PICK v \in AsmWorkers : AtWork(v) /\ worker[v].seg = j  BY <1>5, <3>1, <3>3 DEF AsmInv, Shared
      <4>2. QED  BY <1>9, <1>10, <4>1
    <3>4. QED  BY <3>2, <3>3
  <2>4. QED  BY <2>1, <2>2, <2>3 DEF Shared, doneVars
<1>12. LayoutSound'
  <2>1. \A v \in AsmWorkers : worker'[v].at = "decode" => worker[v].at = "decode" /\ worker'[v] = worker[v]  BY <1>2, <1>4
  <2>2. ASSUME layout = "unknown" PROVE \A v \in AsmWorkers : worker'[v].at # "decode" /\ (AtWork(v)' => worker'[v].seg = 1)
    BY <1>2, <1>4, <1>9, <1>10, <2>1, <2>2 DEF AsmInv, LayoutSound
  <2>3. QED  BY <1>7, <2>1, <2>2 DEF AsmInv, LayoutSound, layoutVars, doneVars
<1>13. SequenceSound'
  <2>1. SUFFICES ASSUME layout = "sequential"
                 PROVE  /\ seqOwner \in AsmWorkers /\ \A v \in AsmWorkers : AtWork(v)' => v = seqOwner
                        /\ worker'[seqOwner].at # "out" => ArticlesInOrder'
    BY DEF SequenceSound, layoutVars
  <2>2. seqOwner \in AsmWorkers /\ \A v \in AsmWorkers : AtWork(v)' => v = seqOwner  BY <1>9, <2>1 DEF AsmInv, SequenceSound
  <2>3. ArticlesInOrder  BY <2>1 DEF AsmInv, SequenceSound
  <2>4. \A j \in Articles : j < cursor' => segState'[j] # "pending"  BY <1>5, <2>1
  <2>5. seqOwner' = seqOwner /\ seqOff' = seqOff  BY DEF layoutVars, doneVars
  <2>6. worker'[seqOwner].seg = i  BY <1>2, <1>4, <2>1
  <2>7. ArticlesInOrder'  BY <1>7, <2>1, <2>3, <2>4, <2>5, <2>6 DEF ArticlesInOrder
  <2>8. QED  BY <2>2, <2>7
<1>14. CoveredSound'
  <2>1. CoveredBytes' = CoveredBytes  BY DEF CoveredBytes, ByteRange, doneVars
  <2>2. QED  BY <1>7, <2>1 DEF AsmInv, CoveredSound, layoutVars, doneVars
<1>15. QED  BY <1>6, <1>8, <1>11, <1>12, <1>13, <1>14 DEF AsmInv

LEMMA NextSegmentKeeps == ASSUME AsmInv, NEW w \in AsmWorkers, NextSegment(w) PROVE AsmInv'
<1>1. worker[w].at = "pick" /\ ~AtWork(w) /\ disk' = disk /\ UNCHANGED <<post, layoutVars, doneVars, nzbReader>>
  BY DEF NextSegment, AtWork
<1>2. CASE asmErr # "none" \/ assembled \/ Retires(w)
  <2>1. WorkerExit(w, "stopped") /\ UNCHANGED <<segState, cursor, pending>>  BY <1>2 DEF NextSegment
  <2>2. "stopped" \in AsmErrors \ {"none"}  BY DEF AsmErrors
  <2>3. \A b \in CoveredBytes : disk'[b] = "good"  BY <1>1, DiskStays
  <2>4. QED  BY <1>1, <2>1, <2>2, <2>3, ExitKeeps
<1>3. CASE ~(asmErr # "none" \/ assembled \/ Retires(w))
  <2>0. UNCHANGED <<alive, asmErr>> /\ asmErr = "none" /\ ~assembled  BY <1>3 DEF NextSegment
  <2>1. CASE layout = "unknown" /\ segState[1] = "pending" /\ Claim(w, 1) /\ UNCHANGED cursor
    <3>1. cursor' \in Articles /\ 1 \in Articles  BY <2>1, ArticlesAre DEF AsmInv, AsmTyped
    <3>2. QED  BY <1>1, <2>0, <2>1, <3>1, ClaimKeeps
  <2>2. CASE layout # "unknown" /\ pending > 0 /\ Claim(w, Picked) /\ cursor' = (Picked % Len(Lens)) + 1
    <3>1. PICK S : S = {j \in Articles : segState[j] = "pending"}  OBVIOUS
    <3>2. S # {}
      <4>1. pending = Cardinality(S)  BY <3>1 DEF AsmInv, Counted
      <4>2. QED  BY <2>2, <4>1, FS_EmptySet
    <3>3. \A j \in Articles : j >= 1  BY ArticlesAre
    <3>4. PendingFrom(1) = S  BY <3>1, <3>3 DEF PendingFrom
    <3>5. PICK i : i = Picked  OBVIOUS
    <3>6. /\ i \in S /\ \A j \in S : j >= cursor => i <= j
          /\ PendingFrom(cursor) = {} => \A j \in S : i <= j
      <4>1. PICK F : F = PendingFrom(cursor)  OBVIOUS
      <4>2. F \in SUBSET Nat /\ F \subseteq S /\ \A j \in S : j >= cursor => j \in F  BY <3>1, <4>1, ArticlesAre DEF PendingFrom
      <4>3. S \in SUBSET Nat  BY <3>1, ArticlesAre
      <4>4. CASE F # {}
        <5>1. i = First(F)  BY <3>5, <4>1, <4>4 DEF Picked
        <5>2. i \in F /\ \A j \in F : i <= j  BY <4>2, <4>4, <5>1, FirstIs
        <5>3. QED  BY <4>1, <4>2, <4>4, <5>2
      <4>5. CASE F = {}
        <5>1. i = First(S)  BY <3>4, <3>5, <4>1, <4>5 DEF Picked
        <5>2. i \in S /\ \A j \in S : i <= j  BY <3>2, <4>3, <5>1, FirstIs
        <5>3. QED  BY <5>2
      <4>6. QED  BY <4>4, <4>5
    <3>7. i \in Articles /\ segState[i] = "pending" /\ i \in 1 .. Len(Lens) /\ Len(Lens) \in Nat \ {0}  BY <3>1, <3>6, ArticlesAre
    <3>8. cursor' = IF i = Len(Lens) THEN 1 ELSE i + 1
      <4>1. CASE i = Len(Lens)
        <5>1. i % Len(Lens) = 0  BY <3>7, <4>1
        <5>2. QED  BY <2>2, <3>5, <4>1, <5>1
      <4>2. CASE i # Len(Lens)
        <5>1. i < Len(Lens) /\ 0 <= i  BY <3>7, <4>2
        <5>2. i % Len(Lens) = i  BY <3>7, <5>1
        <5>3. QED  BY <2>2, <3>5, <4>2, <5>2
      <4>3. QED  BY <4>1, <4>2
    <3>9. cursor' \in Articles  BY <3>7, <3>8, ArticlesAre
    <3>10. ASSUME layout = "sequential"
           PROVE  /\ w = seqOwner /\ \A j \in Articles : j < i => j \in Done
                  /\ \A j \in Articles : j < cursor' => segState[j] # "pending" \/ j = i
      <4>1. w = seqOwner  BY <1>3, <3>10 DEF Retires
      <4>2. ArticlesInOrder /\ \A v \in AsmWorkers : ~AtWork(v)  BY <1>1, <3>10, <4>1 DEF AsmInv, SequenceSound
      <4>3. \A j \in Articles : segState[j] # "inflight"  BY <2>0, <4>2 DEF AsmInv, Shared
      <4>4. \A j \in Articles : segState[j] \in {"pending", "done"}  BY <4>3 DEF AsmInv, AsmTyped
      <4>5. cursor \in Nat /\ i \in Nat /\ \A j \in Articles : j \in Nat  BY ArticlesAre, <3>7 DEF AsmInv, AsmTyped
      <4>6. ASSUME NEW j \in Articles, j < i PROVE segState[j] # "pending"
        <5>1. CASE j < cursor  BY <4>2, <5>1 DEF ArticlesInOrder
        <5>2. CASE j >= cursor  BY <3>1, <3>6, <4>5, <4>6, <5>2
        <5>3. QED  BY <4>5, <5>1, <5>2
      <4>7. \A j \in Articles : j < i => j \in Done  BY <4>4, <4>6 DEF Done
      <4>8. \A j \in Articles : j < cursor' => j < i \/ j = i  BY <3>3, <3>7, <3>8, <4>5
      <4>9. QED  BY <4>1, <4>6, <4>7, <4>8
    <3>11. Claim(w, i)  BY <2>2, <3>5
    <3>12. QED  BY <1>1, <2>0, <2>2, <3>7, <3>9, <3>10, <3>11, ClaimKeeps
  <2>3. CASE UNCHANGED <<segState, cursor, pending, worker>>
    <3>1. asmErr' \in AsmErrors  BY <2>0 DEF AsmErrors
    <3>2. nzbReader' \in [AsmReaders -> [at : {"idle", "size", "run", "end"}, off : Nat]] /\ cursor' \in Articles
      BY <1>1, <2>3 DEF AsmInv, AsmTyped
    <3>3. QED  BY <1>1, <2>0, <2>3, <3>1, <3>2, QuietKeeps
  <2>4. QED  BY <1>3, <2>1, <2>2, <2>3 DEF NextSegment
<1>4. QED  BY <1>2, <1>3

\* In a sequential layout the articles before the owner's are the ones that are done.
LEMMA DoneBefore ==
  ASSUME AsmInv, layout = "sequential", NEW w \in AsmWorkers, AtWork(w)
  PROVE  w = seqOwner /\ ArticlesInOrder /\ Done = 1 .. worker[w].seg - 1 /\ seqOff = StartOf(worker[w].seg)
<1>1. w = seqOwner /\ ArticlesInOrder  BY DEF AsmInv, SequenceSound, AtWork
<1>2. PICK i : i = worker[w].seg  OBVIOUS
<1>3. i \in Articles \ Done  BY <1>2, WorkLeft
<1>4. \A j \in Articles : j < i => j \in Done  BY <1>1, <1>2 DEF ArticlesInOrder
<1>5. \A j \in Done : j < i
  <2>1. SUFFICES ASSUME NEW j \in Done, ~(j < i) PROVE FALSE  OBVIOUS
  <2>2. j \in Articles /\ j # i /\ j \in Nat /\ i \in Nat  BY <1>3, <2>1, ArticlesAre DEF Done
  <2>3. i < j  BY <2>1, <2>2
  <2>4. i \in Done  BY <1>1, <1>3, <2>1, <2>3 DEF ArticlesInOrder
  <2>5. QED  BY <1>3, <2>4
<1>6. i \in 1 .. Len(Lens) /\ Articles = 1 .. Len(Lens) /\ Len(Lens) \in Nat  BY <1>3, ArticlesAre
<1>7. Done \subseteq Articles  BY DEF Done
<1>8. Done = 1 .. i - 1
  <2>1. ASSUME NEW j \in Done PROVE j \in 1 .. i - 1  BY <1>5, <1>6, <1>7
  <2>2. ASSUME NEW j \in 1 .. i - 1 PROVE j \in Done  BY <1>4, <1>6
  <2>3. QED  BY <2>1, <2>2
<1>9. seqOff = StartOf(i)  BY <1>1, <1>8 DEF ArticlesInOrder, StartOf
<1>10. QED  BY <1>1, <1>2, <1>8, <1>9

\* Where an article is decoded to is where it belongs.
LEMMA OpensInPlace ==
  ASSUME AsmInv, NEW w \in AsmWorkers, worker[w].at = "ask",
         NEW h, h = post.head[worker[w].seg], ~Refused(h), NEW start,
         start = IF LayoutBy(h) = "sequential" THEN seqOff ELSE IF h.part THEN h.begin - 1 ELSE 0
  PROVE  start = StartOf(worker[w].seg)
<1>1. PICK i : i = worker[w].seg  OBVIOUS
<1>2. AtWork(w) /\ i \in Articles  BY <1>1, WorkLeft DEF AtWork
<1>3. /\ post \in Posts /\ h \in [size : Nat, part : BOOLEAN, begin : Nat, end : Nat]
      /\ SelfDescribing(post.head[1]) => (h.part => h.begin = StartOf(i) + 1)
  BY <1>1, <1>2, AssemblyAssumption DEF AsmInv, AsmTyped
<1>4. StartOf(i) \in Nat  BY <1>2, Places
<1>5. CASE layout = "unknown" /\ ~SelfDescribing(h)
  <2>1. i = 1 /\ seqOff = 0  BY <1>1, <1>2, <1>5 DEF AsmInv, LayoutSound
  <2>2. start = 0  BY <1>5, <2>1 DEF LayoutBy
  <2>3. QED  BY <1>1, <2>1, <2>2, FirstPlace
<1>6. CASE layout = "sequential"
  <2>1. seqOff = StartOf(i)  BY <1>1, <1>2, <1>6, DoneBefore
  <2>2. QED  BY <1>1, <1>6, <2>1 DEF LayoutBy
<1>7. CASE layout = "parallel" \/ (layout = "unknown" /\ SelfDescribing(h))
  <2>1. SelfDescribing(post.head[1])
    <3>1. layout = "unknown" => i = 1  BY <1>1, <1>2 DEF AsmInv, LayoutSound
    <3>2. QED  BY <1>1, <1>7, <3>1 DEF AsmInv, LayoutSound
  <2>2. LayoutBy(h) = "parallel"  BY <1>7 DEF LayoutBy
  <2>3. Placed(h)  BY <2>2 DEF Refused
  <2>4. CASE h.part
    <3>1. h.begin = StartOf(i) + 1 /\ start = h.begin - 1  BY <1>3, <2>1, <2>2, <2>4
    <3>2. QED  BY <1>1, <1>4, <3>1
  <2>5. CASE ~h.part
    <3>1. Len(Lens) = 1 /\ start = 0  BY <2>2, <2>3, <2>5 DEF Placed
    <3>2. i = 1  BY <1>2, <3>1, ArticlesAre
    <3>3. QED  BY <1>1, <3>1, <3>2, FirstPlace
  <2>6. QED  BY <2>4, <2>5
<1>8. QED  BY <1>5, <1>6, <1>7 DEF AsmInv, AsmTyped

LEMMA OpenKeeps == ASSUME AsmInv, NEW w \in AsmWorkers, OpenSegment(w) PROVE AsmInv'
<1>1. PICK i : i = worker[w].seg  OBVIOUS
<1>2. PICK h : h = post.head[i]  OBVIOUS
<1>3. PICK start : start = IF LayoutBy(h) = "sequential" THEN seqOff ELSE IF h.part THEN h.begin - 1 ELSE 0  OBVIOUS
<1>4. PICK end : end = IF LayoutBy(h) = "sequential" THEN post.cap ELSE IF h.part THEN h.end ELSE h.size  OBVIOUS
<1>5. /\ worker[w].at = "ask" /\ ~Refused(h)
      /\ worker' = [worker EXCEPT ![w] = [worker[w] EXCEPT !.at = "decode", !.start = start, !.end = end]]
      /\ layout' = LayoutBy(h) /\ total' = TotalBy(h)
      /\ seqOwner' = (IF layout = "unknown" /\ layout' = "sequential" THEN w ELSE seqOwner)
      /\ UNCHANGED <<post, segState, cursor, pending, doneVars, asmErr, alive, nzbReader, disk>>
  BY <1>1, <1>2, <1>3, <1>4 DEF OpenSegment
<1>6. AtWork(w) /\ i \in Articles /\ ~assembled  BY <1>1, <1>5, WorkLeft DEF AtWork
<1>7. start = StartOf(i) /\ start \in Nat  BY <1>1, <1>2, <1>3, <1>5, <1>6, OpensInPlace, Places
<1>8. post \in Posts /\ post.cap \in Nat /\ h \in [size : Nat, part : BOOLEAN, begin : Nat, end : Nat]
  BY <1>2, <1>6, AssemblyAssumption DEF AsmInv, AsmTyped
<1>9. end \in Nat  BY <1>4, <1>8
<1>10. PICK q : q = [worker[w] EXCEPT !.at = "decode", !.start = start, !.end = end]  OBVIOUS
<1>11. q \in WorkerRecords /\ q.at = "decode" /\ q.seg = i /\ q.start = start
  <2>1. worker[w] \in WorkerRecords  BY DEF AsmInv, AsmTyped
  <2>2. QED  BY <1>1, <1>7, <1>9, <1>10, <2>1 DEF WorkerRecords
<1>12. worker' \in [AsmWorkers -> WorkerRecords] /\ worker'[w] = q /\ \A v \in AsmWorkers : v # w => worker'[v] = worker[v]
  <2>1. worker' = [worker EXCEPT ![w] = q]  BY <1>5, <1>10
  <2>2. QED  BY <1>11, <2>1, WorkerSet DEF AsmInv
<1>13. layout' \in {"parallel", "sequential"}  BY <1>5 DEF LayoutBy, AsmInv, AsmTyped
<1>14. total' \in Nat \cup {-1}  BY <1>5, <1>8 DEF TotalBy, AsmInv, AsmTyped
<1>15. AsmTyped'
  <2>1. seqOwner' \in 0 .. NumWorkers
    <3>1. w \in 0 .. NumWorkers  BY AssemblyAssumption DEF AsmWorkers
    <3>2. QED  BY <1>5, <3>1 DEF AsmInv, AsmTyped
  <2>2. QED  BY <1>5, <1>12, <1>13, <1>14, <2>1 DEF AsmInv, AsmTyped, doneVars
<1>16. Done' = Done  BY <1>5 DEF Done
<1>17. Counted'
  <2>1. {v \in AsmWorkers : worker'[v].at # "out"} = {v \in AsmWorkers : worker[v].at # "out"}  BY <1>5, <1>11, <1>12
  <2>2. QED  BY <1>5, <2>1 DEF AsmInv, Counted, doneVars
<1>18. \A v \in AsmWorkers : (AtWork(v)' <=> AtWork(v)) /\ worker'[v].seg = worker[v].seg
  BY <1>1, <1>6, <1>11, <1>12 DEF AtWork
<1>19. Shared'
  <2>1. \A v \in AsmWorkers : AtWork(v)' => segState'[worker'[v].seg] = "inflight"  BY <1>5, <1>18 DEF AsmInv, Shared
  <2>2. \A u, v \in AsmWorkers : AtWork(u)' /\ AtWork(v)' /\ worker'[u].seg = worker'[v].seg => u = v
    BY <1>18 DEF AsmInv, Shared
  <2>3. asmErr' = "none" => \A j \in Articles : segState'[j] = "inflight" =>
          \E v \in AsmWorkers : AtWork(v)' /\ worker'[v].seg = j
    BY <1>5, <1>18 DEF AsmInv, Shared
  <2>4. QED  BY <1>5, <1>6, <2>1, <2>2, <2>3 DEF Shared, doneVars
<1>20. LayoutSound'
  <2>1. \A v \in AsmWorkers : worker'[v].at = "decode" => worker'[v].start = StartOf(worker'[v].seg)
    BY <1>7, <1>11, <1>12 DEF AsmInv, LayoutSound
  <2>2. ASSUME layout' = "parallel" PROVE SelfDescribing(post.head[1])
    <3>1. CASE layout = "unknown"
      <4>1. i = 1  BY <1>1, <1>6, <3>1 DEF AsmInv, LayoutSound
      <4>2. QED  BY <1>2, <1>5, <2>2, <3>1, <4>1 DEF LayoutBy
    <3>2. CASE layout # "unknown"  BY <1>5, <2>2, <3>2 DEF LayoutBy, AsmInv, LayoutSound
    <3>3. QED  BY <3>1, <3>2
  <2>3. post' = post /\ layout' # "unknown"  BY <1>5, <1>13
  <2>4. QED  BY <2>1, <2>2, <2>3 DEF LayoutSound, SelfDescribing
<1>21. SequenceSound'
  <2>1. SUFFICES ASSUME layout' = "sequential"
                 PROVE  /\ seqOwner' \in AsmWorkers /\ \A v \in AsmWorkers : AtWork(v)' => v = seqOwner'
                        /\ worker'[seqOwner'].at # "out" => ArticlesInOrder'
    BY DEF SequenceSound
  <2>2. cursor' = cursor /\ segState' = segState /\ seqOff' = seqOff  BY <1>5 DEF doneVars
  <2>3. CASE layout = "unknown"
    <3>1. seqOwner' = w  BY <1>5, <2>1, <2>3
    <3>2. i = 1 /\ Done = {} /\ seqOff = 0 /\ cursor = 1 /\ \A v \in AsmWorkers : AtWork(v) => worker[v].seg = 1
      BY <1>1, <1>6, <2>3 DEF AsmInv, LayoutSound
    <3>3. \A v \in AsmWorkers : AtWork(v) => v = w  BY <1>1, <1>6, <3>2 DEF AsmInv, Shared
    <3>4. \A j \in Articles : ~(j < 1)  BY ArticlesAre
    <3>5. ArticlesInOrder'
      <4>1. worker'[w].seg = 1  BY <1>11, <1>12, <3>2
      <4>2. QED  BY <1>16, <2>2, <3>1, <3>2, <3>4, <4>1, LensNone DEF ArticlesInOrder
    <3>6. QED  BY <1>18, <3>1, <3>3, <3>5
  <2>4. CASE layout # "unknown"
    <3>1. layout = "sequential" /\ seqOwner' = seqOwner  BY <1>5, <2>1, <2>4 DEF LayoutBy
    <3>2. w = seqOwner /\ ArticlesInOrder  BY <1>6, <3>1, DoneBefore
    <3>3. \A v \in AsmWorkers : AtWork(v)' => v = seqOwner  BY <1>18, <3>1 DEF AsmInv, SequenceSound
    <3>4. \A j \in Articles : j < worker'[w].seg => j \in Done  BY <1>6, <1>18, <3>2 DEF ArticlesInOrder
    <3>5. ArticlesInOrder'  BY <1>16, <2>2, <3>1, <3>2, <3>4 DEF ArticlesInOrder
    <3>6. QED  BY <3>1, <3>2, <3>3, <3>5
  <2>5. QED  BY <2>3, <2>4
<1>22. CoveredSound'
  <2>1. CoveredBytes' = CoveredBytes  BY <1>5 DEF CoveredBytes, ByteRange, doneVars
  <2>2. QED  BY <1>5, <1>6, <1>16, <2>1 DEF AsmInv, CoveredSound, doneVars
<1>23. QED  BY <1>15, <1>17, <1>19, <1>20, <1>21, <1>22 DEF AsmInv

LEMMA RefuseKeeps == ASSUME AsmInv, NEW w \in AsmWorkers, RefuseSegment(w) PROVE AsmInv'
<1>1. AtWork(w)  BY DEF RefuseSegment, AtWork
<1>2. \A b \in CoveredBytes : disk'[b] = "good"  BY DiskStays DEF RefuseSegment
<1>3. /\ WorkerGoes(w, "out") /\ alive' = alive - 1 /\ FailLocked("bad")
      /\ UNCHANGED <<post, segState, cursor, pending, layoutVars, doneVars, nzbReader>>
  BY DEF RefuseSegment, FetchFails, layoutVars
<1>4. QED  BY <1>1, <1>2, <1>3, FailKeeps

LEMMA BrokenKeeps ==
  ASSUME AsmInv, NEW w \in AsmWorkers, worker[w].at \in {"ask", "decode"}, Broken(w),
         \A b \in CoveredBytes : disk'[b] = "good"
  PROVE  AsmInv'
<1>1. AtWork(w) /\ worker[w].at # "out" /\ UNCHANGED <<post, segState, cursor, pending, layoutVars, doneVars, nzbReader>>
  BY DEF AtWork, Broken
<1>2. CASE asmErr # "none"
  <2>1. WorkerExit(w, "stopped")  BY <1>2 DEF Broken
  <2>2. "stopped" \in AsmErrors \ {"none"}  BY DEF AsmErrors
  <2>3. QED  BY <1>1, <1>2, <2>1, <2>2, ExitKeeps
<1>3. CASE asmErr = "none" /\ worker[w].again
  <2>1. WorkerGoes(w, "out") /\ alive' = alive - 1 /\ FailLocked("bad")  BY <1>3 DEF Broken
  <2>2. QED  BY <1>1, <2>1, FailKeeps
<1>4. CASE asmErr = "none" /\ ~worker[w].again
  <2>1. PICK q : q = [worker[w] EXCEPT !.at = "redial"]  OBVIOUS
  <2>2. worker' = [worker EXCEPT ![w] = q] /\ UNCHANGED <<alive, asmErr>>  BY <1>4, <2>1 DEF Broken
  <2>3. worker[w] \in WorkerRecords  BY DEF AsmInv, AsmTyped
  <2>4. q \in WorkerRecords /\ q.at = "redial" /\ q.seg = worker[w].seg  BY <2>1, <2>3 DEF WorkerRecords
  <2>5. QED  BY <1>1, <2>2, <2>4, MoveKeeps
<1>5. QED  BY <1>2, <1>3, <1>4

LEMMA AskBreaksKeeps == ASSUME AsmInv, NEW w \in AsmWorkers, AskBreaks(w) PROVE AsmInv'
<1>1. \A b \in CoveredBytes : disk'[b] = "good"  BY DiskStays DEF AskBreaks
<1>2. QED  BY <1>1, BrokenKeeps DEF AskBreaks

LEMMA DecodeBreaksKeeps == ASSUME AsmInv, NEW w \in AsmWorkers, DecodeBreaks(w) PROVE AsmInv'
<1>1. PICK n : n = Lens[worker[w].seg]  OBVIOUS
<1>2. PICK room : room = worker[w].end - worker[w].start  OBVIOUS
<1>3. PICK k \in 0 .. Smaller(n, room) : disk' = Written(worker[w].seg, worker[w].start, k, TRUE)
  BY <1>1, <1>2 DEF DecodeBreaks
<1>4. n \in Nat /\ room \in Int
  <2>1. worker[w] \in WorkerRecords  BY DEF AsmInv, AsmTyped
  <2>2. worker[w].seg \in Articles /\ worker[w].start \in Nat /\ worker[w].end \in Nat  BY <2>1 DEF WorkerRecords
  <2>3. QED  BY <1>1, <1>2, <2>2, ArticlesAre
<1>5. k \in Int /\ k <= n  BY <1>3, <1>4 DEF Smaller
<1>6. worker[w].at = "decode"  BY DEF DecodeBreaks
<1>7. \A b \in CoveredBytes : disk'[b] = "good"  BY <1>1, <1>3, <1>5, <1>6, WriteApart
<1>8. QED  BY <1>6, <1>7, BrokenKeeps DEF DecodeBreaks

LEMMA DecodeFailsKeeps == ASSUME AsmInv, NEW w \in AsmWorkers, DecodeFails(w) PROVE AsmInv'
<1>1. PICK n : n = Lens[worker[w].seg]  OBVIOUS
<1>2. PICK room : room = worker[w].end - worker[w].start  OBVIOUS
<1>3. PICK k : k = Smaller(n, room)  OBVIOUS
<1>4. PICK right : disk' = Written(worker[w].seg, worker[w].start, k, right)
  BY <1>1, <1>2, <1>3 DEF DecodeFails
<1>5. n \in Nat /\ room \in Int
  <2>1. worker[w] \in WorkerRecords  BY DEF AsmInv, AsmTyped
  <2>2. worker[w].seg \in Articles /\ worker[w].start \in Nat /\ worker[w].end \in Nat  BY <2>1 DEF WorkerRecords
  <2>3. QED  BY <1>1, <1>2, <2>2, ArticlesAre
<1>6. k \in Int /\ k <= n  BY <1>3, <1>5 DEF Smaller
<1>7. worker[w].at = "decode" /\ AtWork(w)  BY DEF DecodeFails, AtWork
<1>8. \A b \in CoveredBytes : disk'[b] = "good"  BY <1>1, <1>4, <1>6, <1>7, WriteApart
<1>9. /\ WorkerGoes(w, "out") /\ alive' = alive - 1 /\ FailLocked("bad")
      /\ UNCHANGED <<post, segState, cursor, pending, layoutVars, doneVars, nzbReader>>
  BY DEF DecodeFails, FetchFails, layoutVars
<1>10. QED  BY <1>7, <1>8, <1>9, FailKeeps

LEMMA RequeueKeeps ==
  ASSUME AsmInv, NEW w \in AsmWorkers, worker[w].at = "redial", Requeue(worker[w].seg), WorkerGoes(w, "out"),
         alive' = alive - 1, asmErr' = IF alive = 1 THEN Failed("refused") ELSE asmErr,
         UNCHANGED <<post, layoutVars, doneVars, nzbReader, disk>>
  PROVE  AsmInv'
<1>1. PICK i : i = worker[w].seg  OBVIOUS
<1>2. AtWork(w) /\ i \in Articles \ Done /\ segState[i] = "inflight"  BY <1>1, WorkLeft DEF AtWork, AsmInv, Shared
<1>3. segState' = [segState EXCEPT ![i] = "pending"] /\ pending' = pending + 1 /\ cursor' = Smaller(cursor, i)
  BY <1>1 DEF Requeue
<1>4. /\ worker' \in [AsmWorkers -> WorkerRecords] /\ worker'[w].at = "out"
      /\ \A v \in AsmWorkers : v # w => worker'[v] = worker[v]
  BY RestTyped, WorkerSet DEF AsmInv, WorkerGoes
<1>5. /\ segState' \in [Articles -> {"pending", "inflight", "done"}] /\ segState'[i] = "pending"
      /\ \A j \in Articles : j # i => segState'[j] = segState[j]
  BY <1>2, <1>3 DEF AsmInv, AsmTyped
<1>6. /\ asmErr' \in AsmErrors /\ (asmErr # "none" => asmErr' # "none") /\ (alive = 1 => assembled \/ asmErr' # "none")
  <2>1. asmErr \in AsmErrors /\ "refused" \in AsmErrors \ {"none"}  BY DEF AsmInv, AsmTyped, AsmErrors
  <2>2. QED  BY <2>1, FailIs
<1>7. AsmTyped'
  <2>1. cursor' \in Articles  BY <1>2, <1>3 DEF Smaller, AsmInv, AsmTyped
  <2>2. QED  BY <1>4, <1>5, <1>6, <2>1 DEF AsmInv, AsmTyped, layoutVars, doneVars, AsmErrors
<1>8. Done' = Done  BY <1>2, <1>5 DEF Done
<1>9. Counted'
  <2>1. PICK S : S = {j \in Articles : segState'[j] = "pending"}  OBVIOUS
  <2>2. PICK T : T = {j \in Articles : segState[j] = "pending"}  OBVIOUS
  <2>3. IsFiniteSet(S) /\ i \in S /\ T \subseteq S /\ i \notin T /\ \A j \in S : j = i \/ j \in T
    <3>1. S \in SUBSET Articles  BY <2>1
    <3>2. IsFiniteSet(S)  BY <3>1, ArticlesAre, FS_Subset
    <3>3. QED  BY <1>2, <1>5, <2>1, <2>2, <3>2
  <2>4. Cardinality(T) \in Nat /\ Cardinality(S) = Cardinality(T) + 1  BY <2>3, OneLess
  <2>5. pending' = Cardinality(S)  BY <1>3, <2>2, <2>4 DEF AsmInv, Counted
  <2>6. {j \in Articles : segState'[j] # "done"} = {j \in Articles : segState[j] # "done"}  BY <1>2, <1>5
  <2>7. PICK P : P = {v \in AsmWorkers : worker[v].at # "out"}  OBVIOUS
  <2>8. PICK Q : Q = {v \in AsmWorkers : worker'[v].at # "out"}  OBVIOUS
  <2>9. IsFiniteSet(P) /\ w \in P /\ Q \subseteq P /\ w \notin Q /\ \A v \in P : v = w \/ v \in Q
    <3>1. P \in SUBSET AsmWorkers  BY <2>7
    <3>2. IsFiniteSet(P)  BY <3>1, ArticlesAre, FS_Subset
    <3>3. QED  BY <1>4, <2>7, <2>8, <3>2
  <2>10. Cardinality(Q) \in Nat /\ Cardinality(P) = Cardinality(Q) + 1  BY <2>9, OneLess
  <2>11. alive = Cardinality(P)  BY <2>7 DEF AsmInv, Counted
  <2>12. alive' = Cardinality(Q) /\ (alive' = 0 => assembled \/ asmErr' # "none")  BY <1>6, <2>10, <2>11
  <2>13. QED  BY <2>1, <2>5, <2>6, <2>8, <2>12 DEF AsmInv, Counted, doneVars
<1>10. \A v \in AsmWorkers : AtWork(v)' => v # w /\ AtWork(v) /\ worker'[v] = worker[v]  BY <1>4 DEF AtWork
<1>11. \A v \in AsmWorkers : AtWork(v) /\ v # w => AtWork(v)' /\ worker'[v] = worker[v]  BY <1>4 DEF AtWork
<1>12. \A v \in AsmWorkers : AtWork(v) /\ v # w => worker[v].seg # i /\ worker[v].seg \in Articles
  BY <1>1, <1>2 DEF AsmInv, Shared, AsmTyped, WorkerRecords
<1>13. Shared'
  <2>1. \A v \in AsmWorkers : AtWork(v)' => segState'[worker'[v].seg] = "inflight"  BY <1>5, <1>10, <1>12 DEF AsmInv, Shared
  <2>2. \A u, v \in AsmWorkers : AtWork(u)' /\ AtWork(v)' /\ worker'[u].seg = worker'[v].seg => u = v
    BY <1>10 DEF AsmInv, Shared
  <2>3. asmErr' = "none" => \A j \in Articles : segState'[j] = "inflight" =>
          \E v \in AsmWorkers : AtWork(v)' /\ worker'[v].seg = j
    <3>1. SUFFICES ASSUME asmErr = "none", NEW j \in Articles, segState'[j] = "inflight"
                   PROVE  \E v \in AsmWorkers : AtWork(v)' /\ worker'[v].seg = j
      BY <1>6
    <3>2. j # i /\ segState[j] = "inflight"  BY <1>5, <3>1
    <3>3. PICK v \in AsmWorkers : AtWork(v) /\ worker[v].seg = j  BY <3>1, <3>2 DEF AsmInv, Shared
    <3>4. v # w  BY <1>1, <3>2, <3>3
    <3>5. QED  BY <1>11, <3>3, <3>4
  <2>4. QED  BY <1>8, <2>1, <2>2, <2>3 DEF AsmInv, Shared, doneVars
<1>14. LayoutSound'
  <2>1. \A v \in AsmWorkers : worker'[v].at = "decode" => worker[v].at = "decode" /\ worker'[v] = worker[v]  BY <1>4
  <2>2. layout = "unknown" => cursor' = 1
    <3>1. layout = "unknown" => cursor = 1 /\ i = 1  BY <1>1, <1>2 DEF AsmInv, LayoutSound
    <3>2. QED  BY <1>3, <3>1 DEF Smaller
  <2>3. QED  BY <1>8, <1>10, <2>1, <2>2 DEF AsmInv, LayoutSound, layoutVars, doneVars
<1>15. SequenceSound'
  <2>1. SUFFICES ASSUME layout = "sequential"
                 PROVE  /\ seqOwner \in AsmWorkers /\ \A v \in AsmWorkers : AtWork(v)' => v = seqOwner
                        /\ worker'[seqOwner].at # "out" => ArticlesInOrder'
    BY DEF SequenceSound, layoutVars
  <2>2. seqOwner \in AsmWorkers /\ \A v \in AsmWorkers : AtWork(v)' => v = seqOwner  BY <1>10, <2>1 DEF AsmInv, SequenceSound
  <2>3. w = seqOwner  BY <1>2, <2>1 DEF AsmInv, SequenceSound
  <2>4. QED  BY <1>4, <2>2, <2>3
<1>16. CoveredSound'
  <2>1. CoveredBytes' = CoveredBytes  BY DEF CoveredBytes, ByteRange, doneVars
  <2>2. QED  BY <1>8, <2>1 DEF AsmInv, CoveredSound, layoutVars, doneVars
<1>17. QED  BY <1>7, <1>9, <1>13, <1>14, <1>15, <1>16 DEF AsmInv

LEMMA RedialKeeps == ASSUME AsmInv, NEW w \in AsmWorkers, Redial(w) PROVE AsmInv'
<1>1. worker[w].at = "redial" /\ AtWork(w) /\ UNCHANGED <<post, layoutVars, doneVars, nzbReader, disk>>
  BY DEF Redial, AtWork
<1>2. CASE /\ worker' = [worker EXCEPT ![w] = [Resting("ask") EXCEPT !.seg = worker[w].seg, !.again = TRUE]]
           /\ UNCHANGED <<segState, pending, cursor, alive, asmErr, asleep>>
  <2>1. PICK q : q = [Resting("ask") EXCEPT !.seg = worker[w].seg, !.again = TRUE]  OBVIOUS
  <2>2. Resting("ask") \in WorkerRecords /\ Resting("ask").at = "ask" /\ worker[w].seg \in Articles
    BY RestTyped DEF AsmInv, AsmTyped, WorkerRecords
  <2>3. q \in WorkerRecords /\ q.at = "ask" /\ q.seg = worker[w].seg  BY <2>1, <2>2 DEF WorkerRecords
  <2>4. worker' = [worker EXCEPT ![w] = q]  BY <1>2, <2>1
  <2>5. \A b \in CoveredBytes : disk'[b] = "good"  BY <1>1, DiskStays
  <2>6. QED  BY <1>1, <1>2, <2>3, <2>4, <2>5, MoveKeeps
<1>3. CASE /\ Requeue(worker[w].seg) /\ WorkerGoes(w, "out") /\ alive' = alive - 1
           /\ asmErr' = (IF alive = 1 THEN Failed("refused") ELSE asmErr)
  BY <1>1, <1>3, RequeueKeeps
<1>4. QED  BY <1>2, <1>3 DEF Redial

LEMMA CompleteKeeps == ASSUME AsmInv, NEW w \in AsmWorkers, CompleteSegment(w) PROVE AsmInv'
<1>1. PICK i : i = worker[w].seg  OBVIOUS
<1>2. worker[w].at = "decode" /\ AtWork(w)  BY DEF CompleteSegment, AtWork
<1>3. i \in Articles \ Done /\ segState[i] = "inflight" /\ ~assembled  BY <1>1, <1>2, WorkLeft DEF AsmInv, Shared
<1>4. worker[w].start = StartOf(i)  BY <1>1, <1>2 DEF AsmInv, LayoutSound
<1>5. PICK s : s = StartOf(i)  OBVIOUS
<1>6. PICK t : t = StartOf(i) + Lens[i]  OBVIOUS
<1>7. s \in 0 .. FileSize /\ t \in 0 .. FileSize /\ s < t /\ FileSize \in Nat /\ Lens[i] \in Nat /\ t = s + Lens[i]
  BY <1>3, <1>5, <1>6, Places, ArticlesAre
<1>8. PICK e : e = <<s, t>>  OBVIOUS
<1>9. e \in Extents /\ e[1] = s /\ e[2] = t
  <2>1. e \in (0 .. FileSize) \X (0 .. FileSize)  BY <1>7, <1>8
  <2>2. QED  BY <1>7, <1>8, <2>1 DEF Extents
<1>10. ByteRange(e) = Own(i)
  <2>1. t - 1 = s + Lens[i] - 1  BY <1>7
  <2>2. ByteRange(e) = s .. t - 1  BY <1>9 DEF ByteRange
  <2>3. QED  BY <1>5, <2>1, <2>2 DEF Own
<1>11. PICK size : size = IF layout = "sequential" /\ remaining = 1 THEN t ELSE total  OBVIOUS
<1>12. /\ disk' = Written(i, s, Lens[i], TRUE)
       /\ segState' = [segState EXCEPT ![i] = "done"] /\ remaining' = remaining - 1
       /\ covered' = AddCovered(e) /\ total' = size
       /\ seqOff' = (IF layout = "sequential" THEN t ELSE seqOff)
       /\ assembled' = (assembled \/ (remaining = 1 /\ covered' = {<<0, size>>}))
       /\ asmErr' = (IF remaining = 1 /\ covered' # {<<0, size>>} THEN Failed("untiled") ELSE asmErr)
       /\ worker' = [worker EXCEPT ![w] = Resting("pick")]
       /\ UNCHANGED <<post, cursor, pending, layout, seqOwner, partSize, alive, nzbReader>>
  BY <1>1, <1>4, <1>5, <1>6, <1>8, <1>9, <1>11 DEF CompleteSegment, WorkerGoes
<1>13. /\ worker' \in [AsmWorkers -> WorkerRecords] /\ worker'[w].at = "pick"
       /\ \A v \in AsmWorkers : v # w => worker'[v] = worker[v]
  BY <1>12, RestTyped, WorkerSet DEF AsmInv
<1>14. /\ segState' \in [Articles -> {"pending", "inflight", "done"}] /\ segState'[i] = "done"
       /\ \A j \in Articles : j # i => segState'[j] = segState[j]
  BY <1>3, <1>12 DEF AsmInv, AsmTyped
<1>15. Done' = Done \cup {i}  BY <1>3, <1>14 DEF Done
<1>16. asmErr' \in AsmErrors /\ (asmErr # "none" => asmErr' # "none")
  <2>1. asmErr \in AsmErrors /\ "untiled" \in AsmErrors \ {"none"}  BY DEF AsmInv, AsmTyped, AsmErrors
  <2>2. QED  BY <1>12, <2>1, FailIs
<1>17. AsmTyped'
  <2>1. seqOff' \in 0 .. FileSize  BY <1>7, <1>12 DEF AsmInv, AsmTyped
  <2>2. total' \in Nat \cup {-1}  BY <1>7, <1>11, <1>12 DEF AsmInv, AsmTyped
  <2>3. assembled' \in BOOLEAN  BY <1>12
  <2>4. QED  BY <1>12, <1>13, <1>14, <1>16, <2>1, <2>2, <2>3 DEF AsmInv, AsmTyped, AsmErrors
<1>18. Counted' /\ (remaining = 1 => Done' = Articles)
  <2>1. PICK S : S = {j \in Articles : segState[j] # "done"}  OBVIOUS
  <2>2. PICK T : T = {j \in Articles : segState'[j] # "done"}  OBVIOUS
  <2>3. IsFiniteSet(S) /\ i \in S /\ T \subseteq S /\ i \notin T /\ \A j \in S : j = i \/ j \in T
    <3>1. S \in SUBSET Articles  BY <2>1
    <3>2. IsFiniteSet(S)  BY <3>1, ArticlesAre, FS_Subset
    <3>3. QED  BY <1>3, <1>14, <2>1, <2>2, <3>2
  <2>4. Cardinality(T) \in Nat /\ Cardinality(S) = Cardinality(T) + 1  BY <2>3, OneLess
  <2>5. remaining = Cardinality(S)  BY <2>1 DEF AsmInv, Counted
  <2>6. remaining' = Cardinality(T)  BY <1>12, <2>4, <2>5
  <2>7. {j \in Articles : segState'[j] = "pending"} = {j \in Articles : segState[j] = "pending"}  BY <1>3, <1>14
  <2>8. {v \in AsmWorkers : worker'[v].at # "out"} = {v \in AsmWorkers : worker[v].at # "out"}  BY <1>2, <1>13
  <2>9. alive = 0 => assembled \/ asmErr # "none"  BY DEF AsmInv, Counted
  <2>10. Counted'  BY <1>12, <1>16, <2>2, <2>6, <2>7, <2>8, <2>9 DEF AsmInv, Counted
  <2>11. ASSUME remaining = 1 PROVE Done' = Articles
    <3>1. Cardinality(T) = 0  BY <2>4, <2>5, <2>11
    <3>2. IsFiniteSet(T)  BY <2>3, FS_Subset
    <3>3. T = {}  BY <3>1, <3>2, FS_EmptySet
    <3>4. QED  BY <2>2, <3>3 DEF Done
  <2>12. QED  BY <2>10, <2>11
<1>19. \A v \in AsmWorkers : AtWork(v)' <=> v # w /\ AtWork(v)  BY <1>13 DEF AtWork
<1>20. \A v \in AsmWorkers : AtWork(v) /\ v # w => worker'[v] = worker[v] /\ worker[v].seg # i /\ worker[v].seg \in Articles
  BY <1>1, <1>2, <1>13 DEF AsmInv, Shared, AsmTyped, WorkerRecords
<1>21. Shared'
  <2>1. \A v \in AsmWorkers : AtWork(v)' => segState'[worker'[v].seg] = "inflight"  BY <1>14, <1>19, <1>20 DEF AsmInv, Shared
  <2>2. \A u, v \in AsmWorkers : AtWork(u)' /\ AtWork(v)' /\ worker'[u].seg = worker'[v].seg => u = v
    BY <1>19, <1>20 DEF AsmInv, Shared
  <2>3. asmErr' = "none" => \A j \in Articles : segState'[j] = "inflight" =>
          \E v \in AsmWorkers : AtWork(v)' /\ worker'[v].seg = j
    <3>1. SUFFICES ASSUME asmErr = "none", NEW j \in Articles, segState'[j] = "inflight"
                   PROVE  \E v \in AsmWorkers : AtWork(v)' /\ worker'[v].seg = j
      BY <1>16
    <3>2. j # i /\ segState[j] = "inflight"  BY <1>14, <3>1
    <3>3. PICK v \in AsmWorkers : AtWork(v) /\ worker[v].seg = j  BY <3>1, <3>2 DEF AsmInv, Shared
    <3>4. v # w  BY <1>1, <3>2, <3>3
    <3>5. QED  BY <1>19, <1>20, <3>3, <3>4
  <2>4. assembled' => Done' = Articles  BY <1>3, <1>12, <1>18
  <2>5. QED  BY <2>1, <2>2, <2>3, <2>4 DEF Shared
<1>22. layout # "unknown"  BY <1>2 DEF AsmInv, LayoutSound
<1>23. LayoutSound'
  <2>1. \A v \in AsmWorkers : worker'[v].at = "decode" => worker[v].at = "decode" /\ worker'[v] = worker[v]  BY <1>13
  <2>2. QED  BY <1>12, <1>22, <2>1 DEF AsmInv, LayoutSound
<1>24. SequenceSound'
  <2>1. SUFFICES ASSUME layout = "sequential"
                 PROVE  /\ seqOwner \in AsmWorkers /\ \A v \in AsmWorkers : AtWork(v)' => v = seqOwner
                        /\ worker'[seqOwner].at # "out" => ArticlesInOrder'
    BY <1>12 DEF SequenceSound
  <2>2. seqOwner \in AsmWorkers /\ \A v \in AsmWorkers : AtWork(v)' => v = seqOwner  BY <1>19, <2>1 DEF AsmInv, SequenceSound
  <2>3. w = seqOwner /\ ArticlesInOrder /\ Done = 1 .. i - 1  BY <1>1, <1>2, <2>1, DoneBefore
  <2>4. i \in Nat /\ i >= 1 /\ \A j \in Articles : j \in Nat  BY <1>3, ArticlesAre
  <2>5. Done' = 1 .. i  BY <1>15, <2>3, <2>4
  <2>6. seqOff' = LensOf(1 .. i)  BY <1>3, <1>6, <1>12, <2>1, Places
  <2>7. \A j \in Articles : j < cursor => segState'[j] # "pending"  BY <1>14, <2>3 DEF ArticlesInOrder
  <2>8. \A k \in 1 .. i, j \in Articles : j < k => j \in 1 .. i  BY <2>4, ArticlesAre
  <2>9. ~AtWork(w)'  BY <1>13 DEF AtWork
  <2>10. ArticlesInOrder'  BY <1>12, <2>3, <2>5, <2>6, <2>7, <2>8, <2>9 DEF ArticlesInOrder, AtWork
  <2>11. QED  BY <2>2, <2>10
<1>25. CoveredSound'
  <2>1. CoveredSound  BY DEF AsmInv
  <2>2. /\ AddCovered(e) \subseteq Extents
        /\ \A x, y \in AddCovered(e) : x # y => y[2] < x[1] \/ x[2] < y[1]
        /\ UNION {ByteRange(x) : x \in AddCovered(e)} = CoveredBytes \cup ByteRange(e)
    BY <1>9, <2>1, MergeApart DEF CoveredSound
  <2>3. CoveredBytes' = CoveredBytes \cup Own(i)  BY <1>10, <1>12, <2>2 DEF CoveredBytes, ByteRange
  <2>4. CoveredBytes' = UNION {Own(j) : j \in Done'}
    <3>1. CoveredBytes = UNION {Own(j) : j \in Done}  BY <2>1 DEF CoveredSound
    <3>2. QED  BY <1>15, <2>3, <3>1
  <2>5. ASSUME NEW b \in CoveredBytes' PROVE disk'[b] = "good"
    <3>1. CASE b \in Own(i)
      <4>1. b \in PostBytes /\ b \in s .. s + Lens[i] - 1
        <5>1. Own(i) \subseteq 0 .. FileSize - 1  BY <1>3, OwnBytes
        <5>2. QED  BY <1>5, <1>7, <3>1, <5>1 DEF PostBytes, Own
      <4>2. QED  BY <1>5, <1>12, <4>1 DEF Written
    <3>2. CASE b \in CoveredBytes
      <4>1. disk' = Written(worker[w].seg, worker[w].start, Lens[i], TRUE) /\ Lens[i] \in Int /\ Lens[i] <= Lens[worker[w].seg]
        BY <1>1, <1>4, <1>5, <1>7, <1>12
      <4>2. QED  BY <1>2, <3>2, <4>1, WriteApart
    <3>3. QED  BY <2>3, <2>5, <3>1, <3>2
  <2>6. ASSUME assembled' PROVE total' = FileSize /\ CoveredBytes' = 0 .. FileSize - 1
    <3>1. remaining = 1 /\ covered' = {<<0, size>>}  BY <1>3, <1>12, <2>6
    <3>2. Done' = Articles  BY <1>18, <3>1
    <3>3. CoveredBytes' = 0 .. size - 1
      <4>1. PICK x : x = <<0, size>>  OBVIOUS
      <4>2. x[1] = 0 /\ x[2] = size /\ covered' = {x}  BY <3>1, <4>1
      <4>3. CoveredBytes' = ByteRange(x)  BY <4>2 DEF CoveredBytes, ByteRange
      <4>4. QED  BY <4>2, <4>3 DEF ByteRange
    <3>4. PICK j \in Articles : FileSize - 1 \in Own(j)  BY LastByte
    <3>5. FileSize - 1 \in 0 .. size - 1  BY <2>4, <3>2, <3>3, <3>4
    <3>6. 0 .. size - 1 \subseteq 0 .. FileSize - 1  BY <2>4, <3>2, <3>3, OwnBytes
    <3>7. size \in Int  BY <1>12, <1>17 DEF AsmTyped
    <3>8. size = FileSize
      <4>1. size >= FileSize  BY <1>7, <3>5, <3>7
      <4>2. size - 1 \in 0 .. size - 1  BY <1>7, <3>7, <4>1, LastByte
      <4>3. size - 1 \in 0 .. FileSize - 1  BY <3>6, <4>2
      <4>4. QED  BY <1>7, <3>7, <4>1, <4>3
    <3>9. QED  BY <1>12, <3>3, <3>8
  <2>7. QED  BY <1>12, <2>2, <2>4, <2>5, <2>6 DEF CoveredSound
<1>26. QED  BY <1>17, <1>18, <1>21, <1>23, <1>24, <1>25 DEF AsmInv

-----------------------------------------------------------------------------
(* Readers, and the assembly as a whole *)

LEMMA ReaderKeeps ==
  ASSUME AsmInv, NEW r \in AsmReaders, NEW a \in {"idle", "size", "run", "end"}, NEW o \in Nat,
         nzbReader' = [nzbReader EXCEPT ![r] = [at |-> a, off |-> o]],
         UNCHANGED <<post, segState, cursor, pending, layoutVars, doneVars, asmErr, alive, worker, disk>>
  PROVE  AsmInv'
<1>1. nzbReader' \in [AsmReaders -> [at : {"idle", "size", "run", "end"}, off : Nat]]  BY DEF AsmInv, AsmTyped
<1>2. asmErr' \in AsmErrors /\ cursor' \in Articles  BY DEF AsmInv, AsmTyped, AsmErrors
<1>3. QED  BY <1>1, <1>2, QuietKeeps

LEMMA GoesKeeps ==
  ASSUME AsmInv, NEW r \in AsmReaders, NEW l \in {"run", "end"}, ReaderGoes(r, l),
         UNCHANGED <<post, segState, cursor, pending, layoutVars, doneVars, asmErr, alive, worker, disk>>
  PROVE  AsmInv'
<1>1. nzbReader[r].off \in Nat  BY DEF AsmInv, AsmTyped
<1>2. PICK o : o = IF l = "run" THEN nzbReader[r].off ELSE 0  OBVIOUS
<1>3. o \in Nat  BY <1>1, <1>2
<1>4. nzbReader' = [nzbReader EXCEPT ![r] = [at |-> l, off |-> o]]  BY <1>2 DEF ReaderGoes
<1>5. QED  BY <1>3, <1>4, ReaderKeeps

LEMMA SleepKeeps ==
  ASSUME AsmInv, UNCHANGED <<post, segState, pending, layoutVars, doneVars, asmErr, alive, worker, nzbReader, disk>>,
         cursor' \in Articles, cursor' = cursor \/ layout = "parallel"
  PROVE  AsmInv'
<1>1. /\ nzbReader' \in [AsmReaders -> [at : {"idle", "size", "run", "end"}, off : Nat]]
      /\ asmErr' \in AsmErrors
  BY DEF AsmInv, AsmTyped, AsmErrors
<1>2. QED  BY <1>1, QuietKeeps

LEMMA ReadFromKeeps == ASSUME AsmInv, NEW r \in AsmReaders, ReadFrom(r) PROVE AsmInv'
<1>1. PICK b \in 0 .. FileSize : nzbReader' = [nzbReader EXCEPT ![r] = [at |-> "size", off |-> b]]  BY DEF ReadFrom
<1>2. b \in Nat  BY <1>1, LastByte
<1>3. QED  BY <1>1, <1>2, ReaderKeeps DEF ReadFrom

LEMMA AwaitSizeKeeps == ASSUME AsmInv, NEW r \in AsmReaders, AwaitSize(r) PROVE AsmInv'
<1>1. UNCHANGED <<post, segState, cursor, pending, layoutVars, doneVars, asmErr, alive, worker, disk>>  BY DEF AwaitSize
<1>2. CASE ReaderGoes(r, "run")  BY <1>1, <1>2, GoesKeeps
<1>3. CASE ReaderGoes(r, "end")  BY <1>1, <1>3, GoesKeeps
<1>4. CASE UNCHANGED nzbReader  BY <1>1, <1>4, SleepKeeps DEF AsmInv, AsmTyped
<1>5. QED  BY <1>2, <1>3, <1>4 DEF AwaitSize

LEMMA AwaitRunKeeps == ASSUME AsmInv, NEW r \in AsmReaders, AwaitRun(r) PROVE AsmInv'
<1>1. UNCHANGED <<post, segState, pending, layoutVars, doneVars, asmErr, alive, worker, disk>>  BY DEF AwaitRun
<1>2. CASE ReaderGoes(r, "end") /\ UNCHANGED cursor  BY <1>1, <1>2, GoesKeeps
<1>3. CASE cursor' = Hinted(nzbReader[r].off) /\ UNCHANGED nzbReader
  <2>1. PICK i : i = Smaller((nzbReader[r].off \div partSize) + 1, Len(Lens))  OBVIOUS
  <2>2. PICK F : F = PendingFrom(i)  OBVIOUS
  <2>3. F \subseteq Articles /\ F \in SUBSET Nat  BY <2>2, ArticlesAre DEF PendingFrom
  <2>4. cursor' = cursor \/ (layout = "parallel" /\ F # {} /\ cursor' = First(F))  BY <1>3, <2>1, <2>2 DEF Hinted
  <2>5. F # {} => First(F) \in Articles  BY <2>3, FirstIs
  <2>6. cursor' \in Articles /\ (cursor' = cursor \/ layout = "parallel")  BY <2>4, <2>5 DEF AsmInv, AsmTyped
  <2>7. QED  BY <1>1, <1>3, <2>6, SleepKeeps
<1>4. QED  BY <1>2, <1>3 DEF AwaitRun

LEMMA CancelKeeps == ASSUME AsmInv, CancelAssembly PROVE AsmInv'
<1>1. asmErr \in AsmErrors /\ "cancelled" \in AsmErrors \ {"none"}  BY DEF AsmInv, AsmTyped, AsmErrors
<1>2. asmErr' = Failed("cancelled")  BY DEF CancelAssembly, FailLocked
<1>3. asmErr' \in AsmErrors /\ (asmErr # "none" => asmErr' # "none")  BY <1>1, <1>2, FailIs
<1>4. /\ UNCHANGED <<post, segState, pending, layoutVars, doneVars, alive, worker, disk>>
      /\ nzbReader' = nzbReader /\ cursor' = cursor
  BY DEF CancelAssembly
<1>5. nzbReader' \in [AsmReaders -> [at : {"idle", "size", "run", "end"}, off : Nat]] /\ cursor' \in Articles
  BY <1>4 DEF AsmInv, AsmTyped
<1>6. QED  BY <1>3, <1>4, <1>5, QuietKeeps

LEMMA AsmStarts == AsmInit => AsmInv
<1> SUFFICES ASSUME AsmInit PROVE AsmInv  OBVIOUS
<1>1. Resting("dial") \in WorkerRecords /\ Resting("dial").at = "dial"  BY RestTyped
<1>2. \A w \in AsmWorkers : worker[w].at = "dial" /\ ~AtWork(w)  BY <1>1 DEF AsmInit, AtWork
<1>3. \A i \in Articles : segState[i] = "pending"  BY DEF AsmInit
<1>4. AsmTyped
  <2>1. 0 \in 0 .. FileSize /\ 0 \in 0 .. NumWorkers /\ 1 \in Articles  BY LastByte, ArticlesAre, AssemblyAssumption
  <2>2. QED  BY <1>1, <2>1 DEF AsmInit, AsmTyped
<1>5. Done = {}  BY <1>3 DEF Done
<1>6. Counted
  <2>1. Articles = 1 .. Len(Lens) /\ Len(Lens) \in Nat \ {0} /\ NumWorkers \in Nat \ {0}  BY ArticlesAre, AssemblyAssumption
  <2>2. ASSUME NEW n \in Nat \ {0} PROVE Cardinality(1 .. n) = n  BY UpToCounted
  <2>3. {i \in Articles : segState[i] = "pending"} = 1 .. Len(Lens)  BY <1>3, <2>1
  <2>4. {i \in Articles : segState[i] # "done"} = 1 .. Len(Lens)  BY <1>3, <2>1
  <2>5. {w \in AsmWorkers : worker[w].at # "out"} = 1 .. NumWorkers  BY <1>2 DEF AsmWorkers
  <2>6. pending = Len(Lens) /\ remaining = Len(Lens) /\ alive = NumWorkers  BY DEF AsmInit
  <2>7. QED  BY <2>1, <2>2, <2>3, <2>4, <2>5, <2>6 DEF Counted
<1>7. Shared  BY <1>2, <1>3 DEF AsmInit, Shared
<1>8. LayoutSound  BY <1>2, <1>5 DEF AsmInit, LayoutSound
<1>9. SequenceSound  BY DEF AsmInit, SequenceSound
<1>10. CoveredSound
  <2>1. covered = {} /\ assembled = FALSE  BY DEF AsmInit
  <2>2. CoveredBytes = {}  BY <2>1 DEF CoveredBytes
  <2>3. QED  BY <1>5, <2>1, <2>2 DEF CoveredSound
<1>11. QED  BY <1>4, <1>6, <1>7, <1>8, <1>9, <1>10 DEF AsmInv

LEMMA AsmSteps == AsmInv /\ [AsmNext]_asmVars => AsmInv'
<1> SUFFICES ASSUME AsmInv, [AsmNext]_asmVars PROVE AsmInv'  OBVIOUS
<1>1. CASE UNCHANGED asmVars
  <2>1. UNCHANGED <<post, segState, pending, layoutVars, doneVars, asmErr, alive, worker, nzbReader, disk>> /\ cursor' = cursor
    BY <1>1 DEF asmVars, layoutVars, doneVars
  <2>2. cursor' \in Articles  BY <2>1 DEF AsmInv, AsmTyped
  <2>3. QED  BY <2>1, <2>2, SleepKeeps
<1>2. ASSUME NEW w \in AsmWorkers, WorkerRuns(w) PROVE AsmInv'
  BY <1>2, DialKeeps, NextSegmentKeeps, OpenKeeps, RefuseKeeps, AskBreaksKeeps, RedialKeeps, DecodeBreaksKeeps,
     DecodeFailsKeeps, CompleteKeeps DEF WorkerRuns
<1>3. ASSUME NEW r \in AsmReaders, ReadFrom(r) \/ AwaitSize(r) \/ AwaitRun(r) PROVE AsmInv'
  BY <1>3, ReadFromKeeps, AwaitSizeKeeps, AwaitRunKeeps
<1>4. ASSUME NEW r \in AsmReaders, ReaderLeaves(r) PROVE AsmInv'
  BY <1>4, GoesKeeps DEF ReaderLeaves
<1>5. CASE CancelAssembly  BY <1>5, CancelKeeps
<1>6. QED  BY <1>1, <1>2, <1>3, <1>4, <1>5 DEF AsmNext

\* The invariant of a Usenet file's assembly: who fetches which segment, that what is
\* decoded is decoded to its own place in either layout, and that what is covered are the
\* bytes of the articles that are done (Assembly, openSegment, completeSegment).
THEOREM AsmInvariant == AsmSpec => []AsmInv
<1>1. AsmInit => AsmInv  BY AsmStarts
<1>2. AsmInv /\ [AsmNext]_asmVars => AsmInv'  BY AsmSteps
<1>3. QED  BY <1>1, <1>2, PTL DEF AsmSpec

LEMMA AsmInvGives == AsmInv => AssemblyExact
<1> SUFFICES ASSUME AsmInv PROVE AssemblyExact  OBVIOUS
<1>1. ASSUME asmErr = "none", NEW i \in Articles, segState[i] = "inflight"
      PROVE  Cardinality({w \in AsmWorkers : worker[w].at \in {"ask", "decode", "redial"} /\ worker[w].seg = i}) = 1
  <2>1. PICK v \in AsmWorkers : AtWork(v) /\ worker[v].seg = i  BY <1>1 DEF AsmInv, Shared
  <2>2. PICK S : S = {w \in AsmWorkers : worker[w].at \in {"ask", "decode", "redial"} /\ worker[w].seg = i}  OBVIOUS
  <2>3. S = {v}  BY <2>1, <2>2 DEF AsmInv, Shared, AtWork
  <2>4. Cardinality(S) = 1  BY <2>3, FS_Singleton
  <2>5. QED  BY <2>2, <2>4
<1>2. AsmTypeOK
  <2>1. seqOff \in PostBytes  BY LastByte DEF AsmInv, AsmTyped, PostBytes
  <2>2. \A w \in AsmWorkers : worker[w].at \in {"dial", "pick", "ask", "decode", "redial", "out"}
    BY DEF AsmInv, AsmTyped, WorkerRecords
  <2>3. QED  BY <2>1, <2>2 DEF AsmInv, AsmTyped, AsmTypeOK
<1>3. CoveredIsRight  BY DEF AsmInv, CoveredSound, CoveredIsRight
<1>4. \A e, c \in covered : e # c => c[2] < e[1] \/ e[2] < c[1]  BY DEF AsmInv, CoveredSound
<1>5. QED  BY <1>1, <1>2, <1>3, <1>4 DEF AsmInv, Counted, AssemblyExact

\* Every byte a reader is given is the file's own at that place, a complete file is whole,
\* no segment is lost or fetched twice, and the assembly never stops without an error or a
\* complete file; for any articles, workers, readers and posts whose ranges begin where
\* the articles do (Assembly).
THEOREM AssemblyStaysExact == AsmSpec => []AssemblyExact
BY AsmInvariant, AsmInvGives, PTL

=============================================================================
