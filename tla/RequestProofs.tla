--------------------------- MODULE RequestProofs ---------------------------
(***************************************************************************)
(* Proofs about what serves requests: the extractor definitions only go    *)
(* forward (ExtractorDefs), no ffprobe starts for a URL whose result is in *)
(* the cache and the probes stay within their slots (ProbeGuard), and a    *)
(* torrent stream sends what its Range header names and is not cut without *)
(* cause (StreamHandler), the segment files of an HLS session are whole,   *)
(* on time and counted (HLSSegments), and the stream proxy keeps within    *)
(* its two memory budgets (SegProxy). For any number of requests, any      *)
(* bounds, any length of the file and any period of the timestamps.        *)
(***************************************************************************)
EXTENDS ProbeGuard, ExtractorDefs, StreamHandler, HLSSegments, SegProxy, FiniteSetTheorems,
        NaturalsInduction, WellFoundedInduction, TLAPS

-----------------------------------------------------------------------------
(* The definitions of the extractors (ExtractorDefs) *)

\* Requests see what the registry has.
SnapIs == snap = [local |-> local, remote |-> remote]

\* While the cache is loaded nothing is published and nothing under way.
NotYet == boot = "cache" => fetch = Idle /\ loader = "idle" /\ remote = 0

\* No document is newer than the server's, and the one being fetched is not older than the
\* one published.
VersionsOrdered ==
  /\ remote <= server.doc /\ diskCache.doc <= server.doc /\ fetch.doc <= server.doc
  /\ fetch.at # "idle" => remote <= fetch.doc

DInv == DefTypeOK /\ SnapIs /\ NotYet /\ VersionsOrdered

\* One step of DefsForward.
ForwardStep ==
  /\ DefTypeOK'
  /\ defRestarts' = defRestarts =>
       /\ snap'.remote >= snap.remote
       /\ snap'.local # snap.local => snap'.local = file.ver

-----------------------------------------------------------------------------
\* What the types of the records are about.
LEMMA DefRanges ==
  ASSUME DInv
  PROVE  /\ {MaxEdits, MaxReleases, MaxDefRestarts} \subseteq Nat
         /\ server = [doc |-> server.doc, sig |-> server.sig]
         /\ server.doc \in 0 .. MaxReleases /\ server.sig \in 0 .. MaxReleases
         /\ diskCache = [doc |-> diskCache.doc, sig |-> diskCache.sig]
         /\ diskCache.doc \in 0 .. MaxReleases /\ diskCache.sig \in 0 .. MaxReleases
         /\ fetch = [at |-> fetch.at, doc |-> fetch.doc, sig |-> fetch.sig]
         /\ fetch.doc \in 0 .. MaxReleases /\ fetch.sig \in 0 .. MaxReleases
         /\ file.ver \in -1 .. MaxEdits /\ file.mod \in 0 .. MaxEdits
         /\ snap.local = local /\ snap.remote = remote
         /\ local \in 0 .. MaxEdits /\ localMod \in 0 .. MaxEdits /\ remote \in 0 .. MaxReleases
         /\ edits \in 0 .. MaxEdits /\ defRestarts \in 0 .. MaxDefRestarts
BY DefsAssumption DEF DInv, DefTypeOK, SnapIs

\* What the outside does leaves alone what requests see.
LEMMA OutsideKeeps ==
  ASSUME DInv, EditFile \/ UploadDoc \/ UploadSig
  PROVE  DInv' /\ ForwardStep
<1>1. CASE EditFile
  <2>1. UNCHANGED <<server, diskCache, local, localMod, remote, snap, boot, loader, fetch, defRestarts>>
    BY <1>1 DEF EditFile, regVars
  <2>2. lost' \in BOOLEAN  BY <1>1 DEF EditFile
  <2>3. edits' \in 0 .. MaxEdits  BY <1>1, DefRanges DEF EditFile
  <2>4. file' \in [ver : -1 .. MaxEdits, mod : 0 .. MaxEdits]  BY <1>1, DefRanges DEF EditFile
  <2>5. DefTypeOK'  BY <2>1, <2>2, <2>3, <2>4 DEF DInv, DefTypeOK
  <2>6. SnapIs' /\ NotYet' /\ VersionsOrdered'
    BY <2>1 DEF DInv, SnapIs, NotYet, VersionsOrdered
  <2>7. QED  BY <2>1, <2>5, <2>6, DefRanges DEF DInv, ForwardStep
<1>2. CASE UploadDoc \/ UploadSig
  <2>1. UNCHANGED <<file, diskCache, edits, local, localMod, remote, snap, boot, loader, fetch, lost, defRestarts>>
    BY <1>2 DEF UploadDoc, UploadSig, regVars
  <2>2. /\ server' \in [doc : 0 .. MaxReleases, sig : 0 .. MaxReleases]
        /\ server'.doc >= server.doc
    BY <1>2, DefRanges DEF UploadDoc, UploadSig
  <2>3. server'.doc \in Nat  BY <2>2, DefsAssumption
  <2>4. DefTypeOK'  BY <2>1, <2>2 DEF DInv, DefTypeOK
  <2>5. SnapIs' /\ NotYet'  BY <2>1 DEF DInv, SnapIs, NotYet
  <2>6. VersionsOrdered'  BY <2>1, <2>2, <2>3, DefRanges DEF DInv, VersionsOrdered
  <2>7. QED  BY <2>1, <2>4, <2>5, <2>6, DefRanges DEF DInv, ForwardStep
<1>3. QED  BY <1>1, <1>2

\* A restart forgets what was published; the documents on disk stay in order.
LEMMA RestartKeeps ==
  ASSUME DInv, DefRestart
  PROVE  DInv' /\ ForwardStep
<1>1. /\ UNCHANGED <<file, server, diskCache, edits>> /\ boot' = "cache" /\ local' = 0 /\ localMod' = 0
      /\ remote' = 0 /\ snap' = [local |-> 0, remote |-> 0] /\ loader' = "idle" /\ fetch' = Idle /\ lost' = FALSE
      /\ defRestarts' = defRestarts + 1 /\ defRestarts < MaxDefRestarts
  BY DEF DefRestart, diskVars
<1>2. DefTypeOK'
  <2>1. fetch' \in [at : {"idle", "sig", "publish", "doc", "sign"}, doc : 0 .. MaxReleases, sig : 0 .. MaxReleases]
    BY <1>1, DefsAssumption DEF Idle
  <2>2. lost' \in BOOLEAN  BY <1>1
  <2>3. /\ defRestarts' \in 0 .. MaxDefRestarts
        /\ {local', localMod', snap'.local} \subseteq 0 .. MaxEdits /\ {remote', snap'.remote} \subseteq 0 .. MaxReleases
    BY <1>1, DefRanges
  <2>4. QED  BY <1>1, <2>1, <2>2, <2>3 DEF DInv, DefTypeOK
<1>3. SnapIs' /\ NotYet'  BY <1>1 DEF SnapIs, NotYet
<1>4. VersionsOrdered'  BY <1>1, DefRanges DEF DInv, VersionsOrdered, Idle
<1>5. defRestarts' # defRestarts  BY <1>1, DefRanges
<1>6. QED  BY <1>2, <1>3, <1>4, <1>5 DEF DInv, ForwardStep

\* The cache is loaded before anything else is published.
LEMMA LoadKeeps ==
  ASSUME DInv, LoadRemoteCache
  PROVE  DInv' /\ ForwardStep
<1>1. /\ UNCHANGED <<file, server, diskCache, edits, localMod, loader, fetch, lost, defRestarts>>
      /\ boot = "cache" /\ boot' = "local" /\ local' = local
      /\ remote' \in {remote, diskCache.doc} /\ snap' = [local |-> local', remote |-> remote']
  BY DEF LoadRemoteCache, Publish, diskVars, DInv, SnapIs
<1>2. fetch.at = "idle" /\ remote = 0  BY <1>1 DEF DInv, NotYet, Idle
<1>3. DefTypeOK'  BY <1>1, DefRanges DEF DInv, DefTypeOK
<1>4. SnapIs' /\ NotYet'  BY <1>1 DEF SnapIs, NotYet
<1>5. VersionsOrdered'  BY <1>1, <1>2, DefRanges DEF DInv, VersionsOrdered
<1>6. snap'.remote >= snap.remote /\ snap'.local = snap.local  BY <1>1, <1>2, DefRanges
<1>7. QED  BY <1>3, <1>4, <1>5, <1>6 DEF DInv, ForwardStep

\* The local set changes to what is in the file, and nothing else does.
LEMMA LocalKeeps ==
  ASSUME DInv, StatLocal \/ ReadLocal \/ ReadLocalFails
  PROVE  DInv' /\ ForwardStep
<1>1. /\ UNCHANGED <<file, server, diskCache, edits, fetch, defRestarts>>
      /\ boot' \in {boot, "up"} /\ loader' \in {"idle", "read"} /\ lost' \in BOOLEAN
  BY DEF StatLocal, ReadLocal, ReadLocalFails, diskVars, DInv, DefTypeOK
<1>2. /\ \/ local' = local
         \/ local' = file.ver /\ file.ver >= 0
      /\ localMod' \in {localMod, 0, file.mod} /\ remote' = remote
      /\ snap' = [local |-> local', remote |-> remote']
  <2>1. snap = [local |-> local, remote |-> remote]  BY DEF DInv, SnapIs
  <2>2. CASE StatLocal  BY <2>1, <2>2 DEF StatLocal, Publish, regVars
  <2>3. CASE ReadLocal  BY <2>3, DefRanges DEF ReadLocal, Publish, Parsed
  <2>4. CASE ReadLocalFails  BY <2>1, <2>4 DEF ReadLocalFails, regVars
  <2>5. QED  BY <2>2, <2>3, <2>4
<1>3. boot # "cache"
  BY DEF StatLocal, ReadLocal, ReadLocalFails, DInv, NotYet
<1>4. DefTypeOK'  BY <1>1, <1>2, DefRanges DEF DInv, DefTypeOK
<1>5. SnapIs' /\ NotYet'  BY <1>1, <1>2, <1>3 DEF SnapIs, NotYet
<1>6. VersionsOrdered'  BY <1>1, <1>2 DEF DInv, VersionsOrdered
<1>7. snap'.remote >= snap.remote /\ (snap'.local # snap.local => snap'.local = file.ver)
  BY <1>2, DefRanges
<1>8. QED  BY <1>4, <1>5, <1>6, <1>7 DEF DInv, ForwardStep

\* A fetch takes the server's document, which is not older than any known.
LEMMA FetchKeeps ==
  ASSUME DInv, GetDoc \/ GetSig \/ GetFails
  PROVE  DInv' /\ ForwardStep
<1>1. UNCHANGED <<file, server, diskCache, edits, local, localMod, remote, snap, boot, loader, lost, defRestarts>>
  BY DEF GetDoc, GetSig, GetFails, diskVars, regVars
<1>2. \/ fetch' = fetch \/ fetch' = Idle
      \/ fetch' = [at |-> "sig", doc |-> server.doc, sig |-> 0]
      \/ fetch.at = "sig" /\ fetch' = [at |-> "publish", doc |-> fetch.doc, sig |-> server.sig]
  BY DefRanges DEF GetDoc, GetSig, GetFails
<1>3. boot # "cache"  BY DEF GetDoc, GetSig, GetFails, DInv, NotYet, Idle
<1>4. DefTypeOK'
  <2>1. fetch' \in [at : {"idle", "sig", "publish", "doc", "sign"}, doc : 0 .. MaxReleases, sig : 0 .. MaxReleases]
    BY <1>2, DefRanges DEF DInv, DefTypeOK, Idle
  <2>2. QED  BY <1>1, <2>1 DEF DInv, DefTypeOK
<1>5. SnapIs' /\ NotYet'  BY <1>1, <1>3 DEF DInv, SnapIs, NotYet
<1>6. VersionsOrdered'  BY <1>1, <1>2, DefRanges DEF DInv, VersionsOrdered, Idle
<1>7. QED  BY <1>1, <1>4, <1>5, <1>6, DefRanges DEF DInv, ForwardStep

\* What is published is the document fetched.
LEMMA PublishKeeps ==
  ASSUME DInv, PublishRemote
  PROVE  DInv' /\ ForwardStep
<1>1. /\ UNCHANGED <<file, server, diskCache, edits, localMod, boot, loader, lost, defRestarts>>
      /\ fetch.at = "publish" /\ local' = local /\ remote' = fetch.doc
      /\ snap' = [local |-> local, remote |-> fetch.doc]
      /\ fetch' = [at |-> "doc", doc |-> fetch.doc, sig |-> fetch.sig]
  BY DefRanges DEF PublishRemote, Publish, diskVars
<1>2. boot # "cache" /\ remote <= fetch.doc
  BY <1>1 DEF DInv, NotYet, Idle, VersionsOrdered
<1>3. DefTypeOK'
  <2>1. fetch' \in [at : {"idle", "sig", "publish", "doc", "sign"}, doc : 0 .. MaxReleases, sig : 0 .. MaxReleases]
    BY <1>1, DefRanges
  <2>2. QED  BY <1>1, <2>1, DefRanges DEF DInv, DefTypeOK
<1>4. SnapIs' /\ NotYet'  BY <1>1, <1>2 DEF SnapIs, NotYet
<1>5. VersionsOrdered'  BY <1>1, DefRanges DEF DInv, VersionsOrdered
<1>6. snap'.remote >= snap.remote /\ snap'.local = snap.local  BY <1>1, <1>2, DefRanges
<1>7. QED  BY <1>3, <1>4, <1>5, <1>6 DEF DInv, ForwardStep

\* What is cached is the document fetched.
LEMMA CacheKeeps ==
  ASSUME DInv, CacheDoc \/ CacheSig
  PROVE  DInv' /\ ForwardStep
<1>1. /\ UNCHANGED <<file, server, edits, local, localMod, remote, snap, boot, loader, lost, defRestarts>>
      /\ fetch.at # "idle"
  BY DEF CacheDoc, CacheSig, regVars
<1>2. /\ diskCache' \in [doc : 0 .. MaxReleases, sig : 0 .. MaxReleases]
      /\ diskCache'.doc <= server.doc
  BY DefRanges DEF CacheDoc, CacheSig, DInv, VersionsOrdered
<1>3. fetch' = Idle \/ fetch' = [at |-> "sign", doc |-> fetch.doc, sig |-> fetch.sig]
  BY DefRanges DEF CacheDoc, CacheSig
<1>4. boot # "cache"  BY <1>1 DEF DInv, NotYet, Idle
<1>5. DefTypeOK'
  <2>1. fetch' \in [at : {"idle", "sig", "publish", "doc", "sign"}, doc : 0 .. MaxReleases, sig : 0 .. MaxReleases]
    BY <1>3, DefRanges DEF Idle
  <2>2. QED  BY <1>1, <1>2, <2>1 DEF DInv, DefTypeOK
<1>6. SnapIs' /\ NotYet'  BY <1>1, <1>4 DEF DInv, SnapIs, NotYet
<1>7. VersionsOrdered'  BY <1>1, <1>2, <1>3, DefRanges DEF DInv, VersionsOrdered, Idle
<1>8. QED  BY <1>1, <1>5, <1>6, <1>7, DefRanges DEF DInv, ForwardStep

\* The invariant holds at first, and every step keeps it and goes forward.
LEMMA DefSteps ==
  /\ DefInit => DInv
  /\ DInv /\ [DefNext]_defVars => DInv'
  /\ DInv /\ [DefNext]_defVars => [ForwardStep]_defVars
<1>1. ASSUME DefInit PROVE DInv
  <2>1. lost \in BOOLEAN  BY <1>1 DEF DefInit
  <2>2. DefTypeOK  BY <1>1, <2>1, DefsAssumption DEF DefInit, DefTypeOK, Idle
  <2>3. QED  BY <1>1, <2>2 DEF DefInit, DInv, SnapIs, NotYet, VersionsOrdered, Idle
<1>2. ASSUME DInv, DefNext PROVE DInv' /\ ForwardStep
  BY <1>2, OutsideKeeps, RestartKeeps, LoadKeeps, LocalKeeps, FetchKeeps, PublishKeeps, CacheKeeps DEF DefNext
<1>3. ASSUME DInv, UNCHANGED defVars PROVE DInv'
  <2>1. UNCHANGED <<file, server, diskCache, edits, local, localMod, remote, snap, boot, loader, fetch, lost, defRestarts>>
    BY <1>3 DEF defVars, diskVars, regVars
  <2>2. QED  BY <1>3, <2>1 DEF DInv, DefTypeOK, SnapIs, NotYet, VersionsOrdered
<1>4. QED  BY <1>1, <1>2, <1>3

\* The inductive invariant of the definitions holds throughout.
THEOREM DefInvariant == DefSpec => []DInv
<1>1. QED  BY DefSteps, PTL DEF DefSpec

\* What requests see goes forward, whatever fails and whenever the process is restarted.
THEOREM DefsGoForward == DefSpec => DefsForward
<1>1. DefsForward <=> [][ForwardStep]_defVars  BY PTL DEF DefsForward, ForwardStep
<1>2. QED  BY <1>1, DefSteps, DefInvariant, PTL DEF DefSpec

-----------------------------------------------------------------------------
(* The probes (ProbeGuard) *)

\* The keys whose flight holds a slot.
Running == {k \in Keys : probeFlights[k].at \in {"run", "end"}}

\* The slots taken are those of the flights that hold one.
SlotsOfFlights == IsFiniteSet(Running) /\ sem = Cardinality(Running) /\ sem <= MaxProbes

\* No cache has more entries than its bound.
CachesSmall ==
  \A k \in {"probe", "hls"} : IsFiniteSet(Entries(cache[k])) /\ Cardinality(Entries(cache[k])) <= ProbeCacheMax

\* A caller that waits and a flight know their URL.
UrlsKnown ==
  /\ \A c \in Callers : caller[c].at \in {"do", "wait"} => caller[c].kind \in Kinds /\ caller[c].url \in Spellings
  /\ \A k \in Keys : probeFlights[k].at # "none" => probeFlights[k].url \in Spellings

PInv == ProbeTypeOK /\ SlotsOfFlights /\ CachesSmall /\ UrlsKnown

-----------------------------------------------------------------------------
\* One step of NoSecondProbe.
ProbeStep ==
  /\ ProbeTypeOK' /\ ProbesBounded'
  /\ \A k \in Keys : probeFlights[k].at = "check" /\ probeFlights'[k].at = "sem" => ~FreshEntry(k[1], probeFlights[k].url)

\* The records of a flight and of a caller.
FlightType == [at : {"none", "check", "sem", "run", "end"}, url : Spellings \cup {""}, ok : BOOLEAN]
CallerType ==
  [at : {"idle", "do", "wait", "answered", "failed", "left"}, kind : Kinds \cup {""}, url : Spellings \cup {""}]

\* The invariant bounds the probes and the caches.
LEMMA BoundsFollow == PInv => ProbesBounded
<1> SUFFICES ASSUME PInv PROVE ProbesBounded  OBVIOUS
<1>1. DOMAIN cache = {"probe", "hls"}  BY DEF PInv, ProbeTypeOK
<1>2. QED  BY <1>1 DEF PInv, SlotsOfFlights, CachesSmall, ProbesBounded, Running

\* A cache that is swept has what was kept, at most the room there is.
LEMMA SweptSmall ==
  ASSUME NEW m \in [Spellings -> Nat], NEW room \in Nat, IsFiniteSet(Entries(m)), NEW e \in Evictions(m, room)
  PROVE  /\ e \in [Spellings -> Nat]
         /\ IsFiniteSet(Entries(e)) /\ Cardinality(Entries(e)) <= room
<1>1. PICK keep \in SUBSET Entries(m) :
        /\ e = [u \in Spellings |-> IF u \in keep THEN m[u] ELSE 0]
        /\ Cardinality(keep) = IF Cardinality(Entries(m)) <= room THEN Cardinality(Entries(m)) ELSE room
  BY DEF Evictions
<1>2. e \in [Spellings -> Nat]  BY <1>1
<1>3. Entries(e) = keep  BY <1>1 DEF Entries
<1>4. IsFiniteSet(keep)  BY <1>1, FS_Subset
<1>5. Cardinality(Entries(m)) \in Nat  BY FS_CardinalityType
<1>6. Cardinality(keep) <= room  BY <1>1, <1>5
<1>7. QED  BY <1>2, <1>3, <1>4, <1>6

\* An entry that is put adds at most itself.
LEMMA PutOne ==
  ASSUME NEW m \in [Spellings -> Nat], NEW u \in Spellings, NEW exp \in Nat, IsFiniteSet(Entries(m))
  PROVE  /\ [m EXCEPT ![u] = exp] \in [Spellings -> Nat]
         /\ IsFiniteSet(Entries([m EXCEPT ![u] = exp]))
         /\ Cardinality(Entries([m EXCEPT ![u] = exp])) <= Cardinality(Entries(m)) + 1
<1>1. PICK n : n = [m EXCEPT ![u] = exp]  OBVIOUS
<1>2. n \in [Spellings -> Nat]  BY <1>1
<1>3. PICK S : S = Entries(m)  OBVIOUS
<1>4. PICK T : T = Entries(n)  OBVIOUS
<1>5. T \subseteq S \cup {u}  BY <1>1, <1>3, <1>4 DEF Entries
<1>6. IsFiniteSet(S) /\ Cardinality(S) \in Nat  BY <1>3, FS_CardinalityType
<1>7. /\ IsFiniteSet(S \cup {u})
      /\ Cardinality(S \cup {u}) = IF u \in S THEN Cardinality(S) ELSE Cardinality(S) + 1
  BY ONLY <1>6, FS_AddElement
<1>8. IsFiniteSet(T) /\ Cardinality(T) <= Cardinality(S \cup {u})
  BY ONLY <1>5, <1>7, FS_Subset
<1>9. Cardinality(T) \in Nat  BY <1>8, FS_CardinalityType
<1>10. Cardinality(T) <= Cardinality(S) + 1  BY ONLY <1>6, <1>7, <1>8, <1>9
<1>11. QED  BY <1>1, <1>2, <1>3, <1>4, <1>8, <1>10

\* A purge only takes entries away.
LEMMA PurgedSmall ==
  ASSUME NEW m \in [Spellings -> Nat], IsFiniteSet(Entries(m))
  PROVE  Purged(m) \in [Spellings -> Nat] /\ IsFiniteSet(Entries(Purged(m)))
<1>1. Purged(m) \in [Spellings -> Nat]  BY DEF Purged
<1>2. Entries(Purged(m)) \subseteq Entries(m)  BY DEF Entries, Purged
<1>3. QED  BY <1>1, <1>2, FS_Subset

\* Whichever way a result is put, the cache stays within its bound.
LEMMA PutSmall ==
  ASSUME PInv, NEW k \in {"probe", "hls"}, NEW u \in Spellings, NEW exp \in Nat, NEW m \in PutResult(k, u, exp)
  PROVE  /\ m \in [Spellings -> Nat]
         /\ IsFiniteSet(Entries(m)) /\ Cardinality(Entries(m)) <= ProbeCacheMax
<1>1. cache[k] \in [Spellings -> Nat] /\ IsFiniteSet(Entries(cache[k]))
  BY DEF PInv, ProbeTypeOK, CachesSmall
<1>2. ProbeCacheMax \in Nat /\ ProbeCacheMax - 1 \in Nat  BY ProbeAssumption
<1>3. CASE k = "probe"
  <2>1. PICK b : b = IF Cardinality(Entries(cache[k])) >= ProbeCacheMax THEN Purged(cache[k]) ELSE cache[k]  OBVIOUS
  <2>2. b \in [Spellings -> Nat] /\ IsFiniteSet(Entries(b))  BY <1>1, <2>1, PurgedSmall
  <2>3. PICK e \in Evictions(b, ProbeCacheMax - 1) : m = [e EXCEPT ![u] = exp]
    BY <1>3, <2>1 DEF PutResult
  <2>4. /\ e \in [Spellings -> Nat]
        /\ IsFiniteSet(Entries(e)) /\ Cardinality(Entries(e)) <= ProbeCacheMax - 1
    BY <1>2, <2>2, <2>3, SweptSmall
  <2>5. /\ m \in [Spellings -> Nat]
        /\ IsFiniteSet(Entries(m)) /\ Cardinality(Entries(m)) <= Cardinality(Entries(e)) + 1
    BY <2>3, <2>4, PutOne
  <2>6. Cardinality(Entries(m)) \in Nat /\ Cardinality(Entries(e)) \in Nat
    BY <2>4, <2>5, FS_CardinalityType
  <2>7. QED  BY <1>2, <2>4, <2>5, <2>6
<1>4. CASE k # "probe"
  <2>1. PICK p : p = [cache[k] EXCEPT ![u] = exp]  OBVIOUS
  <2>2. p \in [Spellings -> Nat] /\ IsFiniteSet(Entries(p))  BY <1>1, <2>1, PutOne
  <2>3. Purged(p) \in [Spellings -> Nat] /\ IsFiniteSet(Entries(Purged(p)))  BY <2>2, PurgedSmall
  <2>4. m \in Evictions(Purged(p), ProbeCacheMax)  BY <1>4, <2>1 DEF PutResult
  <2>5. QED  BY <1>2, <2>3, <2>4, SweptSmall
<1>5. QED  BY <1>3, <1>4

-----------------------------------------------------------------------------
\* A step that moves no flight into or out of a run leaves the slots as they are.
LEMMA SlotsStay ==
  ASSUME PInv, sem' = sem,
         \A k \in Keys : probeFlights'[k].at \in {"run", "end"} <=> probeFlights[k].at \in {"run", "end"}
  PROVE  SlotsOfFlights'
<1>1. Running' = Running  BY DEF Running
<1>2. QED  BY <1>1 DEF PInv, SlotsOfFlights

\* What the fields of the state are.
LEMMA ProbeFields ==
  ASSUME PInv
  PROVE  /\ probeFlights \in [Keys -> FlightType] /\ caller \in [Callers -> CallerType]
         /\ probeClock \in Nat /\ sem \in Nat
         /\ cache \in [{"probe", "hls"} -> [Spellings -> Nat]]
         /\ Grounded \in FlightType
         /\ \A l \in {"idle", "do", "wait", "answered", "failed", "left"} : Away(l) \in CallerType
<1>1. probeFlights \in [Keys -> FlightType] /\ caller \in [Callers -> CallerType]
  BY DEF PInv, ProbeTypeOK, FlightType, CallerType
<1>2. sem \in Nat /\ cache \in [{"probe", "hls"} -> [Spellings -> Nat]] /\ probeClock \in 1 .. MaxProbeClock
  BY DEF PInv, ProbeTypeOK
<1>3. probeClock \in Nat  BY <1>2, ProbeAssumption
<1>4. Grounded \in FlightType  BY DEF Grounded, FlightType
<1>5. \A l \in {"idle", "do", "wait", "answered", "failed", "left"} : Away(l) \in CallerType
  BY DEF Away, Waiting, CallerType
<1>6. QED  BY <1>1, <1>2, <1>3, <1>4, <1>5

\* A caller's step: only callers change, to records that know their URL.
LEMMA CallersStep ==
  ASSUME PInv, UNCHANGED <<probeClock, cache, probeFlights, sem>>, NEW c \in Callers, NEW r \in CallerType,
         caller' = [caller EXCEPT ![c] = r],
         r.at \in {"do", "wait"} => r.kind \in Kinds /\ r.url \in Spellings
  PROVE  PInv'
<1>1. caller' \in [Callers -> CallerType]  BY ProbeFields
<1>2. ProbeTypeOK'  BY <1>1 DEF PInv, ProbeTypeOK, CallerType
<1>3. SlotsOfFlights'  BY SlotsStay
<1>4. CachesSmall'  BY DEF PInv, CachesSmall, Entries
<1>5. UrlsKnown'  BY ProbeFields DEF PInv, UrlsKnown
<1>6. QED  BY <1>2, <1>3, <1>4, <1>5 DEF PInv

\* The answers of a flight go to its callers; the flight is over.
LEMMA LandStep ==
  ASSUME PInv, UNCHANGED <<probeClock, cache>>, NEW k \in Keys, NEW o \in {"answered", "failed"}, Land(k, o), SlotsOfFlights'
  PROVE  PInv'
<1>1. /\ probeFlights' = [probeFlights EXCEPT ![k] = Grounded]
      /\ caller' = [c \in Callers |-> IF caller[c].at = "wait" /\ KeyOfCall(c) = k THEN Away(o) ELSE caller[c]]
  BY DEF Land
<1>2. PICK a : a = Away(o)  OBVIOUS
<1>3. a \in CallerType /\ a.at = o  BY <1>2, ProbeFields DEF Away, Waiting
<1>4. \A c \in Callers : caller'[c] \in {a, caller[c]}  BY <1>1, <1>2
<1>5. caller' \in [Callers -> CallerType]
  <2>1. \A c \in Callers : caller'[c] \in CallerType  BY <1>3, <1>4, ProbeFields
  <2>2. DOMAIN caller' = Callers /\ caller' = [c \in Callers |-> caller'[c]]  BY <1>1
  <2>3. QED  BY <2>1, <2>2
<1>6. probeFlights' \in [Keys -> FlightType]  BY <1>1, ProbeFields
<1>7. ProbeTypeOK'
  <2>1. sem' \in Nat
    BY FS_CardinalityType DEF SlotsOfFlights
  <2>2. QED  BY <1>5, <1>6, <2>1 DEF PInv, ProbeTypeOK, FlightType, CallerType
<1>8. CachesSmall'  BY DEF PInv, CachesSmall, Entries
<1>9. UrlsKnown'
  <2>1. \A c \in Callers : caller'[c].at \in {"do", "wait"} => caller'[c].kind \in Kinds /\ caller'[c].url \in Spellings
    BY <1>3, <1>4 DEF PInv, UrlsKnown
  <2>2. \A j \in Keys : probeFlights'[j].at # "none" => probeFlights'[j].url \in Spellings
    BY <1>1, ProbeFields DEF PInv, UrlsKnown, Grounded
  <2>3. QED  BY <2>1, <2>2 DEF UrlsKnown
<1>10. QED  BY <1>7, <1>8, <1>9 DEF PInv

\* A flight goes on.
LEMMA FlightStep ==
  ASSUME PInv, UNCHANGED <<probeClock, cache, caller>>, NEW k \in Keys, NEW r \in FlightType, r.url \in Spellings,
         probeFlights' = [probeFlights EXCEPT ![k] = r], sem' \in Nat, SlotsOfFlights'
  PROVE  PInv'
<1>1. probeFlights' \in [Keys -> FlightType]  BY ProbeFields
<1>2. ProbeTypeOK'  BY <1>1 DEF PInv, ProbeTypeOK, FlightType
<1>3. CachesSmall'  BY DEF PInv, CachesSmall, Entries
<1>4. UrlsKnown'  BY ProbeFields DEF PInv, UrlsKnown
<1>5. QED  BY <1>2, <1>3, <1>4 DEF PInv

-----------------------------------------------------------------------------
\* The clock.
LEMMA TickStep ==
  ASSUME PInv, ProbeTick
  PROVE  PInv' /\ ProbeStep
<1>1. UNCHANGED <<cache, probeFlights, sem, caller>> /\ probeClock < MaxProbeClock /\ probeClock' = probeClock + 1
  BY DEF ProbeTick
<1>2. probeClock \in 1 .. MaxProbeClock  BY DEF PInv, ProbeTypeOK
<1>3. probeClock' \in 1 .. MaxProbeClock  BY <1>1, <1>2, ProbeAssumption
<1>4. ProbeTypeOK'  BY <1>1, <1>3 DEF PInv, ProbeTypeOK
<1>5. SlotsOfFlights'  BY <1>1, SlotsStay
<1>6. CachesSmall' /\ UrlsKnown'  BY <1>1 DEF PInv, CachesSmall, Entries, UrlsKnown
<1>7. PInv'  BY <1>4, <1>5, <1>6 DEF PInv
<1>8. ProbesBounded'  BY <1>7, BoundsFollow, PTL
<1>9. QED  BY <1>1, <1>4, <1>7, <1>8 DEF ProbeStep

\* A caller comes, or leaves.
LEMMA AskStep ==
  ASSUME PInv, NEW c \in Callers, CallerLeaves(c) \/ \E k \in Kinds, u \in Spellings : Ask(c, k, u)
  PROVE  PInv' /\ ProbeStep
<1>1. UNCHANGED <<probeClock, cache, probeFlights, sem>>  BY DEF Ask, CallerLeaves
<1>2. PICK r \in CallerType : /\ caller' = [caller EXCEPT ![c] = r]
                              /\ r.at \in {"do", "wait"} => r.kind \in Kinds /\ r.url \in Spellings
  <2>1. CASE CallerLeaves(c)
    <3>1. Away("left") \in CallerType /\ Away("left").at = "left"  BY ProbeFields DEF Away, Waiting
    <3>2. caller' = [caller EXCEPT ![c] = Away("left")]  BY <2>1 DEF CallerLeaves
    <3>3. QED  BY <3>1, <3>2
  <2>2. CASE \E k \in Kinds, u \in Spellings : Ask(c, k, u)
    <3>1. PICK k \in Kinds, u \in Spellings : Ask(c, k, u)  BY <2>2
    <3>2. Away("answered") \in CallerType /\ Away("answered").at = "answered"  BY ProbeFields DEF Away, Waiting
    <3>3. /\ Waiting("do", k, u) \in CallerType
          /\ Waiting("do", k, u).kind = k /\ Waiting("do", k, u).url = u
      BY DEF Waiting, CallerType
    <3>4. \/ caller' = [caller EXCEPT ![c] = Away("answered")]
          \/ caller' = [caller EXCEPT ![c] = Waiting("do", k, u)]
      BY <3>1 DEF Ask
    <3>5. QED  BY <3>2, <3>3, <3>4
  <2>3. QED  BY <2>1, <2>2
<1>3. PInv'  BY <1>1, <1>2, CallersStep
<1>4. ProbesBounded'  BY <1>3, BoundsFollow, PTL
<1>5. ProbeTypeOK'  BY <1>3 DEF PInv
<1>6. QED  BY <1>1, <1>3, <1>4, <1>5 DEF ProbeStep

\* A caller joins the flight of its key or sets it off.
LEMMA DoStep ==
  ASSUME PInv, NEW c \in Callers, Do(c)
  PROVE  PInv' /\ ProbeStep
<1>1. /\ UNCHANGED <<probeClock, cache, sem>> /\ caller[c].at = "do"
      /\ caller' = [caller EXCEPT ![c].at = "wait"]
  BY DEF Do
<1>2. caller[c] \in CallerType  BY ProbeFields
<1>3. caller[c].kind \in Kinds /\ caller[c].url \in Spellings  BY <1>1 DEF PInv, UrlsKnown
<1>4. PICK k : k = KeyOfCall(c)  OBVIOUS
<1>5. k \in Keys  BY <1>3, <1>4 DEF Keys, KeyOfCall
<1>6. PICK r : r = [at |-> "check", url |-> caller[c].url, ok |-> FALSE]  OBVIOUS
<1>7. r \in FlightType /\ r.at = "check" /\ r.url \in Spellings
  <2>1. FALSE \in BOOLEAN  OBVIOUS
  <2>2. QED  BY <1>3, <1>6, <2>1 DEF FlightType
<1>8. \/ probeFlights' = probeFlights
      \/ probeFlights[k].at = "none" /\ probeFlights' = [probeFlights EXCEPT ![k] = r]
  BY <1>4, <1>6 DEF Do
<1>9. SlotsOfFlights'  BY <1>1, <1>5, <1>7, <1>8, SlotsStay, ProbeFields
<1>10. PICK s : s = [caller[c] EXCEPT !.at = "wait"]  OBVIOUS
<1>11. s \in CallerType /\ s.at = "wait" /\ s.kind = caller[c].kind /\ s.url = caller[c].url
  BY <1>2, <1>10 DEF CallerType
<1>12. caller' = [caller EXCEPT ![c] = s]  BY <1>1, <1>10
<1>13. probeFlights' \in [Keys -> FlightType] /\ caller' \in [Callers -> CallerType]
  BY <1>5, <1>7, <1>8, <1>11, <1>12, ProbeFields
<1>14. ProbeTypeOK'  BY <1>1, <1>13 DEF PInv, ProbeTypeOK, FlightType, CallerType
<1>15. CachesSmall'  BY <1>1 DEF PInv, CachesSmall, Entries
<1>16. UrlsKnown'  BY <1>3, <1>5, <1>7, <1>8, <1>11, <1>12, ProbeFields DEF PInv, UrlsKnown
<1>17. PInv'  BY <1>9, <1>14, <1>15, <1>16 DEF PInv
<1>18. ProbesBounded'  BY <1>17, BoundsFollow, PTL
<1>19. \A j \in Keys : probeFlights'[j].at = "sem" => probeFlights[j].at = "sem"
  BY <1>5, <1>7, <1>8, ProbeFields
<1>20. QED  BY <1>14, <1>17, <1>18, <1>19 DEF ProbeStep

\* The second look at the cache: the flight lands with what it finds, or goes on.
LEMMA CheckStep ==
  ASSUME PInv, NEW k \in Keys, CheckAgain(k)
  PROVE  PInv' /\ ProbeStep
<1>1. UNCHANGED <<probeClock, cache, sem>> /\ probeFlights[k].at = "check"  BY DEF CheckAgain
<1>2. probeFlights[k] \in FlightType  BY ProbeFields
<1>3. CASE FreshEntry(k[1], probeFlights[k].url)
  <2>1. Land(k, "answered")  BY <1>3 DEF CheckAgain
  <2>2. probeFlights' = [probeFlights EXCEPT ![k] = Grounded] /\ Grounded.at = "none"
    BY <2>1 DEF Land, Grounded
  <2>3. SlotsOfFlights'  BY <1>1, <2>2, SlotsStay, ProbeFields
  <2>4. PInv'  BY <1>1, <2>1, <2>3, LandStep
  <2>5. \A j \in Keys : probeFlights'[j].at = "sem" => probeFlights[j].at = "sem"
    BY <2>2, ProbeFields
  <2>6. ProbesBounded'  BY <2>4, BoundsFollow, PTL
  <2>7. QED  BY <2>4, <2>5, <2>6 DEF ProbeStep, PInv
<1>4. CASE ~FreshEntry(k[1], probeFlights[k].url)
  <2>1. PICK r : r = [probeFlights[k] EXCEPT !.at = "sem"]  OBVIOUS
  <2>2. probeFlights' = [probeFlights EXCEPT ![k] = r] /\ caller' = caller
    BY <1>4, <2>1 DEF CheckAgain
  <2>3. r \in FlightType /\ r.at = "sem" /\ r.url = probeFlights[k].url  BY <1>2, <2>1 DEF FlightType
  <2>4. r.url \in Spellings  BY <1>1, <2>3 DEF PInv, UrlsKnown
  <2>5. SlotsOfFlights'  BY <1>1, <2>2, <2>3, SlotsStay, ProbeFields
  <2>6. PInv'  BY <1>1, <2>2, <2>3, <2>4, <2>5, ProbeFields, FlightStep
  <2>7. \A j \in Keys : probeFlights'[j].at = "sem" => probeFlights[j].at = "sem" \/ j = k
    BY <2>2, ProbeFields
  <2>8. ProbesBounded'  BY <2>6, BoundsFollow, PTL
  <2>9. QED  BY <1>4, <2>6, <2>7, <2>8 DEF ProbeStep, PInv
<1>5. QED  BY <1>3, <1>4

\* A slot is taken while there is one.
LEMMA AcquireStep ==
  ASSUME PInv, NEW k \in Keys, AcquireSlot(k)
  PROVE  PInv' /\ ProbeStep
<1>1. /\ UNCHANGED <<probeClock, cache, caller>> /\ probeFlights[k].at = "sem"
      /\ sem < MaxProbes /\ sem' = sem + 1
      /\ probeFlights' = [probeFlights EXCEPT ![k].at = "run"]
  BY DEF AcquireSlot
<1>2. probeFlights[k] \in FlightType  BY ProbeFields
<1>3. PICK r : r = [probeFlights[k] EXCEPT !.at = "run"]  OBVIOUS
<1>4. r \in FlightType /\ r.at = "run" /\ r.url = probeFlights[k].url  BY <1>2, <1>3 DEF FlightType
<1>5. probeFlights' = [probeFlights EXCEPT ![k] = r]  BY <1>1, <1>3
<1>6. r.url \in Spellings  BY <1>1, <1>4 DEF PInv, UrlsKnown
<1>7. SlotsOfFlights'
  <2>1. PICK S : S = Running  OBVIOUS
  <2>2. Running' = S \cup {k} /\ k \notin S  BY <1>1, <1>4, <1>5, <2>1, ProbeFields DEF Running
  <2>3. IsFiniteSet(S) /\ Cardinality(S) = sem  BY <2>1 DEF PInv, SlotsOfFlights
  <2>4. IsFiniteSet(S \cup {k}) /\ Cardinality(S \cup {k}) = Cardinality(S) + 1
    BY ONLY <2>2, <2>3, FS_AddElement
  <2>5. sem + 1 <= MaxProbes  BY <1>1, ProbeFields, ProbeAssumption
  <2>6. QED  BY <1>1, <2>2, <2>3, <2>4, <2>5 DEF SlotsOfFlights
<1>8. sem' \in Nat  BY <1>1, ProbeFields
<1>9. PInv'  BY <1>1, <1>4, <1>5, <1>6, <1>7, <1>8, FlightStep
<1>10. \A j \in Keys : probeFlights'[j].at = "sem" => probeFlights[j].at = "sem"
  BY <1>4, <1>5, ProbeFields
<1>11. ProbesBounded'  BY <1>9, BoundsFollow, PTL
<1>12. QED  BY <1>9, <1>10, <1>11 DEF ProbeStep, PInv

\* The wait for a slot ends without one.
LEMMA TimeoutStep ==
  ASSUME PInv, NEW k \in Keys, SlotTimeout(k)
  PROVE  PInv' /\ ProbeStep
<1>1. UNCHANGED <<probeClock, cache, sem>> /\ probeFlights[k].at = "sem" /\ Land(k, "failed")  BY DEF SlotTimeout
<1>2. probeFlights' = [probeFlights EXCEPT ![k] = Grounded] /\ Grounded.at = "none"
  BY <1>1 DEF Land, Grounded
<1>3. SlotsOfFlights'  BY <1>1, <1>2, SlotsStay, ProbeFields
<1>4. PInv'  BY <1>1, <1>3, LandStep
<1>5. \A j \in Keys : probeFlights'[j].at = "sem" => probeFlights[j].at = "sem"
  BY <1>2, ProbeFields
<1>6. ProbesBounded'  BY <1>4, BoundsFollow, PTL
<1>7. QED  BY <1>4, <1>5, <1>6 DEF ProbeStep, PInv

\* A probe ends and its outcome is put.
LEMMA RanStep ==
  ASSUME PInv, NEW k \in Keys, NEW ok \in BOOLEAN, Ran(k, ok)
  PROVE  PInv' /\ ProbeStep
<1>1. /\ UNCHANGED <<probeClock, sem, caller>> /\ probeFlights[k].at = "run"
      /\ probeFlights' = [probeFlights EXCEPT ![k].at = "end", ![k].ok = ok]
  BY DEF Ran
<1>2. probeFlights[k] \in FlightType  BY ProbeFields
<1>3. probeFlights[k].url \in Spellings  BY <1>1 DEF PInv, UrlsKnown
<1>4. PICK r : r = [probeFlights[k] EXCEPT !.at = "end", !.ok = ok]  OBVIOUS
<1>5. r \in FlightType /\ r.at = "end" /\ r.url = probeFlights[k].url  BY <1>2, <1>4 DEF FlightType
<1>6. probeFlights' = [probeFlights EXCEPT ![k] = r]  BY <1>1, <1>4, ProbeFields
<1>7. SlotsOfFlights'  BY <1>1, <1>5, <1>6, SlotsStay, ProbeFields
<1>8. /\ cache' \in [{"probe", "hls"} -> [Spellings -> Nat]]
      /\ \A j \in {"probe", "hls"} : IsFiniteSet(Entries(cache'[j])) /\ Cardinality(Entries(cache'[j])) <= ProbeCacheMax
  <2>1. CASE k[1] = "sub"
    <3>1. cache' = cache  BY <2>1 DEF Ran
    <3>2. QED  BY <3>1, ProbeFields DEF PInv, CachesSmall
  <2>2. CASE k[1] # "sub"
    <3>1. k[1] \in {"probe", "hls"}  BY <2>2 DEF Keys, Kinds
    <3>2. PICK exp \in Nat : \E m \in PutResult(k[1], probeFlights[k].url, exp) : cache' = [cache EXCEPT ![k[1]] = m]
      BY <2>2, ProbeFields, ProbeAssumption DEF Ran
    <3>3. PICK m \in PutResult(k[1], probeFlights[k].url, exp) : cache' = [cache EXCEPT ![k[1]] = m]  BY <3>2
    <3>4. /\ m \in [Spellings -> Nat]
          /\ IsFiniteSet(Entries(m)) /\ Cardinality(Entries(m)) <= ProbeCacheMax
      BY <1>3, <3>1, PutSmall
    <3>5. cache' \in [{"probe", "hls"} -> [Spellings -> Nat]]  BY <3>1, <3>3, <3>4, ProbeFields
    <3>6. \A j \in {"probe", "hls"} : cache'[j] \in {m, cache[j]}  BY <3>3, ProbeFields
    <3>7. \A j \in {"probe", "hls"} : IsFiniteSet(Entries(cache'[j])) /\ Cardinality(Entries(cache'[j])) <= ProbeCacheMax
      BY <3>4, <3>6 DEF PInv, CachesSmall
    <3>8. QED  BY <3>5, <3>7
  <2>3. QED  BY <2>1, <2>2
<1>9. probeFlights' \in [Keys -> FlightType]  BY <1>5, <1>6, ProbeFields
<1>10. ProbeTypeOK'  BY <1>1, <1>8, <1>9 DEF PInv, ProbeTypeOK, FlightType
<1>11. CachesSmall'  BY <1>8 DEF CachesSmall, Entries
<1>12. UrlsKnown'  BY <1>1, <1>3, <1>5, <1>6, ProbeFields DEF PInv, UrlsKnown
<1>13. PInv'  BY <1>7, <1>10, <1>11, <1>12 DEF PInv
<1>14. \A j \in Keys : probeFlights'[j].at = "sem" => probeFlights[j].at = "sem"
  BY <1>5, <1>6, ProbeFields
<1>15. ProbesBounded'  BY <1>13, BoundsFollow, PTL
<1>16. QED  BY <1>10, <1>13, <1>14, <1>15 DEF ProbeStep

\* The slot is given back and the callers have the outcome.
LEMMA LandedStep ==
  ASSUME PInv, NEW k \in Keys, ProbeLanded(k)
  PROVE  PInv' /\ ProbeStep
<1>1. UNCHANGED <<probeClock, cache>> /\ probeFlights[k].at = "end" /\ sem' = sem - 1  BY DEF ProbeLanded
<1>2. PICK o \in {"answered", "failed"} : Land(k, o)  BY DEF ProbeLanded
<1>3. probeFlights' = [probeFlights EXCEPT ![k] = Grounded] /\ Grounded.at = "none"
  BY <1>2 DEF Land, Grounded
<1>4. SlotsOfFlights'
  <2>1. PICK S : S = Running  OBVIOUS
  <2>2. Running' = S \ {k} /\ k \in S  BY <1>1, <1>3, <2>1, ProbeFields DEF Running
  <2>3. IsFiniteSet(S) /\ Cardinality(S) = sem  BY <2>1 DEF PInv, SlotsOfFlights
  <2>4. IsFiniteSet(S \ {k}) /\ Cardinality(S \ {k}) = Cardinality(S) - 1
    BY ONLY <2>2, <2>3, FS_RemoveElement
  <2>5. sem - 1 <= MaxProbes  BY ProbeFields, ProbeAssumption DEF PInv, SlotsOfFlights
  <2>6. QED  BY <1>1, <2>2, <2>3, <2>4, <2>5 DEF SlotsOfFlights
<1>5. PInv'  BY <1>1, <1>2, <1>4, LandStep
<1>6. \A j \in Keys : probeFlights'[j].at = "sem" => probeFlights[j].at = "sem"
  BY <1>3, ProbeFields
<1>7. ProbesBounded'  BY <1>5, BoundsFollow, PTL
<1>8. QED  BY <1>5, <1>6, <1>7 DEF ProbeStep, PInv

-----------------------------------------------------------------------------
\* The invariant holds at first, and every step keeps it and the promise.
LEMMA ProbeSteps ==
  /\ ProbeInit => PInv
  /\ PInv /\ [ProbeNext]_probeVars => PInv'
  /\ PInv /\ [ProbeNext]_probeVars => [ProbeStep]_probeVars
<1>1. ASSUME ProbeInit PROVE PInv
  <2>1. /\ probeClock = 1 /\ sem = 0 /\ probeFlights = [k \in Keys |-> Grounded]
        /\ cache = [k \in {"probe", "hls"} |-> [u \in Spellings |-> 0]] /\ caller = [c \in Callers |-> Away("idle")]
    BY <1>1 DEF ProbeInit
  <2>2. Grounded \in FlightType /\ Grounded.at = "none"
    <3>1. FALSE \in BOOLEAN  OBVIOUS
    <3>2. QED  BY <3>1 DEF Grounded, FlightType
  <2>3. Away("idle") \in CallerType /\ Away("idle").at = "idle"  BY DEF Away, Waiting, CallerType
  <2>4. probeClock \in 1 .. MaxProbeClock /\ sem \in Nat  BY <2>1, ProbeAssumption
  <2>5. probeFlights \in [Keys -> FlightType] /\ caller \in [Callers -> CallerType]  BY <2>1, <2>2, <2>3
  <2>6. ProbeTypeOK  BY <2>1, <2>4, <2>5 DEF ProbeTypeOK, FlightType, CallerType
  <2>7. Running = {}  BY <2>1, <2>2 DEF Running
  <2>8. SlotsOfFlights
    BY <2>1, <2>7, FS_EmptySet, ProbeAssumption DEF SlotsOfFlights
  <2>9. \A k \in {"probe", "hls"} : Entries(cache[k]) = {}  BY <2>1 DEF Entries
  <2>10. CachesSmall  BY <2>9, FS_EmptySet, ProbeAssumption DEF CachesSmall
  <2>11. UrlsKnown  BY <2>1, <2>2, <2>3 DEF UrlsKnown
  <2>12. QED  BY <2>6, <2>8, <2>10, <2>11 DEF PInv
<1>2. ASSUME PInv, ProbeNext PROVE PInv' /\ ProbeStep
  BY <1>2, TickStep, AskStep, DoStep, CheckStep, AcquireStep, TimeoutStep, RanStep, LandedStep DEF ProbeNext
<1>3. ASSUME PInv, UNCHANGED probeVars PROVE PInv'
  <2>1. UNCHANGED <<probeClock, cache, probeFlights, sem, caller>>  BY <1>3 DEF probeVars
  <2>2. SlotsOfFlights'  BY <1>3, <2>1, SlotsStay
  <2>3. QED  BY <1>3, <2>1, <2>2 DEF PInv, ProbeTypeOK, CachesSmall, Entries, UrlsKnown
<1>4. QED  BY <1>1, <1>2, <1>3

\* The inductive invariant of the probes holds throughout.
THEOREM ProbeInvariant == ProbeSpec => []PInv
<1>1. QED  BY ProbeSteps, PTL DEF ProbeSpec

\* No probe is started for a result that is there, and the bounds are kept.
THEOREM ProbesOnce == ProbeSpec => NoSecondProbe
<1>1. NoSecondProbe <=> [][ProbeStep]_probeVars  BY PTL DEF NoSecondProbe, ProbeStep
<1>2. QED  BY <1>1, ProbeSteps, ProbeInvariant, PTL DEF ProbeSpec

-----------------------------------------------------------------------------
(* Streams of a torrent's file (StreamHandler) *)

\* What a request knows: its engine is an instance there has been, it has a reader from
\* NewReader on, whose watcher runs no longer than the reader is open; only the watcher
\* closes it under a copy; and once a byte has come, the context is the long one.
Knows(s) ==
  /\ s.eng <= Live /\ (s.at \notin {"idle", "end"} => s.eng >= 1)
  /\ s.at \in {"idle", "ready", "open", "end"} => s.reader = "none"
  /\ s.at \in {"idle", "ready", "open", "head", "end"} => ~s.started
  /\ s.watch = "on" => s.reader = "open"
  /\ s.reader = "open" => s.eng >= 1
  /\ s.reader = "closed" => s.client = "gone"
  /\ s.ctx # "cancelled" /\ (s.started => s.ctx = "long")

\* NoFalseCut, of one request.
CutFair(s) ==
  s.started /\ s.at \in {"leave", "close"} /\ s.pos <= s.last => s.client = "gone" \/ s.eng # Live \/ s.cut = "idle"

SInv == StreamsTypeOK /\ PinsExact /\ \A r \in Streams : Knows(stream[r]) /\ CutFair(stream[r])

\* The requests that hold a reader of an instance.
Readers(i) == {r \in Streams : stream[r].eng = i /\ stream[r].reader = "open"}

\* The types, and what is finite.
LEMMA StreamFields ==
  ASSUME SInv
  PROVE  /\ length \in Nat /\ removals \in 0 .. MaxRemovals /\ MaxRemovals \in Nat
         /\ stream \in [Streams -> StreamType]
         /\ pins \in [Instances -> Int]
         /\ \A i \in Instances : pins[i] = Cardinality(Readers(i)) /\ IsFiniteSet(Readers(i))
<1>1. IsFiniteSet(Streams)  BY StreamAssumption, FS_Interval DEF Streams
<1>2. \A i \in Instances : IsFiniteSet(Readers(i))  BY <1>1, FS_Subset DEF Readers
<1>3. \A i \in Instances : pins[i] = Cardinality(Readers(i))  BY DEF SInv, PinsExact, Readers
<1>4. length \in Nat  BY StreamAssumption DEF SInv, StreamsTypeOK
<1>5. QED  BY <1>2, <1>3, <1>4, StreamAssumption DEF SInv, StreamsTypeOK

\* A step of one request keeps the invariant if its record is sound and the pins are.
LEMMA OneStream ==
  ASSUME SInv, UNCHANGED swarmVars, NEW r \in Streams, NEW s \in StreamType,
         stream' = [stream EXCEPT ![r] = s], Knows(s), CutFair(s), pins' \in [Instances -> Int], PinsExact'
  PROVE  SInv'
<1>1. UNCHANGED <<length, removals, hasMeta, have>>  BY DEF swarmVars
<1>2. StreamType' = StreamType  BY <1>1 DEF StreamType
<1>3. stream' \in [Streams -> StreamType]  BY StreamFields
<1>4. StreamsTypeOK'  BY <1>1, <1>2, <1>3 DEF SInv, StreamsTypeOK
<1>5. \A q \in Streams : stream'[q] = IF q = r THEN s ELSE stream[q]  BY StreamFields
<1>6. Live' = Live  BY <1>1 DEF Live
<1>7. \A q \in Streams : Knows(stream'[q]) /\ CutFair(stream'[q])  BY <1>5 DEF SInv
<1>8. \A q \in Streams : Knows(stream[q])' /\ CutFair(stream[q])'  BY <1>6, <1>7 DEF Knows, CutFair
<1>9. QED  BY <1>4, <1>8 DEF SInv

\* A step that opens and closes no reader.
LEMMA ReaderStays ==
  ASSUME SInv, UNCHANGED <<swarmVars, pins>>, NEW r \in Streams, NEW s \in StreamType,
         stream' = [stream EXCEPT ![r] = s], Knows(s), CutFair(s),
         s.reader = "open" <=> stream[r].reader = "open", s.reader = "open" => s.eng = stream[r].eng
  PROVE  SInv'
<1>1. \A q \in Streams : stream'[q] = IF q = r THEN s ELSE stream[q]  BY StreamFields
<1>2. \A i \in Instances : Readers(i)' = Readers(i)  BY <1>1 DEF Readers
<1>3. PinsExact'  BY <1>2, StreamFields DEF PinsExact, Readers
<1>4. QED  BY <1>3, StreamFields, OneStream

\* The record of a request that is over, or has not begun.
LEMMA FreshKnows ==
  ASSUME SInv, NEW l \in {"idle", "end"}
  PROVE  Fresh(l) \in StreamType /\ Knows(Fresh(l)) /\ CutFair(Fresh(l)) /\ Fresh(l).reader = "none"
<1>1. FALSE \in BOOLEAN  OBVIOUS
<1>2. /\ Fresh(l) = [at |-> l, kind |-> "get", client |-> "here", eng |-> 0, pos |-> 0, last |-> -1, reader |-> "none",
                     ctx |-> "none", started |-> FALSE, watch |-> "off", cut |-> "no", status |-> 0]
  BY DEF Fresh
<1>3. Fresh(l) \in StreamType  BY <1>1, <1>2, StreamFields DEF StreamType
<1>4. Knows(Fresh(l)) /\ CutFair(Fresh(l))  BY <1>2, StreamFields DEF Knows, CutFair, Live
<1>5. QED  BY <1>2, <1>3, <1>4

-----------------------------------------------------------------------------
\* The swarm and the removal of the torrent: a copy cut by it stays so.
LEMMA SwarmStep ==
  ASSUME SInv, LearnMetadata \/ Deliver \/ RemoveTorrent
  PROVE  SInv'
<1>1. UNCHANGED <<length, pins, stream>> /\ (removals' = removals \/ removals' = removals + 1) /\ removals' \in 0 .. MaxRemovals
  BY StreamFields DEF LearnMetadata, Deliver, RemoveTorrent
<1>2. have' \subseteq 0 .. length - 1
  BY DEF LearnMetadata, Deliver, RemoveTorrent, SInv, StreamsTypeOK
<1>3. hasMeta' \in BOOLEAN
  BY DEF LearnMetadata, Deliver, RemoveTorrent, SInv, StreamsTypeOK
<1>4. StreamType' = StreamType  BY <1>1 DEF StreamType
<1>5. StreamsTypeOK'  BY <1>1, <1>2, <1>3, <1>4 DEF SInv, StreamsTypeOK
<1>6. PinsExact'  BY <1>1 DEF SInv, PinsExact
<1>7. \A r \in Streams : Knows(stream[r])' /\ CutFair(stream[r])'
  <2>1. TAKE r \in Streams
  <2>2. stream[r].eng \in Nat  BY StreamFields DEF StreamType
  <2>3. Live' = Live \/ Live' = Live + 1  BY <1>1 DEF Live
  <2>4. Live \in Nat  BY StreamFields DEF Live
  <2>5. Knows(stream[r]) /\ CutFair(stream[r])  BY DEF SInv
  <2>6. Knows(stream[r])'  BY <1>1, <2>2, <2>3, <2>4, <2>5 DEF Knows
  <2>7. CutFair(stream[r])'  BY <1>1, <2>2, <2>3, <2>4, <2>5 DEF CutFair, Knows
  <2>8. QED  BY <2>6, <2>7
<1>8. QED  BY <1>5, <1>6, <1>7 DEF SInv

\* What a request does before it has a reader.
LEMMA EarlyStep ==
  ASSUME SInv, NEW r \in Streams, Arrive(r) \/ Ready(r) \/ NotReady(r) \/ Elsewhere(r)
  PROVE  SInv'
<1>1. UNCHANGED <<swarmVars, pins>>  BY DEF Arrive, Ready, NotReady, Elsewhere
<1>2. stream[r] \in StreamType /\ Knows(stream[r])  BY StreamFields DEF SInv
<1>3. stream[r].at \in {"idle", "ready", "open"}  BY DEF Arrive, Ready, NotReady, Elsewhere, At
<1>4. stream[r].reader # "open"
  BY <1>2, <1>3 DEF Knows, StreamType
<1>5. CASE stream' = [stream EXCEPT ![r] = Fresh("end")]
  BY <1>1, <1>4, <1>5, FreshKnows, ReaderStays
<1>6. CASE \E kind \in {"get", "head", "create"} :
             stream' = [stream EXCEPT ![r] = [Fresh("ready") EXCEPT !.kind = kind, !.eng = Live]]
  <2>1. PICK kind \in {"get", "head", "create"} :
           stream' = [stream EXCEPT ![r] = [Fresh("ready") EXCEPT !.kind = kind, !.eng = Live]]
    BY <1>6
  <2>2. PICK s : s = [Fresh("ready") EXCEPT !.kind = kind, !.eng = Live]  OBVIOUS
  <2>3. s = [at |-> "ready", kind |-> kind, client |-> "here", eng |-> Live, pos |-> 0, last |-> -1, reader |-> "none",
             ctx |-> "none", started |-> FALSE, watch |-> "off", cut |-> "no", status |-> 0]
    BY <2>2 DEF Fresh
  <2>4. FALSE \in BOOLEAN  OBVIOUS
  <2>5. Live \in 1 .. MaxRemovals + 1  BY StreamFields DEF Live
  <2>6. s \in StreamType  BY <2>3, <2>4, <2>5, StreamFields DEF StreamType
  <2>7. Knows(s) /\ CutFair(s) /\ s.reader = "none"  BY <2>3, <2>5 DEF Knows, CutFair
  <2>8. QED  BY <1>1, <1>4, <2>1, <2>2, <2>6, <2>7, ReaderStays
<1>7. CASE /\ stream[r].at = "ready" /\ stream' = [stream EXCEPT ![r] = [stream[r] EXCEPT !.at = "open"]]
  <2>1. PICK s : s = [stream[r] EXCEPT !.at = "open"]  OBVIOUS
  <2>2. /\ s \in StreamType /\ s.at = "open" /\ s.reader = stream[r].reader /\ s.eng = stream[r].eng
        /\ s.started = stream[r].started /\ s.watch = stream[r].watch /\ s.client = stream[r].client /\ s.ctx = stream[r].ctx
    BY <1>2, <2>1 DEF StreamType
  <2>3. Knows(s) /\ CutFair(s)  BY <1>2, <1>7, <2>2 DEF Knows, CutFair
  <2>4. QED  BY <1>1, <1>7, <2>1, <2>2, <2>3, ReaderStays
<1>8. QED
  BY <1>5, <1>6, <1>7, StreamFields DEF Arrive, Ready, NotReady, Elsewhere, At

\* Each field of a request's record may be set to a value of its type.
LEMMA FieldSet ==
  ASSUME NEW x \in StreamType
  PROVE  /\ \A v \in {"read", "wait", "write", "leave", "close"} : [x EXCEPT !.at = v] \in StreamType
         /\ \A v \in {"closed", "removed", "context", "deadline", "client", "idle"} : [x EXCEPT !.cut = v] \in StreamType
         /\ \A v \in {"none", "deadline", "long", "cancelled"} : [x EXCEPT !.ctx = v] \in StreamType
         /\ \A v \in {0, 200} : [x EXCEPT !.status = v] \in StreamType
         /\ \A v \in Nat : [x EXCEPT !.pos = v] \in StreamType
         /\ [x EXCEPT !.kind = "get"] \in StreamType /\ [x EXCEPT !.watch = "off"] \in StreamType
         /\ [x EXCEPT !.started = TRUE] \in StreamType
<1>1. /\ \A v \in {"read", "wait", "write", "leave", "close"} : [x EXCEPT !.at = v] \in StreamType
      /\ [x EXCEPT !.kind = "get"] \in StreamType /\ [x EXCEPT !.watch = "off"] \in StreamType
  BY DEF StreamType
<1>2. \A v \in {"closed", "removed", "context", "deadline", "client", "idle"} : [x EXCEPT !.cut = v] \in StreamType
  BY DEF StreamType
<1>3. /\ \A v \in {"none", "deadline", "long", "cancelled"} : [x EXCEPT !.ctx = v] \in StreamType
      /\ \A v \in {0, 200} : [x EXCEPT !.status = v] \in StreamType
  BY DEF StreamType
<1>4. \A v \in Nat : [x EXCEPT !.pos = v] \in StreamType
  BY DEF StreamType
<1>5. [x EXCEPT !.started = TRUE] \in StreamType
  <2>1. TRUE \in BOOLEAN  OBVIOUS
  <2>2. QED  BY <2>1 DEF StreamType
<1>6. QED  BY <1>1, <1>2, <1>3, <1>4, <1>5

\* A step of a copy: where it is, how far, under which context.
LEMMA CopyStep ==
  ASSUME SInv, UNCHANGED <<swarmVars, pins>>, NEW r \in Streams, NEW s \in StreamType, stream' = [stream EXCEPT ![r] = s],
         stream[r].at \in {"head", "read", "wait", "write", "leave"}, s.at \in {"read", "wait", "write", "leave", "close"},
         s.eng = stream[r].eng, s.reader = stream[r].reader, s.client = stream[r].client,
         s.watch = stream[r].watch \/ s.watch = "off",
         s.ctx # "cancelled", s.started => s.ctx = "long", CutFair(s)
  PROVE  SInv'
<1>1. Knows(stream[r])  BY DEF SInv
<1>2. Knows(s)  BY <1>1 DEF Knows
<1>3. QED  BY <1>2, ReaderStays

\* The client goes away.
LEMMA LeavesStep ==
  ASSUME SInv, NEW r \in Streams, ClientLeaves(r)
  PROVE  SInv'
<1>1. stream[r] \in StreamType /\ Knows(stream[r]) /\ CutFair(stream[r])  BY StreamFields DEF SInv
<1>2. PICK s : s = [stream[r] EXCEPT !.client = "gone"]  OBVIOUS
<1>3. /\ UNCHANGED <<swarmVars, pins>> /\ stream' = [stream EXCEPT ![r] = s]
      /\ stream[r].at \notin {"idle", "end"}
  BY <1>2 DEF ClientLeaves
<1>4. /\ s \in StreamType /\ s.client = "gone" /\ s.at = stream[r].at /\ s.reader = stream[r].reader
      /\ s.eng = stream[r].eng /\ s.started = stream[r].started /\ s.watch = stream[r].watch /\ s.ctx = stream[r].ctx
  BY <1>1, <1>2 DEF StreamType
<1>5. Knows(s) /\ CutFair(s)  BY <1>1, <1>4 DEF Knows, CutFair
<1>6. QED  BY <1>3, <1>4, <1>5, ReaderStays

\* The headers: the range of a satisfiable answer is within the file.
LEMMA HeadersStep ==
  ASSUME SInv, NEW r \in Streams, NEW h \in Headers(length), SendHeaders(r, h)
  PROVE  SInv'
<1>1. stream[r] \in StreamType /\ Knows(stream[r])  BY StreamFields DEF SInv
<1>2. PICK range : range = ParseRange(h, length)  OBVIOUS
<1>3. range.ok => range.start \in Nat /\ range.end \in -1 .. length - 1
  <2>1. length \in Nat  BY StreamFields
  <2>2. CASE h.form = "suffix"
    <3>1. h.a \in Int  BY <2>2, <2>1 DEF Headers
    <3>2. QED  BY <1>2, <2>1, <2>2, <3>1 DEF ParseRange, Ok, Unsatisfiable, Unread, Smaller
  <2>3. CASE h.form = "from"
    <3>1. h.a \in Nat  BY <2>3, <2>1 DEF Headers
    <3>2. QED  BY <1>2, <2>1, <2>3, <3>1 DEF ParseRange, Ok, Unsatisfiable, Unread
  <2>4. CASE h.form = "span"
    <3>1. h.a \in Nat /\ h.b \in Int  BY <2>4, <2>1 DEF Headers
    <3>2. QED  BY <1>2, <2>1, <2>4, <3>1 DEF ParseRange, Ok, Unsatisfiable, Unread, Smaller
  <2>5. CASE h.form \notin {"suffix", "from", "span"}
    BY <1>2, <2>5 DEF ParseRange, Unsatisfiable, Unread
  <2>6. QED  BY <2>2, <2>3, <2>4, <2>5
<1>4. PICK st \in {200, 206, 416} : st = IF range.ok THEN 206 ELSE IF range.unsat THEN 416 ELSE 200  OBVIOUS
<1>5. PICK l \in {"leave", "read"} : l = IF range.unsat \/ stream[r].kind = "head" THEN "leave" ELSE "read"  OBVIOUS
<1>6. PICK p \in Nat : p = IF range.ok THEN range.start ELSE 0  BY <1>3
<1>7. PICK e \in -1 .. length - 1 : e = IF range.ok THEN range.end ELSE length - 1  BY <1>3, StreamFields
<1>8. PICK q : q = [stream[r] EXCEPT !.status = st, !.kind = "get", !.at = l, !.pos = p, !.last = e]  OBVIOUS
<1>9. /\ UNCHANGED <<swarmVars, pins>> /\ stream[r].at = "head"
      /\ \/ stream' = [stream EXCEPT ![r] = q]
         \/ stream' = [stream EXCEPT ![r] = [q EXCEPT !.at = "leave"]]
  BY <1>2, <1>4, <1>5, <1>6, <1>7, <1>8 DEF SendHeaders, At
<1>10. q \in StreamType
  <2>1. PICK x : x = [stream[r] EXCEPT !.status = st]  OBVIOUS
  <2>2. PICK y : y = [x EXCEPT !.kind = "get"]  OBVIOUS
  <2>3. PICK z : z = [y EXCEPT !.at = l]  OBVIOUS
  <2>4. PICK w : w = [z EXCEPT !.pos = p]  OBVIOUS
  <2>5. x \in StreamType  BY <1>1, <2>1 DEF StreamType
  <2>6. y \in StreamType  BY <2>2, <2>5, FieldSet
  <2>7. z \in StreamType  BY <2>3, <2>6, FieldSet
  <2>8. w \in StreamType  BY <2>4, <2>7 DEF StreamType
  <2>9. q = [w EXCEPT !.last = e]  BY <1>1, <1>8, <2>1, <2>2, <2>3, <2>4 DEF StreamType
  <2>10. QED  BY <2>8, <2>9 DEF StreamType
<1>11. /\ q.at = l /\ q.eng = stream[r].eng /\ q.reader = stream[r].reader
       /\ q.client = stream[r].client /\ q.watch = stream[r].watch /\ q.ctx = stream[r].ctx /\ q.started = stream[r].started
  BY <1>1, <1>8 DEF StreamType
<1>12. ~stream[r].started /\ stream[r].ctx # "cancelled"  BY <1>1, <1>9 DEF Knows
<1>13. CASE stream' = [stream EXCEPT ![r] = q]
  <2>1. CutFair(q)  BY <1>11, <1>12 DEF CutFair
  <2>2. QED  BY <1>9, <1>10, <1>11, <1>12, <1>13, <2>1, CopyStep
<1>14. CASE stream' = [stream EXCEPT ![r] = [q EXCEPT !.at = "leave"]]
  <2>1. PICK s : s = [q EXCEPT !.at = "leave"]  OBVIOUS
  <2>2. s \in StreamType  BY <1>10, <2>1, FieldSet
  <2>3. /\ s.at = "leave" /\ s.eng = stream[r].eng /\ s.reader = stream[r].reader
        /\ s.client = stream[r].client /\ s.watch = stream[r].watch /\ s.ctx = stream[r].ctx /\ s.started = stream[r].started
    BY <1>10, <1>11, <2>1 DEF StreamType
  <2>4. CutFair(s)  BY <1>12, <2>3 DEF CutFair
  <2>5. stream' = [stream EXCEPT ![r] = s]  BY <1>14, <2>1
  <2>6. QED  BY <1>9, <1>12, <2>2, <2>3, <2>4, <2>5, CopyStep
<1>15. QED  BY <1>9, <1>13, <1>14

\* The next read: the first one under the deadline.
LEMMA BeginStep ==
  ASSUME SInv, NEW r \in Streams, BeginRead(r)
  PROVE  SInv'
<1>1. stream[r] \in StreamType /\ Knows(stream[r]) /\ CutFair(stream[r])  BY StreamFields DEF SInv
<1>2. UNCHANGED <<swarmVars, pins>>  BY DEF BeginRead
<1>3. CASE /\ stream[r].at = "read" /\ stream[r].pos > stream[r].last
           /\ stream' = [stream EXCEPT ![r] = [stream[r] EXCEPT !.at = "leave"]]
  <2>1. PICK s : s = [stream[r] EXCEPT !.at = "leave"]  OBVIOUS
  <2>2. s \in StreamType  BY <1>1, <2>1, FieldSet
  <2>3. /\ s.at = "leave" /\ s.eng = stream[r].eng /\ s.reader = stream[r].reader
        /\ s.client = stream[r].client /\ s.watch = stream[r].watch /\ s.ctx = stream[r].ctx /\ s.started = stream[r].started
        /\ s.cut = stream[r].cut /\ s.pos = stream[r].pos /\ s.last = stream[r].last
    BY <1>1, <2>1 DEF StreamType
  <2>4. stream[r].pos \in Int /\ stream[r].last \in Int  BY <1>1, StreamFields DEF StreamType
  <2>5. CutFair(s)  BY <1>1, <1>3, <2>3, <2>4 DEF CutFair, Knows, Gone
  <2>6. s.ctx # "cancelled" /\ (s.started => s.ctx = "long")  BY <1>1, <1>3, <2>3 DEF Knows
  <2>7. QED  BY <1>2, <1>3, <2>1, <2>2, <2>3, <2>5, <2>6, CopyStep
<1>4. CASE /\ stream[r].at = "read" /\ stream[r].started
           /\ stream' = [stream EXCEPT ![r] = [stream[r] EXCEPT !.at = "wait", !.status = 0, !.ctx = stream[r].ctx]]
  <2>1. PICK s : s = [stream[r] EXCEPT !.at = "wait", !.status = 0, !.ctx = stream[r].ctx]  OBVIOUS
  <2>2. s \in StreamType
    <3>1. PICK x : x = [stream[r] EXCEPT !.at = "wait"]  OBVIOUS
    <3>2. x \in StreamType  BY <1>1, <3>1, FieldSet
    <3>3. PICK y : y = [x EXCEPT !.status = 0]  OBVIOUS
    <3>4. y \in StreamType  BY <3>2, <3>3, FieldSet
    <3>5. s = [y EXCEPT !.ctx = stream[r].ctx]  BY <1>1, <2>1, <3>1, <3>3 DEF StreamType
    <3>6. stream[r].ctx \in {"none", "deadline", "long", "cancelled"}  BY <1>1 DEF StreamType
    <3>7. QED  BY <3>4, <3>5, <3>6, FieldSet
  <2>3. /\ s.at = "wait" /\ s.eng = stream[r].eng /\ s.reader = stream[r].reader
        /\ s.client = stream[r].client /\ s.watch = stream[r].watch /\ s.ctx = stream[r].ctx /\ s.started = stream[r].started
        /\ s.cut = stream[r].cut /\ s.pos = stream[r].pos /\ s.last = stream[r].last
    BY <1>1, <2>1 DEF StreamType
  <2>4. CutFair(s)  BY <1>1, <1>4, <2>3 DEF CutFair, Knows, Gone
  <2>5. s.ctx # "cancelled" /\ (s.started => s.ctx = "long")  BY <1>1, <1>4, <2>3 DEF Knows
  <2>6. QED  BY <1>2, <1>4, <2>1, <2>2, <2>3, <2>4, <2>5, CopyStep
<1>5. CASE /\ stream[r].at = "read" /\ ~stream[r].started
           /\ stream' = [stream EXCEPT ![r] = [stream[r] EXCEPT !.at = "wait", !.status = 0, !.ctx = "deadline"]]
  <2>1. PICK s : s = [stream[r] EXCEPT !.at = "wait", !.status = 0, !.ctx = "deadline"]  OBVIOUS
  <2>2. s \in StreamType
    <3>1. PICK x : x = [stream[r] EXCEPT !.at = "wait"]  OBVIOUS
    <3>2. x \in StreamType  BY <1>1, <3>1, FieldSet
    <3>3. PICK y : y = [x EXCEPT !.status = 0]  OBVIOUS
    <3>4. y \in StreamType  BY <3>2, <3>3, FieldSet
    <3>5. s = [y EXCEPT !.ctx = "deadline"]  BY <1>1, <2>1, <3>1, <3>3 DEF StreamType
    <3>6. QED  BY <3>4, <3>5, FieldSet
  <2>3. /\ s.at = "wait" /\ s.eng = stream[r].eng /\ s.reader = stream[r].reader
        /\ s.client = stream[r].client /\ s.watch = stream[r].watch /\ s.ctx = "deadline" /\ s.started = stream[r].started
        /\ s.cut = stream[r].cut /\ s.pos = stream[r].pos /\ s.last = stream[r].last
    BY <1>1, <2>1 DEF StreamType
  <2>4. CutFair(s)  BY <1>1, <1>5, <2>3 DEF CutFair, Knows, Gone
  <2>5. s.ctx # "cancelled" /\ (s.started => s.ctx = "long")  BY <1>1, <1>5, <2>3 DEF Knows
  <2>6. QED  BY <1>2, <1>5, <2>1, <2>2, <2>3, <2>4, <2>5, CopyStep
<1>6. QED  BY <1>3, <1>4, <1>5, StreamFields DEF BeginRead, At

\* A byte comes: the long-lived context from now on.
LEMMA ByteStep ==
  ASSUME SInv, NEW r \in Streams, ReadByte(r)
  PROVE  SInv'
<1>1. stream[r] \in StreamType /\ Knows(stream[r]) /\ CutFair(stream[r])  BY StreamFields DEF SInv
<1>2. UNCHANGED <<swarmVars, pins>>  BY DEF ReadByte
<1>3. CASE /\ stream[r].at = "wait"
           /\ stream' = [stream EXCEPT ![r] = [stream[r] EXCEPT !.at = "write", !.started = TRUE, !.ctx = "long"]]
  <2>1. PICK s : s = [stream[r] EXCEPT !.at = "write", !.started = TRUE, !.ctx = "long"]  OBVIOUS
  <2>2. s \in StreamType
    <3>1. PICK x : x = [stream[r] EXCEPT !.at = "write"]  OBVIOUS
    <3>2. x \in StreamType  BY <1>1, <3>1, FieldSet
    <3>3. PICK y : y = [x EXCEPT !.started = TRUE]  OBVIOUS
    <3>4. y \in StreamType  BY <3>2, <3>3, FieldSet
    <3>5. s = [y EXCEPT !.ctx = "long"]  BY <1>1, <2>1, <3>1, <3>3 DEF StreamType
    <3>6. QED  BY <3>4, <3>5, FieldSet
  <2>3. /\ s.at = "write" /\ s.eng = stream[r].eng /\ s.reader = stream[r].reader
        /\ s.client = stream[r].client /\ s.watch = stream[r].watch /\ s.ctx = "long" /\ s.started = TRUE
        /\ s.cut = stream[r].cut /\ s.pos = stream[r].pos /\ s.last = stream[r].last
    BY <1>1, <2>1 DEF StreamType
  <2>4. CutFair(s)  BY <1>1, <1>3, <2>3 DEF CutFair, Knows, Gone
  <2>5. s.ctx # "cancelled" /\ (s.started => s.ctx = "long")  BY <1>1, <1>3, <2>3 DEF Knows
  <2>6. QED  BY <1>2, <1>3, <2>1, <2>2, <2>3, <2>4, <2>5, CopyStep
<1>4. QED  BY <1>3, StreamFields DEF ReadByte, At, Promoted

\* A read fails: the reader was closed by the watcher, or the torrent is gone.
LEMMA FailsStep ==
  ASSUME SInv, NEW r \in Streams, ReaderFails(r)
  PROVE  SInv'
<1>1. stream[r] \in StreamType /\ Knows(stream[r]) /\ CutFair(stream[r])  BY StreamFields DEF SInv
<1>2. UNCHANGED <<swarmVars, pins>>  BY DEF ReaderFails
<1>3. CASE /\ stream[r].at = "wait" /\ stream[r].reader = "closed"
           /\ stream' = [stream EXCEPT ![r] = [stream[r] EXCEPT !.at = "leave", !.cut = "closed"]]
  <2>1. PICK s : s = [stream[r] EXCEPT !.at = "leave", !.cut = "closed"]  OBVIOUS
  <2>2. s \in StreamType
    <3>1. PICK x : x = [stream[r] EXCEPT !.at = "leave"]  OBVIOUS
    <3>2. x \in StreamType  BY <1>1, <3>1, FieldSet
    <3>3. s = [x EXCEPT !.cut = "closed"]  BY <1>1, <2>1, <3>1 DEF StreamType
    <3>4. QED  BY <3>2, <3>3, FieldSet
  <2>3. /\ s.at = "leave" /\ s.eng = stream[r].eng /\ s.reader = stream[r].reader
        /\ s.client = stream[r].client /\ s.watch = stream[r].watch /\ s.ctx = stream[r].ctx /\ s.started = stream[r].started
        /\ s.cut = "closed" /\ s.pos = stream[r].pos /\ s.last = stream[r].last
    BY <1>1, <2>1 DEF StreamType
  <2>4. CutFair(s)  BY <1>1, <1>3, <2>3 DEF CutFair, Knows, Gone
  <2>5. s.ctx # "cancelled" /\ (s.started => s.ctx = "long")  BY <1>1, <1>3, <2>3 DEF Knows
  <2>6. QED  BY <1>2, <1>3, <2>1, <2>2, <2>3, <2>4, <2>5, CopyStep
<1>4. CASE /\ stream[r].at = "wait" /\ Gone(r)
           /\ stream' = [stream EXCEPT ![r] = [stream[r] EXCEPT !.at = "leave", !.cut = "removed"]]
  <2>1. PICK s : s = [stream[r] EXCEPT !.at = "leave", !.cut = "removed"]  OBVIOUS
  <2>2. s \in StreamType
    <3>1. PICK x : x = [stream[r] EXCEPT !.at = "leave"]  OBVIOUS
    <3>2. x \in StreamType  BY <1>1, <3>1, FieldSet
    <3>3. s = [x EXCEPT !.cut = "removed"]  BY <1>1, <2>1, <3>1 DEF StreamType
    <3>4. QED  BY <3>2, <3>3, FieldSet
  <2>3. /\ s.at = "leave" /\ s.eng = stream[r].eng /\ s.reader = stream[r].reader
        /\ s.client = stream[r].client /\ s.watch = stream[r].watch /\ s.ctx = stream[r].ctx /\ s.started = stream[r].started
        /\ s.cut = "removed" /\ s.pos = stream[r].pos /\ s.last = stream[r].last
    BY <1>1, <2>1 DEF StreamType
  <2>4. CutFair(s)  BY <1>1, <1>4, <2>3 DEF CutFair, Knows, Gone
  <2>5. s.ctx # "cancelled" /\ (s.started => s.ctx = "long")  BY <1>1, <1>4, <2>3 DEF Knows
  <2>6. QED  BY <1>2, <1>4, <2>1, <2>2, <2>3, <2>4, <2>5, CopyStep
<1>5. CASE /\ stream[r].at = "wait" /\ stream[r].ctx = "cancelled"
           /\ stream' = [stream EXCEPT ![r] = [stream[r] EXCEPT !.at = "leave", !.cut = "context"]]
  <2>1. PICK s : s = [stream[r] EXCEPT !.at = "leave", !.cut = "context"]  OBVIOUS
  <2>2. s \in StreamType
    <3>1. PICK x : x = [stream[r] EXCEPT !.at = "leave"]  OBVIOUS
    <3>2. x \in StreamType  BY <1>1, <3>1, FieldSet
    <3>3. s = [x EXCEPT !.cut = "context"]  BY <1>1, <2>1, <3>1 DEF StreamType
    <3>4. QED  BY <3>2, <3>3, FieldSet
  <2>3. /\ s.at = "leave" /\ s.eng = stream[r].eng /\ s.reader = stream[r].reader
        /\ s.client = stream[r].client /\ s.watch = stream[r].watch /\ s.ctx = stream[r].ctx /\ s.started = stream[r].started
        /\ s.cut = "context" /\ s.pos = stream[r].pos /\ s.last = stream[r].last
    BY <1>1, <2>1 DEF StreamType
  <2>4. CutFair(s)  BY <1>1, <1>5, <2>3 DEF CutFair, Knows, Gone
  <2>5. s.ctx # "cancelled" /\ (s.started => s.ctx = "long")  BY <1>1, <1>5, <2>3 DEF Knows
  <2>6. QED  BY <1>2, <1>5, <2>1, <2>2, <2>3, <2>4, <2>5, CopyStep
<1>6. QED  BY <1>3, <1>4, <1>5, StreamFields DEF ReaderFails, At

\* The deadline of the first read: no byte has come.
LEMMA DeadlineStep ==
  ASSUME SInv, NEW r \in Streams, StartupTimeout(r)
  PROVE  SInv'
<1>1. stream[r] \in StreamType /\ Knows(stream[r]) /\ CutFair(stream[r])  BY StreamFields DEF SInv
<1>2. UNCHANGED <<swarmVars, pins>>  BY DEF StartupTimeout
<1>3. CASE /\ stream[r].at = "wait" /\ stream[r].ctx = "deadline"
           /\ stream' = [stream EXCEPT ![r] = [stream[r] EXCEPT !.at = "leave", !.cut = "deadline"]]
  <2>1. PICK s : s = [stream[r] EXCEPT !.at = "leave", !.cut = "deadline"]  OBVIOUS
  <2>2. s \in StreamType
    <3>1. PICK x : x = [stream[r] EXCEPT !.at = "leave"]  OBVIOUS
    <3>2. x \in StreamType  BY <1>1, <3>1, FieldSet
    <3>3. s = [x EXCEPT !.cut = "deadline"]  BY <1>1, <2>1, <3>1 DEF StreamType
    <3>4. QED  BY <3>2, <3>3, FieldSet
  <2>3. /\ s.at = "leave" /\ s.eng = stream[r].eng /\ s.reader = stream[r].reader
        /\ s.client = stream[r].client /\ s.watch = stream[r].watch /\ s.ctx = stream[r].ctx /\ s.started = stream[r].started
        /\ s.cut = "deadline" /\ s.pos = stream[r].pos /\ s.last = stream[r].last
    BY <1>1, <2>1 DEF StreamType
  <2>4. CutFair(s)  BY <1>1, <1>3, <2>3 DEF CutFair, Knows, Gone
  <2>5. s.ctx # "cancelled" /\ (s.started => s.ctx = "long")  BY <1>1, <1>3, <2>3 DEF Knows
  <2>6. QED  BY <1>2, <1>3, <2>1, <2>2, <2>3, <2>4, <2>5, CopyStep
<1>4. QED  BY <1>3, StreamFields DEF StartupTimeout, At

\* A byte is written, or the client is gone or idle.
LEMMA WriteStep ==
  ASSUME SInv, NEW r \in Streams, WriteByte(r) \/ WriteTimeout(r)
  PROVE  SInv'
<1>1. stream[r] \in StreamType /\ Knows(stream[r]) /\ CutFair(stream[r])  BY StreamFields DEF SInv
<1>2. UNCHANGED <<swarmVars, pins>>  BY DEF WriteByte, WriteTimeout
<1>3. CASE /\ stream[r].at = "write"
           /\ stream' = [stream EXCEPT ![r] = [stream[r] EXCEPT !.at = "read", !.pos = stream[r].pos + 1]]
  <2>1. PICK s : s = [stream[r] EXCEPT !.at = "read", !.pos = stream[r].pos + 1]  OBVIOUS
  <2>2. s \in StreamType
    <3>1. PICK x : x = [stream[r] EXCEPT !.at = "read"]  OBVIOUS
    <3>2. x \in StreamType  BY <1>1, <3>1, FieldSet
    <3>3. s = [x EXCEPT !.pos = stream[r].pos + 1]  BY <1>1, <2>1, <3>1 DEF StreamType
    <3>4. stream[r].pos + 1 \in Nat  BY <1>1 DEF StreamType
    <3>5. QED  BY <3>2, <3>3, <3>4, FieldSet
  <2>3. /\ s.at = "read" /\ s.eng = stream[r].eng /\ s.reader = stream[r].reader
        /\ s.client = stream[r].client /\ s.watch = stream[r].watch /\ s.ctx = stream[r].ctx /\ s.started = stream[r].started
        /\ s.cut = stream[r].cut /\ s.pos = stream[r].pos + 1 /\ s.last = stream[r].last
    BY <1>1, <2>1 DEF StreamType
  <2>4. CutFair(s)  BY <1>1, <1>3, <2>3 DEF CutFair, Knows, Gone
  <2>5. s.ctx # "cancelled" /\ (s.started => s.ctx = "long")  BY <1>1, <1>3, <2>3 DEF Knows
  <2>6. QED  BY <1>2, <1>3, <2>1, <2>2, <2>3, <2>4, <2>5, CopyStep
<1>4. CASE /\ stream[r].at = "write" /\ stream[r].client = "gone"
           /\ stream' = [stream EXCEPT ![r] = [stream[r] EXCEPT !.at = "leave", !.cut = "client"]]
  <2>1. PICK s : s = [stream[r] EXCEPT !.at = "leave", !.cut = "client"]  OBVIOUS
  <2>2. s \in StreamType
    <3>1. PICK x : x = [stream[r] EXCEPT !.at = "leave"]  OBVIOUS
    <3>2. x \in StreamType  BY <1>1, <3>1, FieldSet
    <3>3. s = [x EXCEPT !.cut = "client"]  BY <1>1, <2>1, <3>1 DEF StreamType
    <3>4. QED  BY <3>2, <3>3, FieldSet
  <2>3. /\ s.at = "leave" /\ s.eng = stream[r].eng /\ s.reader = stream[r].reader
        /\ s.client = stream[r].client /\ s.watch = stream[r].watch /\ s.ctx = stream[r].ctx /\ s.started = stream[r].started
        /\ s.cut = "client" /\ s.pos = stream[r].pos /\ s.last = stream[r].last
    BY <1>1, <2>1 DEF StreamType
  <2>4. CutFair(s)  BY <1>1, <1>4, <2>3 DEF CutFair, Knows, Gone
  <2>5. s.ctx # "cancelled" /\ (s.started => s.ctx = "long")  BY <1>1, <1>4, <2>3 DEF Knows
  <2>6. QED  BY <1>2, <1>4, <2>1, <2>2, <2>3, <2>4, <2>5, CopyStep
<1>5. CASE /\ stream[r].at = "write"
           /\ stream' = [stream EXCEPT ![r] = [stream[r] EXCEPT !.at = "leave", !.cut = "idle"]]
  <2>1. PICK s : s = [stream[r] EXCEPT !.at = "leave", !.cut = "idle"]  OBVIOUS
  <2>2. s \in StreamType
    <3>1. PICK x : x = [stream[r] EXCEPT !.at = "leave"]  OBVIOUS
    <3>2. x \in StreamType  BY <1>1, <3>1, FieldSet
    <3>3. s = [x EXCEPT !.cut = "idle"]  BY <1>1, <2>1, <3>1 DEF StreamType
    <3>4. QED  BY <3>2, <3>3, FieldSet
  <2>3. /\ s.at = "leave" /\ s.eng = stream[r].eng /\ s.reader = stream[r].reader
        /\ s.client = stream[r].client /\ s.watch = stream[r].watch /\ s.ctx = stream[r].ctx /\ s.started = stream[r].started
        /\ s.cut = "idle" /\ s.pos = stream[r].pos /\ s.last = stream[r].last
    BY <1>1, <2>1 DEF StreamType
  <2>4. CutFair(s)  BY <1>1, <1>5, <2>3 DEF CutFair, Knows, Gone
  <2>5. s.ctx # "cancelled" /\ (s.started => s.ctx = "long")  BY <1>1, <1>5, <2>3 DEF Knows
  <2>6. QED  BY <1>2, <1>5, <2>1, <2>2, <2>3, <2>4, <2>5, CopyStep
<1>6. QED  BY <1>3, <1>4, <1>5, StreamFields DEF WriteByte, WriteTimeout, At

\* The handler retires its watcher.
LEMMA RetireStep ==
  ASSUME SInv, NEW r \in Streams, Retire(r)
  PROVE  SInv'
<1>1. stream[r] \in StreamType /\ Knows(stream[r]) /\ CutFair(stream[r])  BY StreamFields DEF SInv
<1>2. UNCHANGED <<swarmVars, pins>>  BY DEF Retire
<1>3. CASE /\ stream[r].at = "leave"
           /\ stream' = [stream EXCEPT ![r] = [stream[r] EXCEPT !.at = "close", !.watch = "off"]]
  <2>1. PICK s : s = [stream[r] EXCEPT !.at = "close", !.watch = "off"]  OBVIOUS
  <2>2. s \in StreamType
    <3>1. PICK x : x = [stream[r] EXCEPT !.at = "close"]  OBVIOUS
    <3>2. x \in StreamType  BY <1>1, <3>1, FieldSet
    <3>3. s = [x EXCEPT !.watch = "off"]  BY <1>1, <2>1, <3>1 DEF StreamType
    <3>4. QED  BY <3>2, <3>3, FieldSet
  <2>3. /\ s.at = "close" /\ s.eng = stream[r].eng /\ s.reader = stream[r].reader
        /\ s.client = stream[r].client /\ s.watch = "off" /\ s.ctx = stream[r].ctx /\ s.started = stream[r].started
        /\ s.cut = stream[r].cut /\ s.pos = stream[r].pos /\ s.last = stream[r].last
    BY <1>1, <2>1 DEF StreamType
  <2>4. CutFair(s)  BY <1>1, <1>3, <2>3 DEF CutFair, Knows, Gone
  <2>5. s.ctx # "cancelled" /\ (s.started => s.ctx = "long")  BY <1>1, <1>3, <2>3 DEF Knows
  <2>6. QED  BY <1>2, <1>3, <2>1, <2>2, <2>3, <2>4, <2>5, CopyStep
<1>4. QED  BY <1>3, StreamFields DEF Retire, At

-----------------------------------------------------------------------------
\* A reader is opened and pins its engine.
LEMMA OpenStep ==
  ASSUME SInv, NEW r \in Streams, NewReader(r)
  PROVE  SInv'
<1>1. stream[r] \in StreamType /\ Knows(stream[r])  BY StreamFields DEF SInv
<1>2. PICK i : i = stream[r].eng  OBVIOUS
<1>3. PICK s : s = [stream[r] EXCEPT !.at = "head", !.reader = "open", !.watch = "on"]  OBVIOUS
<1>4. /\ UNCHANGED swarmVars /\ stream[r].at = "open" /\ pins' = [pins EXCEPT ![i] = @ + 1]
      /\ stream' = [stream EXCEPT ![r] = s]
  BY <1>2, <1>3 DEF NewReader, At
<1>5. s \in StreamType
  <2>1. PICK x : x = [stream[r] EXCEPT !.at = "head"]  OBVIOUS
  <2>2. PICK y : y = [x EXCEPT !.reader = "open"]  OBVIOUS
  <2>3. x \in StreamType  BY <1>1, <2>1 DEF StreamType
  <2>4. y \in StreamType  BY <2>2, <2>3 DEF StreamType
  <2>5. s = [y EXCEPT !.watch = "on"]  BY <1>1, <1>3, <2>1, <2>2 DEF StreamType
  <2>6. QED  BY <2>4, <2>5 DEF StreamType
<1>6. /\ s.at = "head" /\ s.reader = "open" /\ s.watch = "on" /\ s.eng = i /\ s.started = stream[r].started
      /\ s.ctx = stream[r].ctx
  BY <1>1, <1>2, <1>3 DEF StreamType
<1>7. i \in 1 .. MaxRemovals + 1 /\ i \in Instances
  <2>1. i \in 0 .. MaxRemovals + 1  BY <1>1, <1>2 DEF StreamType
  <2>2. i >= 1  BY <1>1, <1>2, <1>4 DEF Knows
  <2>3. QED  BY <2>1, <2>2 DEF Instances
<1>8. Knows(s) /\ CutFair(s)  BY <1>1, <1>2, <1>4, <1>6 DEF Knows, CutFair
<1>9. pins' \in [Instances -> Int]
  <2>1. pins \in [Instances -> Int]  BY StreamFields
  <2>2. QED  BY <1>4, <1>7, <2>1
<1>10. PinsExact'
  <2> SUFFICES ASSUME NEW j \in Instances PROVE pins'[j] = Cardinality(Readers(j)')
    BY DEF PinsExact, Readers
  <2>1. PICK S : S = Readers(j)  OBVIOUS
  <2>2. stream[r].reader # "open"  BY <1>1, <1>4 DEF Knows
  <2>3. \A q \in Streams : stream'[q] = IF q = r THEN s ELSE stream[q]  BY <1>4, StreamFields
  <2>4. pins[j] = Cardinality(S) /\ IsFiniteSet(S)  BY <2>1, StreamFields
  <2>5. CASE j # i
    <3>1. Readers(j)' = S  BY <1>6, <2>1, <2>2, <2>3, <2>5 DEF Readers
    <3>2. QED  BY <1>4, <2>4, <2>5, <3>1, StreamFields
  <2>6. CASE j = i
    <3>1. Readers(j)' = S \cup {r} /\ r \notin S  BY <1>6, <2>1, <2>2, <2>3, <2>6 DEF Readers
    <3>2. Cardinality(S \cup {r}) = Cardinality(S) + 1  BY ONLY <2>4, <3>1, FS_AddElement
    <3>3. pins'[j] = pins[j] + 1  BY <1>4, <1>7, <2>6, StreamFields
    <3>4. QED  BY <2>4, <3>1, <3>2, <3>3
  <2>7. QED  BY <2>5, <2>6
<1>11. QED  BY <1>4, <1>5, <1>8, <1>9, <1>10, OneStream

\* A reader is closed, by the watcher or by the handler: the pin goes if it was open.
LEMMA CloseStep ==
  ASSUME SInv, NEW r \in Streams, NEW s \in StreamType, UNCHANGED swarmVars, Unpin(r),
         stream' = [stream EXCEPT ![r] = s], Knows(s), CutFair(s), s.reader # "open"
  PROVE  SInv'
<1>1. stream[r] \in StreamType /\ Knows(stream[r])  BY StreamFields DEF SInv
<1>2. PICK i : i = stream[r].eng  OBVIOUS
<1>3. pins' = [pins EXCEPT ![i] = IF stream[r].reader = "open" THEN @ - 1 ELSE @]  BY <1>2 DEF Unpin
<1>4. stream[r].reader = "open" => i \in Instances
  <2>1. i \in 0 .. MaxRemovals + 1  BY <1>1, <1>2 DEF StreamType
  <2>2. stream[r].reader = "open" => i >= 1  BY <1>1, <1>2 DEF Knows
  <2>3. QED  BY <2>1, <2>2 DEF Instances
<1>5. pins' \in [Instances -> Int]
  <2>1. pins \in [Instances -> Int]  BY StreamFields
  <2>2. CASE i \in Instances
    <3>1. pins[i] \in Int  BY <2>1, <2>2
    <3>2. QED  BY <1>3, <2>1, <2>2, <3>1
  <2>3. CASE i \notin Instances  BY <1>3, <1>4, <2>1, <2>3
  <2>4. QED  BY <2>2, <2>3
<1>6. PinsExact'
  <2> SUFFICES ASSUME NEW j \in Instances PROVE pins'[j] = Cardinality(Readers(j)')
    BY DEF PinsExact, Readers
  <2>1. PICK S : S = Readers(j)  OBVIOUS
  <2>2. \A q \in Streams : stream'[q] = IF q = r THEN s ELSE stream[q]  BY StreamFields
  <2>3. pins[j] = Cardinality(S) /\ IsFiniteSet(S)  BY <2>1, StreamFields
  <2>4. CASE j # i \/ stream[r].reader # "open"
    <3>1. Readers(j)' = S  BY <1>2, <2>1, <2>2, <2>4 DEF Readers
    <3>2. pins'[j] = pins[j]  BY <1>3, <2>4, StreamFields
    <3>3. QED  BY <2>3, <3>1, <3>2
  <2>5. CASE j = i /\ stream[r].reader = "open"
    <3>1. Readers(j)' = S \ {r} /\ r \in S  BY <1>2, <2>1, <2>2, <2>5 DEF Readers
    <3>2. Cardinality(S \ {r}) = Cardinality(S) - 1  BY ONLY <2>3, <3>1, FS_RemoveElement
    <3>3. pins'[j] = pins[j] - 1  BY <1>3, <2>5, StreamFields
    <3>4. QED  BY <2>3, <3>1, <3>2, <3>3
  <2>6. QED  BY <2>4, <2>5
<1>7. QED  BY <1>5, <1>6, OneStream

\* The watcher of a client that has gone.
LEMMA WatchStep ==
  ASSUME SInv, NEW r \in Streams, Watch(r)
  PROVE  SInv'
<1>1. stream[r] \in StreamType /\ Knows(stream[r]) /\ CutFair(stream[r])  BY StreamFields DEF SInv
<1>2. PICK s : s = [stream[r] EXCEPT !.watch = "off", !.reader = "closed"]  OBVIOUS
<1>3. /\ UNCHANGED swarmVars /\ stream[r].watch = "on" /\ stream[r].client = "gone" /\ Unpin(r)
      /\ stream' = [stream EXCEPT ![r] = s]
  BY <1>2, StreamFields DEF Watch
<1>4. s \in StreamType
  <2>1. PICK x : x = [stream[r] EXCEPT !.watch = "off"]  OBVIOUS
  <2>2. x \in StreamType  BY <1>1, <2>1 DEF StreamType
  <2>3. s = [x EXCEPT !.reader = "closed"]  BY <1>1, <1>2, <2>1 DEF StreamType
  <2>4. QED  BY <2>2, <2>3 DEF StreamType
<1>5. /\ s.reader = "closed" /\ s.watch = "off" /\ s.at = stream[r].at /\ s.eng = stream[r].eng
      /\ s.client = stream[r].client /\ s.started = stream[r].started /\ s.ctx = stream[r].ctx
  BY <1>1, <1>2 DEF StreamType
<1>6. stream[r].reader = "open"  BY <1>1, <1>3 DEF Knows
<1>7. Knows(s) /\ CutFair(s)  BY <1>1, <1>3, <1>5, <1>6 DEF Knows, CutFair
<1>8. QED  BY <1>3, <1>4, <1>5, <1>7, CloseStep

\* The handler's own close.
LEMMA CloseReaderStep ==
  ASSUME SInv, NEW r \in Streams, CloseReader(r)
  PROVE  SInv'
<1>1. UNCHANGED swarmVars /\ Unpin(r) /\ stream' = [stream EXCEPT ![r] = Fresh("end")]  BY DEF CloseReader
<1>2. QED  BY <1>1, FreshKnows, CloseStep

-----------------------------------------------------------------------------
\* A set of integers that has the members of an interval is the interval.
LEMMA IsInterval ==
  ASSUME NEW S, S \subseteq Int, NEW a \in Int, NEW b \in Int, \A i \in Int : i \in S <=> a <= i /\ i <= b
  PROVE  a .. b = S
<1>1. a .. b \subseteq S  OBVIOUS
<1>2. S \subseteq a .. b  OBVIOUS
<1>3. QED  BY <1>1, <1>2

\* parseRange, for every file and every header: a range it gives is what the header names,
\* and it finds a header unsatisfiable only if it names nothing.
LEMMA RangeIsNamed ==
  ASSUME length \in Nat, NEW h \in Headers(length)
  PROVE  /\ ParseRange(h, length).ok =>
              /\ ParseRange(h, length).start .. ParseRange(h, length).end = Named(h) /\ Named(h) # {}
         /\ ParseRange(h, length).unsat => Named(h) = {}
<1>1. PICK range : range = ParseRange(h, length)  OBVIOUS
<1>2. CASE h.form = "suffix"
  <2>1. h.a \in Int  BY <1>2 DEF Headers
  <2>2. Named(h) = {i \in 0 .. length - 1 : i >= length - h.a}  BY <1>2 DEF Named
  <2>3. CASE h.a <= 0 \/ length = 0
    <3>1. range.unsat /\ ~range.ok  BY <1>1, <1>2, <2>3 DEF ParseRange, Unsatisfiable, Unread
    <3>2. Named(h) = {}  BY <2>1, <2>2, <2>3
    <3>3. QED  BY <1>1, <3>1, <3>2
  <2>4. CASE h.a > 0 /\ length # 0
    <3>1. range = Ok(length - Smaller(h.a, length), length - 1)  BY <1>1, <1>2, <2>1, <2>4 DEF ParseRange
    <3>2. /\ ~range.unsat /\ range.end = length - 1
          /\ range.start = IF h.a < length THEN length - h.a ELSE 0
      BY <2>1, <3>1 DEF Ok, Smaller
    <3>3. \A i \in Int : i \in Named(h) <=> range.start <= i /\ i <= length - 1  BY <2>1, <2>2, <2>4, <3>2
    <3>4. Named(h) \subseteq Int /\ range.start \in Int  BY <2>1, <2>2, <3>2
    <3>5. range.start .. range.end = Named(h)
      <4>1. PICK a \in Int, b \in Int : a = range.start /\ b = range.end  BY <3>2, <3>4
      <4>2. \A i \in Int : i \in Named(h) <=> a <= i /\ i <= b  BY <3>2, <3>3, <4>1
      <4>3. a .. b = Named(h)  BY <3>4, <4>2, IsInterval
      <4>4. QED  BY <4>1, <4>3
    <3>6. length - 1 \in Named(h)  BY <2>1, <2>2, <2>4
    <3>7. QED  BY <1>1, <3>2, <3>5, <3>6
  <2>5. QED  BY <2>1, <2>3, <2>4
<1>3. CASE h.form = "from"
  <2>1. h.a \in Nat  BY <1>3 DEF Headers
  <2>2. Named(h) = {i \in 0 .. length - 1 : i >= h.a}  BY <1>3 DEF Named
  <2>3. CASE h.a >= length
    <3>1. range.unsat /\ ~range.ok  BY <1>1, <1>3, <2>3 DEF ParseRange, Unsatisfiable, Unread
    <3>2. Named(h) = {}  BY <2>1, <2>2, <2>3
    <3>3. QED  BY <1>1, <3>1, <3>2
  <2>4. CASE h.a < length
    <3>1. range = Ok(h.a, length - 1)  BY <1>1, <1>3, <2>1, <2>4 DEF ParseRange
    <3>2. ~range.unsat /\ range.end = length - 1 /\ range.start = h.a  BY <3>1 DEF Ok
    <3>3. range.start .. range.end = Named(h)  BY <2>1, <2>2, <3>2
    <3>4. h.a \in Named(h)  BY <2>1, <2>2, <2>4
    <3>5. QED  BY <1>1, <3>2, <3>3, <3>4
  <2>5. QED  BY <2>1, <2>3, <2>4
<1>4. CASE h.form = "span"
  <2>1. h.a \in Nat /\ h.b \in Int  BY <1>4 DEF Headers
  <2>2. Named(h) = {i \in 0 .. length - 1 : h.a <= i /\ i <= h.b}  BY <1>4 DEF Named
  <2>3. CASE h.a >= length \/ h.b < h.a
    <3>1. range.unsat /\ ~range.ok  BY <1>1, <1>4, <2>3 DEF ParseRange, Unsatisfiable, Unread
    <3>2. Named(h) = {}  BY <2>1, <2>2, <2>3
    <3>3. QED  BY <1>1, <3>1, <3>2
  <2>4. CASE h.a < length /\ h.b >= h.a
    <3>1. range = Ok(h.a, Smaller(h.b, length - 1))  BY <1>1, <1>4, <2>1, <2>4 DEF ParseRange
    <3>2. /\ ~range.unsat /\ range.start = h.a
          /\ range.end = IF h.b < length - 1 THEN h.b ELSE length - 1
      BY <3>1 DEF Ok, Smaller
    <3>3. \A i \in Int : i \in Named(h) <=> h.a <= i /\ i <= range.end  BY <2>1, <2>2, <2>4, <3>2
    <3>4. Named(h) \subseteq Int /\ range.end \in Int  BY <2>1, <2>2, <3>2
    <3>5. range.start .. range.end = Named(h)
      <4>1. PICK a \in Int, b \in Int : a = range.start /\ b = range.end  BY <2>1, <3>2, <3>4
      <4>2. \A i \in Int : i \in Named(h) <=> a <= i /\ i <= b  BY <3>2, <3>3, <4>1
      <4>3. a .. b = Named(h)  BY <3>4, <4>2, IsInterval
      <4>4. QED  BY <4>1, <4>3
    <3>6. h.a \in Named(h)  BY <2>1, <2>2, <2>4
    <3>7. QED  BY <1>1, <3>2, <3>5, <3>6
  <2>5. QED  BY <2>1, <2>3, <2>4
<1>5. CASE h.form = "badEnd"
  <2>1. h.a \in Nat  BY <1>5 DEF Headers
  <2>2. ~range.ok /\ (range.unsat => h.a >= length)  BY <1>1, <1>5 DEF ParseRange, Unsatisfiable, Unread
  <2>3. Named(h) = {i \in 0 .. length - 1 : i >= h.a}  BY <1>5 DEF Named
  <2>4. h.a >= length => Named(h) = {}  BY <2>1, <2>3
  <2>5. QED  BY <1>1, <2>2, <2>4
<1>6. CASE h.form \notin {"suffix", "from", "span", "badEnd"}
  <2>1. ~range.ok /\ ~range.unsat  BY <1>1, <1>6 DEF ParseRange, Unread
  <2>2. QED  BY <1>1, <2>1
<1>7. QED  BY <1>2, <1>3, <1>4, <1>5, <1>6

\* The answers to a Range header.
RangeAnswers ==
  \A r \in Streams : At(r, "head") => \A h \in Headers(length) : SendHeaders(r, h) =>
    /\ stream'[r].status = 206 => stream'[r].pos .. stream'[r].last = Named(h) /\ Named(h) # {}
    /\ stream'[r].status = 416 => Named(h) = {}

\* One step of ServesTheRange.
ServeStep == StreamsTypeOK' /\ PinsExact' /\ NoFalseCut' /\ RangeAnswers

\* The status and the bytes of an answer are those of its range.
LEMMA AnswersNamed == SInv => RangeAnswers
<1> SUFFICES ASSUME SInv, NEW r \in Streams, NEW h \in Headers(length), SendHeaders(r, h)
             PROVE  /\ stream'[r].status = 206 => stream'[r].pos .. stream'[r].last = Named(h) /\ Named(h) # {}
                    /\ stream'[r].status = 416 => Named(h) = {}
  BY DEF RangeAnswers
<1>1. PICK range : range = ParseRange(h, length)  OBVIOUS
<1>2. stream[r] \in StreamType  BY StreamFields
<1>3. PICK st : st = IF range.ok THEN 206 ELSE IF range.unsat THEN 416 ELSE 200  OBVIOUS
<1>4. PICK p : p = IF range.ok THEN range.start ELSE 0  OBVIOUS
<1>5. PICK e : e = IF range.ok THEN range.end ELSE length - 1  OBVIOUS
<1>6. PICK l : l = IF range.unsat \/ stream[r].kind = "head" THEN "leave" ELSE "read"  OBVIOUS
<1>7. PICK q : q = [stream[r] EXCEPT !.status = st, !.kind = "get", !.at = l, !.pos = p, !.last = e]  OBVIOUS
<1>8. stream'[r] = q \/ stream'[r] = [q EXCEPT !.at = "leave"]
  <2>1. \/ stream' = [stream EXCEPT ![r] = q]
        \/ stream' = [stream EXCEPT ![r] = [q EXCEPT !.at = "leave"]]
    BY <1>1, <1>3, <1>4, <1>5, <1>6, <1>7 DEF SendHeaders
  <2>2. QED  BY <2>1, StreamFields
<1>9. q.status = st /\ q.pos = p /\ q.last = e  BY <1>2, <1>7 DEF StreamType
<1>10. [q EXCEPT !.at = "leave"].status = st /\ [q EXCEPT !.at = "leave"].pos = p /\ [q EXCEPT !.at = "leave"].last = e
  BY <1>2, <1>7 DEF StreamType
<1>11. stream'[r].status = st /\ stream'[r].pos = p /\ stream'[r].last = e  BY <1>8, <1>9, <1>10
<1>12. /\ range.ok => range.start .. range.end = Named(h) /\ Named(h) # {}
       /\ range.unsat => Named(h) = {}
  BY <1>1, RangeIsNamed, StreamFields
<1>13. (st = 206 => range.ok) /\ (st = 416 => range.unsat)  BY <1>3
<1>14. QED  BY <1>4, <1>5, <1>11, <1>12, <1>13

\* The invariant holds at first, and every step keeps it.
LEMMA StreamSteps ==
  /\ StreamInit => SInv
  /\ SInv /\ [StreamNext]_streamVars => SInv'
<1>1. ASSUME StreamInit PROVE SInv
  <2>1. /\ length \in FileLengths /\ removals = 0 /\ hasMeta = FALSE /\ have = {} /\ pins = [i \in Instances |-> 0]
        /\ stream = [r \in Streams |-> Fresh("idle")]
    BY <1>1 DEF StreamInit
  <2>2. PICK f : f = Fresh("idle")  OBVIOUS
  <2>3. f = [at |-> "idle", kind |-> "get", client |-> "here", eng |-> 0, pos |-> 0, last |-> -1, reader |-> "none",
             ctx |-> "none", started |-> FALSE, watch |-> "off", cut |-> "no", status |-> 0]
    BY <2>2 DEF Fresh
  <2>4. length \in Nat  BY <2>1, StreamAssumption
  <2>5. FALSE \in BOOLEAN  OBVIOUS
  <2>6. f \in StreamType  BY <2>3, <2>4, <2>5, StreamAssumption DEF StreamType
  <2>7. Knows(f) /\ CutFair(f) /\ f.reader = "none"  BY <2>1, <2>3 DEF Knows, CutFair, Live
  <2>8. stream \in [Streams -> StreamType]  BY <2>1, <2>2, <2>6
  <2>9. hasMeta \in BOOLEAN  BY <2>1
  <2>10. StreamsTypeOK  BY <2>1, <2>8, <2>9, StreamAssumption DEF StreamsTypeOK
  <2>11. \A r \in Streams : Knows(stream[r]) /\ CutFair(stream[r])  BY <2>1, <2>2, <2>7
  <2>12. PinsExact
    <3>1. \A i \in Instances : {r \in Streams : stream[r].eng = i /\ stream[r].reader = "open"} = {}
      BY <2>1, <2>2, <2>7
    <3>2. QED  BY <2>1, <3>1, FS_EmptySet DEF PinsExact
  <2>13. QED  BY <2>10, <2>11, <2>12 DEF SInv
<1>2. ASSUME SInv, StreamNext PROVE SInv'
  <2>1. CASE LearnMetadata \/ Deliver \/ RemoveTorrent  BY <1>2, <2>1, SwarmStep
  <2>2. CASE \E r \in Streams : Arrive(r) \/ Handler(r) \/ ClientLeaves(r) \/ StartupTimeout(r) \/ WriteTimeout(r) \/ Watch(r)
    <3>1. PICK r \in Streams : Arrive(r) \/ Handler(r) \/ ClientLeaves(r) \/ StartupTimeout(r) \/ WriteTimeout(r) \/ Watch(r)
      BY <2>2
    <3>2. CASE Handler(r)
      BY <1>2, <3>2, EarlyStep, OpenStep, HeadersStep, BeginStep, ByteStep, FailsStep, WriteStep, RetireStep, CloseReaderStep
      DEF Handler
    <3>3. QED  BY <1>2, <3>1, <3>2, EarlyStep, LeavesStep, DeadlineStep, WriteStep, WatchStep
  <2>3. QED  BY <1>2, <2>1, <2>2 DEF StreamNext
<1>3. ASSUME SInv, UNCHANGED streamVars PROVE SInv'
  <2>1. UNCHANGED <<length, removals, hasMeta, have, pins, stream>>  BY <1>3 DEF streamVars
  <2>2. StreamType' = StreamType /\ Live' = Live  BY <2>1 DEF StreamType, Live
  <2>3. StreamsTypeOK' /\ PinsExact'  BY <1>3, <2>1, <2>2 DEF SInv, StreamsTypeOK, PinsExact
  <2>4. \A r \in Streams : Knows(stream[r])' /\ CutFair(stream[r])'  BY <1>3, <2>1, <2>2 DEF SInv, Knows, CutFair
  <2>5. QED  BY <2>3, <2>4 DEF SInv
<1>4. QED  BY <1>1, <1>2, <1>3

\* The invariant gives what is promised of every state.
LEMMA StreamPromise == SInv => StreamsTypeOK /\ PinsExact /\ NoFalseCut
BY DEF SInv, CutFair, NoFalseCut, Gone

\* The inductive invariant of the streams holds throughout.
THEOREM StreamInvariant == StreamSpec => []SInv
<1>1. QED  BY StreamSteps, PTL DEF StreamSpec

\* An answer is of exactly the bytes its header names, for a file of any length; the pins
\* are exact, and no copy is cut without cause, for any number of requests.
THEOREM StreamsServeTheRange == StreamSpec => ServesTheRange
<1>1. SInv /\ SInv' => ServeStep  BY AnswersNamed, StreamPromise, PTL DEF ServeStep
<1>2. ServesTheRange <=> [][ServeStep]_streamVars  BY PTL DEF ServesTheRange, ServeStep, RangeAnswers
<1>3. QED  BY <1>1, <1>2, StreamSteps, StreamInvariant, PTL DEF StreamSpec

-----------------------------------------------------------------------------
(* The files of an HLS session (HLSSegments) *)

\* The places of a request that makes a segment, those with a segment at hand or being
\* made, and those at which it holds its file's lock.
MakesPlaces == {"slot", "encode", "software", "retry", "install", "note", "evict"}
SegPlacesOf == MakesPlaces \cup {"open"}
LockPlaces == MakesPlaces \cup {"extract", "render"}
AskPlaces == LockPlaces \cup {"idle", "lock", "open", "end"}

AskRecords == [at : AskPlaces, file : HLSFiles, fate : {"none", "whole", "cut", "suspicious"}]

\* Every variable has its type.
FilesTyped ==
  /\ onDisk \in [HLSFiles -> {"none", "whole", "cut"}] /\ fileLock \in [HLSFiles -> 0 .. NumAsks]
  /\ provisional \subseteq SegFiles /\ indexed \subseteq SegFiles /\ graced \subseteq SegFiles
  /\ loaded \in BOOLEAN /\ duration \in BOOLEAN /\ written \in BOOLEAN /\ closing \in BOOLEAN /\ cut \in BOOLEAN
  /\ ask \in [Asks -> AskRecords]

\* A file is locked by who is at work on it, and by nobody else.
LocksExact ==
  /\ \A a \in Asks : ask[a].at \in LockPlaces => fileLock[ask[a].file] = a
  /\ \A f \in HLSFiles : fileLock[f] # 0 => ask[fileLock[f]].at \in LockPlaces /\ ask[fileLock[f]].file = f

\* What a request r is at: of which file, made of what, and that the segment it has
\* installed or been given is there and spared by evictions until it has opened it.
AskSound(r) ==
  /\ r.at \in SegPlacesOf => r.file \in SegFiles
  /\ r.at = "extract" => r.file = SubFile
  /\ r.at = "render" => r.file = SubList
  /\ r.at = "install" => r.fate # "none" /\ (r.fate = "cut" => closing)
  /\ r.at \in {"note", "evict", "open"} => onDisk[r.file] # "none"
  /\ r.at \in {"evict", "open"} => r.file \in graced

\* The index counts what it lists, and lists what there is but for a segment not yet noted.
ListsDisk(f) == (onDisk[f] # "none" <=> f \in indexed) \/ (fileLock[f] # 0 /\ ask[fileLock[f]].at = "note")
IndexSound ==
  /\ IsFiniteSet(indexed) /\ indexTotal = Cardinality(indexed)
  /\ loaded => \A f \in SegFiles : ListsDisk(f)
  /\ ~loaded => indexed = {}

\* The inductive invariant of the files of a session.
SegInv ==
  /\ FilesTyped /\ LocksExact /\ IndexSound /\ CachedIsWhole /\ (cut => closing)
  /\ \A a \in Asks : AskSound(ask[a])

-----------------------------------------------------------------------------
\* Remainders. The quotient by a symbolic number is a product the provers do not multiply out.
LEMMA QuotRem ==
  ASSUME NEW W \in Nat \ {0}, NEW a \in Int
  PROVE  a % W \in 0 .. W - 1 /\ a \div W \in Int /\ a = (a \div W) * W + (a % W)
<1>1. QED OBVIOUS

LEMMA RemOf ==
  ASSUME NEW W \in Nat \ {0}, NEW q \in Int, NEW r \in 0 .. W - 1
  PROVE  (q * W + r) % W = r
<1>1. QED OBVIOUS

LEMMA Distribute ==
  ASSUME NEW W \in Nat, NEW p \in Int, NEW q \in Int
  PROVE  (p + q) * W = p * W + q * W /\ (p - q) * W = p * W - q * W
<1>1. QED OBVIOUS

LEMMA Shifted ==
  ASSUME NEW W \in Nat \ {0}, NEW x \in Int, NEW q \in Int
  PROVE  (x + q * W) % W = x % W
<1>1. PICK r : r = x % W  OBVIOUS
<1>2. PICK k : k = x \div W  OBVIOUS
<1>3. r \in 0 .. W - 1 /\ k \in Int /\ x = k * W + r  BY <1>1, <1>2, QuotRem
<1>4. k * W \in Int /\ q * W \in Int /\ r \in Int  BY <1>3
<1>5. (k + q) * W = k * W + q * W  BY <1>3, Distribute
<1>6. x + q * W = (k + q) * W + r  BY <1>3, <1>4, <1>5
<1>7. ((k + q) * W + r) % W = r  BY <1>3, RemOf
<1>8. QED  BY <1>1, <1>6, <1>7

LEMMA RemDiff ==
  ASSUME NEW W \in Nat \ {0}, NEW a \in Int, NEW b \in Int
  PROVE  ((a % W) - (b % W)) % W = (a - b) % W
<1>1. PICK p : p = a \div W  OBVIOUS
<1>2. PICK q : q = b \div W  OBVIOUS
<1>3. PICK r : r = a % W  OBVIOUS
<1>4. PICK s : s = b % W  OBVIOUS
<1>5. r \in Int /\ p \in Int /\ a = p * W + r  BY <1>1, <1>3, QuotRem
<1>6. s \in Int /\ q \in Int /\ b = q * W + s  BY <1>2, <1>4, QuotRem
<1>7. PICK P : P = p * W  OBVIOUS
<1>8. PICK Q : Q = q * W  OBVIOUS
<1>9. P \in Int /\ Q \in Int /\ (p - q) * W = P - Q  BY <1>5, <1>6, <1>7, <1>8, Distribute
<1>10. a - b = (r - s) + (P - Q)  BY <1>5, <1>6, <1>7, <1>8, <1>9
<1>11. r - s \in Int /\ p - q \in Int  BY <1>5, <1>6
<1>12. ((r - s) + (p - q) * W) % W = (r - s) % W  BY ONLY <1>11, Shifted, W \in Nat \ {0}
<1>13. QED  BY <1>3, <1>4, <1>9, <1>10, <1>12

\* The difference of two timestamps is that of the times they stand for, if it is small.
LEMMA PtsDiffIs ==
  ASSUME NEW x \in Int, NEW y \in Int, 0 <= x - y, x - y <= SegTicks
  PROVE  PtsDiff(x % PtsWrap, y % PtsWrap) = x - y
<1>1. PtsWrap \in Nat \ {0} /\ SegTicks \in Nat /\ SegTicks < PtsWrap \div 2 /\ PtsWrap \div 2 <= PtsWrap - 1
  BY HLSSegAssumption
<1>2. PICK d : d = x - y  OBVIOUS
<1>3. ((x % PtsWrap) - (y % PtsWrap)) % PtsWrap = d % PtsWrap  BY <1>1, <1>2, RemDiff
<1>4. d \in 0 .. PtsWrap - 1 /\ d < PtsWrap \div 2  BY <1>1, <1>2
<1>5. d % PtsWrap = d  BY <1>1, <1>4
<1>6. QED  BY <1>1, <1>2, <1>3, <1>4, <1>5 DEF PtsDiff

\* A segment that is judged clean is complete, wherever the timestamps wrap.
LEMMA CleanIsComplete ==
  ASSUME NEW n \in SegNumbers, NEW o \in Outputs, Judge(n, o) = "clean"
  PROVE  Complete(o)
<1>1. SegTicks \in Nat /\ PtsWrap \in Nat \ {0} /\ n \in Nat /\ LateVideo \in Nat  BY HLSSegAssumption DEF LateVideo
<1>2. o.first \in 0 .. SegTicks /\ o.last \in 0 .. SegTicks /\ o.first <= o.last /\ o.video \in BOOLEAN /\ o.audio \in BOOLEAN
      /\ o.logged \in BOOLEAN
  BY DEF Outputs
<1>3. PICK first : first = o.first  OBVIOUS
<1>4. PICK last : last = o.last  OBVIOUS
<1>5. PICK z : z = n * SegTicks  OBVIOUS
<1>6. first \in 0 .. SegTicks /\ last \in 0 .. SegTicks /\ first <= last /\ z \in Nat  BY <1>1, <1>2, <1>3, <1>4, <1>5
<1>7. (n + 1) * SegTicks = z + SegTicks  BY <1>1, <1>5
<1>8. PtsDiff((z + first) % PtsWrap, z % PtsWrap) = first
  <2>1. z + first \in Int /\ (z + first) - z = first /\ 0 <= first /\ first <= SegTicks  BY <1>1, <1>6
  <2>2. QED  BY <1>6, <2>1, PtsDiffIs
<1>9. (((z + first) % PtsWrap) + (last - first)) % PtsWrap = (z + last) % PtsWrap
  <2>1. PICK m : m = z + first  OBVIOUS
  <2>2. PICK q : q = m \div PtsWrap  OBVIOUS
  <2>3. PICK r : r = m % PtsWrap  OBVIOUS
  <2>0. m \in Int  BY <1>6, <2>1
  <2>4. q \in Int /\ r \in Int /\ m = q * PtsWrap + r  BY <1>1, <2>0, <2>2, <2>3, QuotRem
  <2>5. PICK Q : Q = q * PtsWrap  OBVIOUS
  <2>6. Q \in Int  BY <1>1, <2>4, <2>5
  <2>7. z + last = (r + (last - first)) + Q  BY <1>6, <2>1, <2>4, <2>5, <2>6
  <2>8. ((r + (last - first)) + q * PtsWrap) % PtsWrap = (r + (last - first)) % PtsWrap
    <3>1. PICK x : x = r + (last - first)  OBVIOUS
    <3>2. x \in Int  BY <1>6, <2>4, <3>1
    <3>3. QED  BY ONLY <1>1, <2>4, <3>1, <3>2, Shifted
  <2>9. QED  BY <2>1, <2>3, <2>5, <2>7, <2>8
<1>10. PtsDiff((z + SegTicks) % PtsWrap, (z + last) % PtsWrap) = SegTicks - last
  <2>1. z + SegTicks \in Int /\ z + last \in Int /\ (z + SegTicks) - (z + last) = SegTicks - last
        /\ 0 <= SegTicks - last /\ SegTicks - last <= SegTicks
    BY <1>1, <1>6
  <2>2. QED  BY <2>1, PtsDiffIs
<1>11. PICK late : late = PtsDiff((n * SegTicks + o.first) % PtsWrap, (n * SegTicks) % PtsWrap)  OBVIOUS
<1>12. PICK short : short = PtsDiff(((n + 1) * SegTicks) % PtsWrap,
                                    (((n * SegTicks + o.first) % PtsWrap) + (o.last - o.first)) % PtsWrap)  OBVIOUS
<1>13. late = first /\ short = SegTicks - last
  BY <1>3, <1>4, <1>5, <1>7, <1>8, <1>9, <1>10, <1>11, <1>12
<1>14. ~o.logged /\ o.video /\ ~(late > LateVideo) /\ ~(short > LateVideo) /\ o.audio
  BY <1>1, <1>2, <1>6, <1>11, <1>12, <1>13 DEF Judge
<1>15. QED  BY <1>1, <1>3, <1>4, <1>6, <1>13, <1>14 DEF Complete

-----------------------------------------------------------------------------
\* The kinds of files are different.
LEMMA FileKinds ==
  SubFile \notin SegFiles /\ SubList \notin SegFiles /\ SubFile # SubList /\ SubFile \in HLSFiles /\ SubList \in HLSFiles
  /\ SegFiles \subseteq HLSFiles
<1>1. QED  BY DEF SubFile, SubList, SegFiles, HLSFiles

LEMMA SegFilesFinite ==
  ASSUME NEW S, S \subseteq SegFiles
  PROVE  IsFiniteSet(S) /\ Cardinality(S) \in Nat /\ Cardinality(SegFiles) \in Nat /\ Cardinality(S) <= Cardinality(SegFiles)
<1>1. IsFiniteSet(SegNumbers)  BY HLSSegAssumption
<1>2. PICK g : g = [n \in SegNumbers |-> <<"seg", n>>]  OBVIOUS
<1>3. IsFiniteSet(SegFiles)
  <2>1. g \in [SegNumbers -> SegFiles]  BY <1>2 DEF SegFiles
  <2>2. \A f \in SegFiles : \E n \in SegNumbers : g[n] = f  BY <1>2 DEF SegFiles
  <2>3. g \in Surjection(SegNumbers, SegFiles)  BY <2>1, <2>2 DEF Surjection
  <2>4. QED  BY ONLY <1>1, <2>3, FS_Surjection
<1>4. QED  BY ONLY <1>3, S \subseteq SegFiles, FS_Subset, FS_CardinalityType

\* What is so of a request.
LEMMA AskFacts ==
  ASSUME SegInv, NEW a \in Asks
  PROVE  /\ ask[a] \in AskRecords /\ ask[a].at \in AskPlaces /\ ask[a].file \in HLSFiles
         /\ ask[a].fate \in {"none", "whole", "cut", "suspicious"} /\ AskSound(ask[a]) /\ a # 0 /\ a \in 0 .. NumAsks
<1>1. NumAsks \in Nat  BY HLSSegAssumption
<1>2. ask[a] \in AskRecords  BY DEF SegInv, FilesTyped
<1>3. QED  BY <1>1, <1>2 DEF SegInv, AskRecords, Asks

\* A request that keeps its lock, or that has none and takes none.
LEMMA SameLocks ==
  ASSUME SegInv, NEW a \in Asks, NEW r \in AskRecords, ask' = [ask EXCEPT ![a] = r], fileLock' = fileLock,
         \/ ask[a].at \in LockPlaces /\ r.at \in LockPlaces /\ r.file = ask[a].file
         \/ ask[a].at \notin LockPlaces /\ r.at \notin LockPlaces
  PROVE  LocksExact'
<1>1. ask \in [Asks -> AskRecords] /\ LocksExact  BY DEF SegInv, FilesTyped
<1>2. \A b \in Asks : ask'[b] = IF b = a THEN r ELSE ask[b]  BY <1>1
<1>3. ASSUME NEW b \in Asks, ask'[b].at \in LockPlaces  PROVE fileLock'[ask'[b].file] = b
  BY <1>1, <1>2, <1>3 DEF LocksExact
<1>4. ASSUME NEW f \in HLSFiles, fileLock'[f] # 0
      PROVE  ask'[fileLock'[f]].at \in LockPlaces /\ ask'[fileLock'[f]].file = f
  <2>1. fileLock[f] \in Asks  BY <1>4, HLSSegAssumption DEF SegInv, FilesTyped, Asks
  <2>2. ask[fileLock[f]].at \in LockPlaces /\ ask[fileLock[f]].file = f  BY <1>1, <1>4 DEF LocksExact
  <2>3. QED  BY <1>2, <2>1, <2>2
<1>5. QED  BY <1>3, <1>4 DEF LocksExact

\* A request that lets its lock go.
LEMMA LockFreed ==
  ASSUME SegInv, NEW a \in Asks, NEW r \in AskRecords, ask' = [ask EXCEPT ![a] = r], Unlocked(a), r.at \notin LockPlaces
  PROVE  LocksExact' /\ fileLock' \in [HLSFiles -> 0 .. NumAsks]
         /\ \A f \in HLSFiles : fileLock'[f] = IF fileLock[f] = a THEN 0 ELSE fileLock[f]
<1>1. ask \in [Asks -> AskRecords] /\ LocksExact /\ fileLock \in [HLSFiles -> 0 .. NumAsks]  BY DEF SegInv, FilesTyped
<1>2. \A b \in Asks : ask'[b] = IF b = a THEN r ELSE ask[b]  BY <1>1
<1>3. \A f \in HLSFiles : fileLock'[f] = IF fileLock[f] = a THEN 0 ELSE fileLock[f]  BY DEF Unlocked
<1>4. ASSUME NEW b \in Asks, ask'[b].at \in LockPlaces  PROVE fileLock'[ask'[b].file] = b
  <2>1. b # a /\ ask'[b] = ask[b]  BY <1>2, <1>4
  <2>2. fileLock[ask[b].file] = b /\ ask[b].file \in HLSFiles  BY <1>1, <1>4, <2>1, AskFacts DEF LocksExact
  <2>3. QED  BY <1>3, <2>1, <2>2
<1>5. ASSUME NEW f \in HLSFiles, fileLock'[f] # 0
      PROVE  ask'[fileLock'[f]].at \in LockPlaces /\ ask'[fileLock'[f]].file = f
  <2>1. fileLock'[f] = fileLock[f] /\ fileLock[f] # a /\ fileLock[f] # 0  BY <1>3, <1>5
  <2>2. fileLock[f] \in Asks  BY <1>1, <2>1, HLSSegAssumption DEF Asks
  <2>3. ask[fileLock[f]].at \in LockPlaces /\ ask[fileLock[f]].file = f  BY <1>1, <2>1 DEF LocksExact
  <2>4. QED  BY <1>2, <2>1, <2>2, <2>3
<1>6. NumAsks \in Nat  BY HLSSegAssumption
<1>7. fileLock' \in [HLSFiles -> 0 .. NumAsks]  BY <1>1, <1>6 DEF Unlocked
<1>8. QED  BY <1>3, <1>4, <1>5, <1>7 DEF LocksExact

\* What the other requests rely on is kept, and this one has what it relies on.
LEMMA AsksKept ==
  ASSUME SegInv, NEW a \in Asks, NEW r \in AskRecords, ask' = [ask EXCEPT ![a] = r], AskSound(r)',
         closing => closing',
         \A b \in Asks : b # a /\ ask[b].at \in {"note", "evict", "open"} => onDisk'[ask[b].file] # "none",
         \A b \in Asks : b # a /\ ask[b].at \in {"evict", "open"} => ask[b].file \in graced'
  PROVE  ask' \in [Asks -> AskRecords] /\ \A b \in Asks : AskSound(ask[b])'
<1>1. ask \in [Asks -> AskRecords]  BY DEF SegInv, FilesTyped
<1>2. \A b \in Asks : ask'[b] = IF b = a THEN r ELSE ask[b]  BY <1>1
<1>3. ASSUME NEW b \in Asks  PROVE AskSound(ask[b])'
  <2>1. CASE b = a  BY <1>2, <2>1 DEF AskSound
  <2>2. CASE b # a
    <3>1. ask'[b] = ask[b] /\ AskSound(ask[b])  BY <1>2, <2>2, AskFacts
    <3>2. QED  BY <2>2, <3>1 DEF AskSound
  <2>3. QED  BY <2>1, <2>2
<1>4. QED  BY <1>1, <1>3

\* A step of a request that changes no file and no list, and is not about noting a segment.
LEMMA AskMoves ==
  ASSUME SegInv, NEW a \in Asks, NEW r \in AskRecords, ask' = [ask EXCEPT ![a] = r], AskSound(r),
         \/ fileLock' = fileLock /\ ask[a].at \in LockPlaces /\ r.at \in LockPlaces /\ r.file = ask[a].file
         \/ fileLock' = fileLock /\ ask[a].at \notin LockPlaces /\ r.at \notin LockPlaces
         \/ Unlocked(a) /\ r.at \notin LockPlaces,
         ask[a].at # "note", r.at # "note", provisional' \subseteq SegFiles,
         UNCHANGED <<onDisk, indexed, indexTotal, loaded, graced, duration, written, closing, cut>>
  PROVE  SegInv'
<1>1. LocksExact'  BY SameLocks, LockFreed
<1>2. ask' \in [Asks -> AskRecords] /\ \A b \in Asks : AskSound(ask[b])'
  <2>1. AskSound(r)'  BY DEF AskSound
  <2>2. QED  BY <2>1, AsksKept, AskFacts DEF AskSound
<1>3. fileLock' \in [HLSFiles -> 0 .. NumAsks]  BY LockFreed DEF SegInv, FilesTyped
<1>4. FilesTyped'  BY <1>2, <1>3 DEF SegInv, FilesTyped
<1>5. IndexSound'
  <2>1. ASSUME loaded, NEW f \in SegFiles  PROVE ListsDisk(f)'
    <3>1. ListsDisk(f) /\ f \in HLSFiles  BY <2>1, FileKinds DEF SegInv, IndexSound
    <3>2. CASE fileLock[f] # 0 /\ ask[fileLock[f]].at = "note"
      <4>1. fileLock[f] \in Asks  BY <3>1, <3>2, HLSSegAssumption DEF SegInv, FilesTyped, Asks
      <4>2. fileLock[f] # a /\ fileLock'[f] = fileLock[f]  BY <3>1, <3>2, LockFreed
      <4>3. ask'[fileLock[f]] = ask[fileLock[f]]  BY <4>1, <4>2 DEF SegInv, FilesTyped
      <4>4. QED  BY <3>2, <4>2, <4>3 DEF ListsDisk
    <3>3. CASE onDisk[f] # "none" <=> f \in indexed  BY <3>3 DEF ListsDisk
    <3>4. QED  BY <3>1, <3>2, <3>3 DEF ListsDisk
  <2>2. QED  BY <2>1 DEF SegInv, IndexSound
<1>6. CachedIsWhole' /\ (cut => closing)'  BY DEF SegInv, CachedIsWhole
<1>7. QED  BY <1>1, <1>2, <1>4, <1>5, <1>6 DEF SegInv

-----------------------------------------------------------------------------
\* Where AskGoes leads.
LEMMA GoesTo ==
  ASSUME SegInv, NEW a \in Asks, NEW l \in AskPlaces, AskGoes(a, l)
  PROVE  \E r \in AskRecords : /\ ask' = [ask EXCEPT ![a] = r] /\ r.at = l
                               /\ l # "end" => r.file = ask[a].file /\ r.fate = ask[a].fate
<1>1. ask \in [Asks -> AskRecords] /\ ask[a] \in AskRecords  BY AskFacts DEF SegInv, FilesTyped
<1>2. CASE l = "end"
  <2>1. ask' = [ask EXCEPT ![a] = NoAsk("end")]  BY <1>2 DEF AskGoes
  <2>2. NoAsk("end") \in AskRecords /\ NoAsk("end").at = "end"
    BY FileKinds DEF NoAsk, AskRecords, AskPlaces
  <2>3. QED  BY <1>2, <2>1, <2>2
<1>3. CASE l # "end"
  <2>1. PICK r : r = [ask[a] EXCEPT !.at = l]  OBVIOUS
  <2>2. ask' = [ask EXCEPT ![a] = r]  BY <1>1, <1>3, <2>1 DEF AskGoes
  <2>3. r \in AskRecords /\ r.at = l /\ r.file = ask[a].file /\ r.fate = ask[a].fate
    BY <1>1, <2>1 DEF AskRecords
  <2>4. QED  BY <2>2, <2>3
<1>4. QED  BY <1>2, <1>3

\* A new request.
LEMMA KAskFor ==
  ASSUME SegInv, NEW a \in Asks, AskFor(a)
  PROVE  SegInv'
<1>1. PICK f \in HLSFiles, l \in {"end", "lock"} :
        ask' = [ask EXCEPT ![a] = [NoAsk(l) EXCEPT !.file = IF f = SubList /\ written THEN SubFile ELSE f]]
  BY DEF AskFor
<1>2. PICK r : r = [NoAsk(l) EXCEPT !.file = IF f = SubList /\ written THEN SubFile ELSE f]  OBVIOUS
<1>3. r \in AskRecords /\ r.at = l  BY <1>2, FileKinds DEF NoAsk, AskRecords, AskPlaces, LockPlaces
<1>4. AskSound(r) /\ r.at \notin LockPlaces /\ r.at # "note"
  BY <1>3 DEF AskSound, SegPlacesOf, LockPlaces, MakesPlaces
<1>5. ask[a].at = "idle" /\ "idle" \notin LockPlaces  BY DEF AskFor, LockPlaces, MakesPlaces
<1>6. UNCHANGED <<onDisk, fileLock, provisional, indexed, indexTotal, loaded, graced, duration, written, closing, cut>>
  BY DEF AskFor, indexVars, sessionVars
<1>7. ask' = [ask EXCEPT ![a] = r] /\ provisional' \subseteq SegFiles  BY <1>1, <1>2, <1>6 DEF SegInv, FilesTyped
<1>8. QED  BY <1>3, <1>4, <1>5, <1>6, <1>7, AskMoves

\* A request that ends, with whatever it has locked.
LEMMA KEnds ==
  ASSUME SegInv, NEW a \in Asks, AskGoes(a, "end"), Unlocked(a), ask[a].at # "note", provisional' \subseteq SegFiles,
         UNCHANGED <<onDisk, indexed, indexTotal, loaded, graced, duration, written, closing, cut>>
  PROVE  SegInv'
<1>1. PICK r \in AskRecords : ask' = [ask EXCEPT ![a] = r] /\ r.at = "end"  BY GoesTo DEF AskPlaces
<1>2. AskSound(r) /\ r.at \notin LockPlaces /\ r.at # "note"
  BY <1>1 DEF AskSound, SegPlacesOf, LockPlaces, MakesPlaces
<1>3. QED  BY <1>1, <1>2, AskMoves

\* A request that goes on with its work.
LEMMA KWorks ==
  ASSUME SegInv, NEW a \in Asks, NEW r \in AskRecords, ask' = [ask EXCEPT ![a] = r],
         ask[a].at \in {"slot", "encode", "software", "retry"}, r.at \in {"encode", "software", "retry", "install"},
         r.file = ask[a].file, r.at = "install" => r.fate # "none" /\ (r.fate = "cut" => closing),
         UNCHANGED <<onDisk, fileLock, provisional, indexed, indexTotal, loaded, graced, duration, written, closing, cut>>
  PROVE  SegInv'
<1>1. ask[a].file \in SegFiles  BY AskFacts DEF AskSound, SegPlacesOf, MakesPlaces
<1>2. AskSound(r)  BY <1>1 DEF AskSound, SegPlacesOf, MakesPlaces
<1>3. ask[a].at \in LockPlaces /\ r.at \in LockPlaces /\ r.at # "note" /\ ask[a].at # "note"
  BY DEF LockPlaces, MakesPlaces
<1>4. provisional' \subseteq SegFiles  BY DEF SegInv, FilesTyped
<1>5. QED  BY <1>2, <1>3, <1>4, AskMoves

LEMMA KTakeSlot ==
  ASSUME SegInv, NEW a \in Asks, TakeSlot(a)
  PROVE  SegInv'
<1>1. /\ ask[a].at = "slot"
      /\ UNCHANGED <<onDisk, provisional, indexed, indexTotal, loaded, graced, duration, written, closing, cut>>
  BY DEF TakeSlot, indexVars, sessionVars
<1>2. CASE AskGoes(a, "encode") /\ UNCHANGED fileLock
  <2>1. PICK r \in AskRecords : ask' = [ask EXCEPT ![a] = r] /\ r.at = "encode" /\ r.file = ask[a].file
    BY <1>2, GoesTo DEF AskPlaces, LockPlaces, MakesPlaces
  <2>2. QED  BY <1>1, <1>2, <2>1, KWorks
<1>3. CASE AskGoes(a, "end") /\ Unlocked(a)
  <2>1. provisional' \subseteq SegFiles  BY <1>1 DEF SegInv, FilesTyped
  <2>2. QED  BY <1>1, <1>3, <2>1, KEnds
<1>4. QED  BY <1>2, <1>3 DEF TakeSlot

\* An attempt fails.
LEMMA KFails ==
  ASSUME SegInv, NEW a \in Asks, EncodeFails(a) \/ SoftwareFails(a)
  PROVE  SegInv'
<1>1. ask[a].at \in {"encode", "software"}  BY DEF EncodeFails, SoftwareFails
<1>2. CASE AskGoes(a, "software") /\ UNCHANGED <<onDisk, fileLock, provisional, indexVars, graced, sessionVars>>
  <2>1. PICK r \in AskRecords : ask' = [ask EXCEPT ![a] = r] /\ r.at = "software" /\ r.file = ask[a].file
    BY <1>2, GoesTo DEF AskPlaces, LockPlaces, MakesPlaces
  <2>2. QED  BY <1>1, <1>2, <2>1, KWorks DEF indexVars, sessionVars
<1>3. CASE Abandon(a)
  <2>1. UNCHANGED <<onDisk, provisional, indexed, indexTotal, loaded, graced, duration, written, closing, cut>>
        /\ AskGoes(a, "end") /\ Unlocked(a)
    BY <1>3 DEF Abandon, indexVars, sessionVars
  <2>2. provisional' \subseteq SegFiles  BY <2>1 DEF SegInv, FilesTyped
  <2>3. QED  BY <1>1, <2>1, <2>2, KEnds
<1>4. QED  BY <1>2, <1>3 DEF EncodeFails, SoftwareFails

\* A clean output that is cut comes from sources that are gone, so that a shutdown has begun.
LEMMA CleanFate ==
  ASSUME SegInv, NEW n \in SegNumbers, NEW v \in Inspected[n][cut], v.judged = "clean"
  PROVE  v.fate \in {"whole", "cut"} /\ (v.fate = "cut" => closing)
<1>1. cut \in BOOLEAN /\ (cut => closing)  BY DEF SegInv, FilesTyped
<1>2. PICK o \in Outputs, c \in {cut, FALSE} :
        v = [judged |-> Judge(n, o), fate |-> IF c \/ ~Complete(o) THEN "cut" ELSE "whole"]
  BY <1>1 DEF Inspected
<1>3. Complete(o)  BY <1>2, CleanIsComplete
<1>4. CASE c  BY <1>1, <1>2, <1>4
<1>5. CASE ~c  BY <1>2, <1>3, <1>5
<1>6. QED  BY <1>4, <1>5

LEMMA SegNumberOf ==
  ASSUME SegInv, NEW a \in Asks, ask[a].file \in SegFiles
  PROVE  ask[a].file[2] \in SegNumbers
<1>1. QED  BY DEF SegFiles

\* The first attempt and the retry.
LEMMA KAttempts ==
  ASSUME SegInv, NEW a \in Asks, FirstAttempt(a) \/ Retry(a)
  PROVE  SegInv'
<1>1. /\ ask[a].at \in {"encode", "software", "retry"}
      /\ UNCHANGED <<onDisk, fileLock, provisional, indexed, indexTotal, loaded, graced, duration, written, closing, cut>>
  BY DEF FirstAttempt, Retry, indexVars, sessionVars
<1>2. ask[a].file[2] \in SegNumbers  BY <1>1, AskFacts, SegNumberOf DEF AskSound, SegPlacesOf, MakesPlaces
<1>3. \/ \E v \in Inspected[ask[a].file[2]][cut] : v.judged = "clean" /\ ask' = [ask EXCEPT ![a] = [ask[a] EXCEPT !.at = "install", !.fate = v.fate]]
      \/ ask' = [ask EXCEPT ![a] = [ask[a] EXCEPT !.at = "retry"]]
      \/ ask' = [ask EXCEPT ![a] = [ask[a] EXCEPT !.at = "install", !.fate = "suspicious"]]
  <2>1. CASE FirstAttempt(a)
    <3>1. PICK v \in Inspected[ask[a].file[2]][cut], h \in BOOLEAN : ask' = [ask EXCEPT ![a] =
         CASE v.judged = "clean" -> [ask[a] EXCEPT !.at = "install", !.fate = v.fate]
           [] v.judged = "missing" /\ h -> [ask[a] EXCEPT !.at = "retry"]
           [] OTHER -> [ask[a] EXCEPT !.at = "install", !.fate = "suspicious"]]
      BY <2>1 DEF FirstAttempt
    <3>2. CASE v.judged = "clean"  BY <3>1, <3>2
    <3>3. CASE v.judged = "missing" /\ h  BY <3>1, <3>3
    <3>4. CASE v.judged # "clean" /\ ~(v.judged = "missing" /\ h)  BY <3>1, <3>4
    <3>5. QED  BY <3>2, <3>3, <3>4
  <2>2. CASE Retry(a)  BY <2>2 DEF Retry
  <2>3. QED  BY <2>1, <2>2
<1>4. PICK r \in AskRecords : /\ ask' = [ask EXCEPT ![a] = r] /\ r.file = ask[a].file
                              /\ r.at = "retry" \/ (r.at = "install" /\ r.fate # "none" /\ (r.fate = "cut" => closing))
  <2>1. ASSUME NEW v \in Inspected[ask[a].file[2]][cut], v.judged = "clean",
               ask' = [ask EXCEPT ![a] = [ask[a] EXCEPT !.at = "install", !.fate = v.fate]]
        PROVE  \E r \in AskRecords : /\ ask' = [ask EXCEPT ![a] = r] /\ r.file = ask[a].file
                                     /\ r.at = "retry" \/ (r.at = "install" /\ r.fate # "none" /\ (r.fate = "cut" => closing))
    <3>1. PICK r : r = [ask[a] EXCEPT !.at = "install", !.fate = v.fate]  OBVIOUS
    <3>2. v.fate \in {"whole", "cut"} /\ (v.fate = "cut" => closing)  BY <1>2, <2>1, CleanFate
    <3>3. r \in AskRecords /\ r.at = "install" /\ r.fate = v.fate /\ r.file = ask[a].file
      BY <3>1, <3>2, AskFacts DEF AskRecords, AskPlaces, LockPlaces, MakesPlaces
    <3>4. QED  BY <2>1, <3>1, <3>2, <3>3
  <2>2. ASSUME ask' = [ask EXCEPT ![a] = [ask[a] EXCEPT !.at = "retry"]]
        PROVE  \E r \in AskRecords : /\ ask' = [ask EXCEPT ![a] = r] /\ r.file = ask[a].file
                                     /\ r.at = "retry" \/ (r.at = "install" /\ r.fate # "none" /\ (r.fate = "cut" => closing))
    <3>1. PICK r : r = [ask[a] EXCEPT !.at = "retry"]  OBVIOUS
    <3>2. r \in AskRecords /\ r.at = "retry" /\ r.file = ask[a].file
      BY <3>1, AskFacts DEF AskRecords, AskPlaces, LockPlaces, MakesPlaces
    <3>3. QED  BY <2>2, <3>1, <3>2
  <2>3. ASSUME ask' = [ask EXCEPT ![a] = [ask[a] EXCEPT !.at = "install", !.fate = "suspicious"]]
        PROVE  \E r \in AskRecords : /\ ask' = [ask EXCEPT ![a] = r] /\ r.file = ask[a].file
                                     /\ r.at = "retry" \/ (r.at = "install" /\ r.fate # "none" /\ (r.fate = "cut" => closing))
    <3>1. PICK r : r = [ask[a] EXCEPT !.at = "install", !.fate = "suspicious"]  OBVIOUS
    <3>2. r \in AskRecords /\ r.at = "install" /\ r.fate = "suspicious" /\ r.file = ask[a].file
      BY <3>1, AskFacts DEF AskRecords, AskPlaces, LockPlaces, MakesPlaces
    <3>3. QED  BY <2>3, <3>1, <3>2
  <2>4. CASE \E v \in Inspected[ask[a].file[2]][cut] :
               v.judged = "clean" /\ ask' = [ask EXCEPT ![a] = [ask[a] EXCEPT !.at = "install", !.fate = v.fate]]
    BY <2>1, <2>4
  <2>5. CASE ask' = [ask EXCEPT ![a] = [ask[a] EXCEPT !.at = "retry"]]  BY <2>2, <2>5
  <2>6. CASE ask' = [ask EXCEPT ![a] = [ask[a] EXCEPT !.at = "install", !.fate = "suspicious"]]  BY <2>3, <2>6
  <2>7. QED  BY <1>3, <2>4, <2>5, <2>6
<1>5. QED  BY <1>1, <1>4, KWorks

-----------------------------------------------------------------------------
\* noteSegment, for a segment that is on disk: the index counts what it lists, and lists
\* this one and whatever else there is, but for segments not yet noted.
LEMMA Noted ==
  ASSUME SegInv, NEW f \in SegFiles, onDisk[f] # "none", NoteSegment(f)
  PROVE  /\ indexed' \subseteq SegFiles /\ IsFiniteSet(indexed') /\ indexTotal' = Cardinality(indexed')
         /\ loaded' = TRUE /\ graced' = graced \cup {f}
         /\ \A g \in SegFiles : \/ onDisk[g] # "none" <=> g \in indexed'
                                \/ g # f /\ fileLock[g] # 0 /\ ask[fileLock[g]].at = "note"
<1>1. indexed \subseteq SegFiles /\ loaded \in BOOLEAN /\ IndexSound  BY DEF SegInv, FilesTyped
<1>2. PICK S : S = IndexFiles  OBVIOUS
<1>3. S \subseteq SegFiles /\ IndexTotal = Cardinality(S)
  BY <1>1, <1>2 DEF IndexFiles, IndexTotal, IndexSound
<1>4. IsFiniteSet(S) /\ Cardinality(S) \in Nat  BY <1>3, SegFilesFinite
<1>5. IsFiniteSet(S \cup {f}) /\ Cardinality(S \cup {f}) = IF f \in S THEN Cardinality(S) ELSE Cardinality(S) + 1
  BY ONLY <1>4, FS_AddElement
<1>6. indexed' = S \cup {f} /\ indexTotal' = Cardinality(S) + 1 - SizeIn(f, S) /\ loaded' = TRUE /\ graced' = graced \cup {f}
  BY <1>2, <1>3 DEF NoteSegment
<1>7. indexTotal' = Cardinality(S \cup {f})  BY <1>4, <1>5, <1>6 DEF SizeIn
<1>8. ASSUME NEW g \in SegFiles
      PROVE  \/ onDisk[g] # "none" <=> g \in indexed'
             \/ g # f /\ fileLock[g] # 0 /\ ask[fileLock[g]].at = "note"
  <2>1. CASE g = f  BY <1>6, <2>1
  <2>2. CASE g # f /\ loaded  BY <1>1, <1>2, <1>6, <2>2 DEF IndexSound, ListsDisk, IndexFiles
  <2>3. CASE g # f /\ ~loaded  BY <1>2, <1>6, <2>3 DEF IndexFiles
  <2>4. QED  BY <1>1, <2>1, <2>2, <2>3
<1>9. QED  BY <1>3, <1>5, <1>6, <1>7, <1>8

\* The lock of a file is taken, or what is there is served.
LEMMA KLockFile ==
  ASSUME SegInv, NEW a \in Asks, LockFile(a)
  PROVE  SegInv'
<1> DEFINE f == ask[a].file
<1>1. /\ ask[a].at = "lock" /\ f \in HLSFiles /\ fileLock[f] = 0
      /\ UNCHANGED <<onDisk, provisional, duration, written, closing, cut>>
  BY AskFacts DEF LockFile, sessionVars
<1>2. provisional' \subseteq SegFiles /\ ask[a].at \notin LockPlaces /\ ask[a].at # "note"
  BY <1>1 DEF SegInv, FilesTyped, LockPlaces, MakesPlaces
<1>3. CASE f \in SegFiles /\ onDisk[f] # "none" /\ NoteSegment(f) /\ AskGoes(a, "open") /\ UNCHANGED fileLock
  <2>1. PICK r \in AskRecords : ask' = [ask EXCEPT ![a] = r] /\ r.at = "open" /\ r.file = f
    BY <1>3, GoesTo DEF AskPlaces
  <2>2. /\ indexed' \subseteq SegFiles /\ IsFiniteSet(indexed') /\ indexTotal' = Cardinality(indexed')
        /\ loaded' = TRUE /\ graced' = graced \cup {f}
        /\ \A g \in SegFiles : \/ onDisk[g] # "none" <=> g \in indexed'
                               \/ g # f /\ fileLock[g] # 0 /\ ask[fileLock[g]].at = "note"
    BY <1>3, Noted
  <2>3. AskSound(r)'
    BY <1>1, <1>3, <2>1, <2>2 DEF AskSound, SegPlacesOf, MakesPlaces
  <2>4. r.at \notin LockPlaces  BY <2>1 DEF LockPlaces, MakesPlaces
  <2>5. LocksExact'  BY <1>2, <1>3, <2>1, <2>4, SameLocks
  <2>6. ask' \in [Asks -> AskRecords] /\ \A b \in Asks : AskSound(ask[b])'
    BY <1>1, <2>1, <2>2, <2>3, AsksKept, AskFacts DEF AskSound
  <2>7. FilesTyped'  BY <1>1, <1>3, <2>2, <2>6 DEF SegInv, FilesTyped
  <2>8. IndexSound'
    <3>1. ASSUME NEW g \in SegFiles  PROVE ListsDisk(g)'
      <4>1. CASE g # f /\ fileLock[g] # 0 /\ ask[fileLock[g]].at = "note"
        <5>1. fileLock[g] \in Asks  BY <4>1, FileKinds, HLSSegAssumption DEF SegInv, FilesTyped, Asks
        <5>2. fileLock[g] # a  BY <1>1, <4>1
        <5>3. ask'[fileLock[g]] = ask[fileLock[g]]  BY <2>1, <5>1, <5>2 DEF SegInv, FilesTyped
        <5>4. QED  BY <1>3, <4>1, <5>3 DEF ListsDisk
      <4>2. CASE onDisk[g] # "none" <=> g \in indexed'  BY <1>1, <4>2 DEF ListsDisk
      <4>3. QED  BY <2>2, <4>1, <4>2
    <3>2. QED  BY <2>2, <3>1 DEF IndexSound
  <2>9. CachedIsWhole' /\ (cut => closing)'  BY <1>1 DEF SegInv, CachedIsWhole
  <2>10. QED  BY <2>5, <2>6, <2>7, <2>8, <2>9 DEF SegInv
<1>4. CASE AskGoes(a, "end") /\ UNCHANGED <<indexVars, graced, fileLock>>
  <2>1. PICK r \in AskRecords : ask' = [ask EXCEPT ![a] = r] /\ r.at = "end"  BY <1>4, GoesTo DEF AskPlaces
  <2>2. AskSound(r) /\ r.at \notin LockPlaces /\ r.at # "note"
    BY <2>1 DEF AskSound, SegPlacesOf, LockPlaces, MakesPlaces
  <2>3. QED  BY <1>1, <1>2, <1>4, <2>1, <2>2, AskMoves DEF indexVars
<1>5. CASE /\ (IF f = SubList THEN ~written ELSE onDisk[f] = "none") /\ fileLock' = [fileLock EXCEPT ![f] = a]
           /\ AskGoes(a, CASE f = SubList -> "render" [] f = SubFile -> "extract" [] OTHER -> "slot")
           /\ UNCHANGED <<indexVars, graced>>
  <2>1. PICK l \in {"render", "extract", "slot"} :
          /\ AskGoes(a, l) /\ (l = "render" => f = SubList) /\ (l = "extract" => f = SubFile) /\ (l = "slot" => f \in SegFiles)
    BY <1>1, <1>5, FileKinds DEF HLSFiles
  <2>2. PICK r \in AskRecords : ask' = [ask EXCEPT ![a] = r] /\ r.at = l /\ r.file = f
    <3>1. l \in AskPlaces /\ l # "end"  BY <2>1 DEF AskPlaces, LockPlaces, MakesPlaces
    <3>2. QED  BY <2>1, <3>1, GoesTo
  <2>3. AskSound(r)'  BY <2>1, <2>2 DEF AskSound, SegPlacesOf, MakesPlaces
  <2>4. ask \in [Asks -> AskRecords] /\ fileLock \in [HLSFiles -> 0 .. NumAsks] /\ LocksExact  BY DEF SegInv, FilesTyped
  <2>5. \A b \in Asks : ask'[b] = IF b = a THEN r ELSE ask[b]  BY <2>2, <2>4
  <2>6. \A g \in HLSFiles : fileLock'[g] = IF g = f THEN a ELSE fileLock[g]  BY <1>5, <2>4
  <2>7. LocksExact'
    <3>1. ASSUME NEW b \in Asks, ask'[b].at \in LockPlaces  PROVE fileLock'[ask'[b].file] = b
      <4>1. CASE b = a  BY <1>1, <2>2, <2>5, <2>6, <4>1
      <4>2. CASE b # a
        <5>1. ask'[b] = ask[b] /\ fileLock[ask[b].file] = b /\ ask[b].file \in HLSFiles
          BY <2>4, <2>5, <3>1, <4>2, AskFacts DEF LocksExact
        <5>2. ask[b].file # f  BY <1>1, <5>1, AskFacts
        <5>3. QED  BY <2>6, <5>1, <5>2
      <4>3. QED  BY <4>1, <4>2
    <3>2. ASSUME NEW g \in HLSFiles, fileLock'[g] # 0
          PROVE  ask'[fileLock'[g]].at \in LockPlaces /\ ask'[fileLock'[g]].file = g
      <4>1. CASE g = f  BY <2>1, <2>2, <2>5, <2>6, <4>1 DEF LockPlaces, MakesPlaces
      <4>2. CASE g # f
        <5>1. fileLock'[g] = fileLock[g] /\ fileLock[g] \in Asks
          BY <2>4, <2>6, <3>2, <4>2, HLSSegAssumption DEF Asks
        <5>2. ask[fileLock[g]].at \in LockPlaces /\ ask[fileLock[g]].file = g  BY <2>4, <3>2, <5>1 DEF LocksExact
        <5>3. fileLock[g] # a  BY <1>2, <5>2
        <5>4. QED  BY <2>5, <5>1, <5>2, <5>3
      <4>3. QED  BY <4>1, <4>2
    <3>3. QED  BY <3>1, <3>2 DEF LocksExact
  <2>8. ask' \in [Asks -> AskRecords] /\ \A b \in Asks : AskSound(ask[b])'
    BY <1>1, <1>5, <2>2, <2>3, AsksKept, AskFacts DEF AskSound
  <2>9. fileLock' \in [HLSFiles -> 0 .. NumAsks]  BY <1>1, <1>5, <2>4, AskFacts
  <2>10. FilesTyped'  BY <1>1, <1>5, <2>8, <2>9 DEF SegInv, FilesTyped, indexVars
  <2>11. IndexSound'
    <3>1. ASSUME loaded, NEW g \in SegFiles  PROVE ListsDisk(g)'
      <4>1. ListsDisk(g) /\ g \in HLSFiles  BY <3>1, FileKinds DEF SegInv, IndexSound
      <4>2. CASE fileLock[g] # 0 /\ ask[fileLock[g]].at = "note"
        <5>1. fileLock[g] \in Asks /\ g # f /\ fileLock[g] # a
          BY <1>1, <2>4, <4>1, <4>2, HLSSegAssumption DEF Asks
        <5>2. QED  BY <2>5, <2>6, <4>1, <4>2, <5>1 DEF ListsDisk
      <4>3. CASE onDisk[g] # "none" <=> g \in indexed  BY <1>1, <1>5, <4>3 DEF ListsDisk, indexVars
      <4>4. QED  BY <4>1, <4>2, <4>3 DEF ListsDisk
    <3>2. QED  BY <1>5, <3>1 DEF SegInv, IndexSound, indexVars
  <2>12. CachedIsWhole' /\ (cut => closing)'  BY <1>1 DEF SegInv, CachedIsWhole
  <2>13. QED  BY <2>7, <2>8, <2>10, <2>11, <2>12 DEF SegInv
<1>6. QED  BY <1>3, <1>4, <1>5 DEF LockFile

-----------------------------------------------------------------------------
\* A segment is installed under its final name, or served once.
LEMMA KInstall ==
  ASSUME SegInv, NEW a \in Asks, Install(a)
  PROVE  SegInv'
<1> DEFINE f == ask[a].file
<1>1. /\ ask[a].at = "install" /\ f \in SegFiles /\ f \in HLSFiles /\ ask[a].fate # "none"
      /\ (ask[a].fate = "cut" => closing) /\ ask[a].fate \in {"none", "whole", "cut", "suspicious"}
  BY AskFacts, FileKinds DEF Install, AskSound, SegPlacesOf, MakesPlaces
<1>2. UNCHANGED <<indexed, indexTotal, loaded, graced, duration, written, closing, cut>>
  BY DEF Install, indexVars, sessionVars
<1>3. provisional' \subseteq SegFiles  BY <1>1 DEF Install, SegInv, FilesTyped
<1>4. CASE AskGoes(a, "end") /\ Unlocked(a) /\ UNCHANGED onDisk  BY <1>1, <1>2, <1>3, <1>4, KEnds
<1>5. CASE Cacheable(a) /\ onDisk' = [onDisk EXCEPT ![f] = ask[a].fate] /\ AskGoes(a, "note") /\ UNCHANGED fileLock
  <2>1. PICK r \in AskRecords : ask' = [ask EXCEPT ![a] = r] /\ r.at = "note" /\ r.file = f
    BY <1>5, GoesTo DEF AskPlaces, LockPlaces, MakesPlaces
  <2>2. ask[a].fate = "whole"  BY <1>1, <1>5 DEF Cacheable
  <2>3. onDisk \in [HLSFiles -> {"none", "whole", "cut"}] /\ ask \in [Asks -> AskRecords]  BY DEF SegInv, FilesTyped
  <2>4. \A g \in HLSFiles : onDisk'[g] = IF g = f THEN "whole" ELSE onDisk[g]  BY <1>5, <2>2, <2>3
  <2>5. AskSound(r)'  BY <1>1, <2>1, <2>4 DEF AskSound, SegPlacesOf, MakesPlaces
  <2>6. LocksExact'  BY <1>1, <1>5, <2>1, SameLocks DEF LockPlaces, MakesPlaces
  <2>7. ask' \in [Asks -> AskRecords] /\ \A b \in Asks : AskSound(ask[b])'
    <3>1. \A b \in Asks : b # a /\ ask[b].at \in {"note", "evict", "open"} => onDisk'[ask[b].file] # "none"
      BY <2>4, AskFacts DEF AskSound
    <3>2. \A b \in Asks : b # a /\ ask[b].at \in {"evict", "open"} => ask[b].file \in graced'
      BY <1>2, AskFacts DEF AskSound
    <3>3. QED  BY <1>2, <2>1, <2>5, <3>1, <3>2, AsksKept
  <2>8. FilesTyped'  BY <1>2, <1>3, <1>5, <2>2, <2>3, <2>7 DEF SegInv, FilesTyped
  <2>9. IndexSound'
    <3>1. ASSUME loaded, NEW g \in SegFiles  PROVE ListsDisk(g)'
      <4>1. ListsDisk(g) /\ g \in HLSFiles  BY <3>1, FileKinds DEF SegInv, IndexSound
      <4>2. CASE g = f
        <5>1. fileLock[f] = a /\ a # 0  BY <1>1, AskFacts DEF SegInv, LocksExact, LockPlaces, MakesPlaces
        <5>2. ask'[a] = r  BY <2>1, <2>3
        <5>3. QED  BY <1>5, <2>1, <4>2, <5>1, <5>2 DEF ListsDisk
      <4>3. CASE g # f /\ fileLock[g] # 0 /\ ask[fileLock[g]].at = "note"
        <5>1. fileLock[g] \in Asks  BY <4>1, <4>3, HLSSegAssumption DEF SegInv, FilesTyped, Asks
        <5>2. ask'[fileLock[g]].at = "note"  BY <2>1, <2>3, <4>3, <5>1
        <5>3. QED  BY <1>5, <4>3, <5>2 DEF ListsDisk
      <4>4. CASE g # f /\ (onDisk[g] # "none" <=> g \in indexed)  BY <1>2, <2>4, <4>1, <4>4 DEF ListsDisk
      <4>5. QED  BY <4>1, <4>2, <4>3, <4>4 DEF ListsDisk
    <3>2. QED  BY <1>2, <3>1 DEF SegInv, IndexSound
  <2>10. CachedIsWhole' /\ (cut => closing)'
    BY <1>1, <1>2, <2>4, FileKinds DEF SegInv, CachedIsWhole
  <2>11. QED  BY <2>6, <2>7, <2>8, <2>9, <2>10 DEF SegInv
<1>6. QED  BY <1>4, <1>5 DEF Install

\* The new segment is noted.
LEMMA KNoteFresh ==
  ASSUME SegInv, NEW a \in Asks, NoteFresh(a)
  PROVE  SegInv'
<1> DEFINE f == ask[a].file
<1>1. /\ ask[a].at = "note" /\ f \in SegFiles /\ onDisk[f] # "none"
      /\ UNCHANGED <<onDisk, fileLock, provisional, duration, written, closing, cut>>
  BY AskFacts DEF NoteFresh, AskSound, SegPlacesOf, MakesPlaces, sessionVars
<1>2. PICK r \in AskRecords : ask' = [ask EXCEPT ![a] = r] /\ r.at = "evict" /\ r.file = f
  BY GoesTo DEF NoteFresh, AskPlaces, LockPlaces, MakesPlaces
<1>3. /\ indexed' \subseteq SegFiles /\ IsFiniteSet(indexed') /\ indexTotal' = Cardinality(indexed')
      /\ loaded' = TRUE /\ graced' = graced \cup {f}
      /\ \A g \in SegFiles : \/ onDisk[g] # "none" <=> g \in indexed'
                             \/ g # f /\ fileLock[g] # 0 /\ ask[fileLock[g]].at = "note"
  BY <1>1, Noted DEF NoteFresh
<1>4. AskSound(r)'  BY <1>1, <1>2, <1>3 DEF AskSound, SegPlacesOf, MakesPlaces
<1>5. LocksExact'  BY <1>1, <1>2, SameLocks DEF LockPlaces, MakesPlaces
<1>6. ask' \in [Asks -> AskRecords] /\ \A b \in Asks : AskSound(ask[b])'
  BY <1>1, <1>2, <1>3, <1>4, AsksKept, AskFacts DEF AskSound
<1>7. FilesTyped'  BY <1>1, <1>3, <1>6 DEF SegInv, FilesTyped
<1>8. IndexSound'
  <2>1. ASSUME NEW g \in SegFiles  PROVE ListsDisk(g)'
    <3>1. CASE g # f /\ fileLock[g] # 0 /\ ask[fileLock[g]].at = "note"
      <4>1. fileLock[g] \in Asks /\ ask[fileLock[g]].file = g
        BY <3>1, FileKinds, HLSSegAssumption DEF SegInv, FilesTyped, Asks, LocksExact
      <4>2. ask'[fileLock[g]] = ask[fileLock[g]]  BY <1>2, <3>1, <4>1 DEF SegInv, FilesTyped
      <4>3. QED  BY <1>1, <3>1, <4>2 DEF ListsDisk
    <3>2. CASE onDisk[g] # "none" <=> g \in indexed'  BY <1>1, <3>2 DEF ListsDisk
    <3>3. QED  BY <1>3, <3>1, <3>2
  <2>2. QED  BY <1>3, <2>1 DEF IndexSound
<1>9. CachedIsWhole' /\ (cut => closing)'  BY <1>1 DEF SegInv, CachedIsWhole
<1>10. QED  BY <1>5, <1>6, <1>7, <1>8, <1>9 DEF SegInv

\* The eviction spares what is locked, in use or just made.
LEMMA KEvict ==
  ASSUME SegInv, NEW a \in Asks, Evict(a)
  PROVE  SegInv'
<1> DEFINE f == ask[a].file
<1>1. /\ ask[a].at = "evict" /\ f \in SegFiles /\ onDisk[f] # "none" /\ f \in graced
      /\ UNCHANGED <<provisional, loaded, graced, duration, written, closing, cut>> /\ Unlocked(a)
  BY AskFacts DEF Evict, AskSound, SegPlacesOf, MakesPlaces, sessionVars
<1>2. PICK gone \in SUBSET Victims(f) :
        /\ onDisk' = [g \in HLSFiles |-> IF g \in gone THEN "none" ELSE onDisk[g]]
        /\ indexed' = indexed \ gone /\ indexTotal' = indexTotal - Cardinality(gone)
  BY DEF Evict
<1>3. PICK r \in AskRecords : ask' = [ask EXCEPT ![a] = r] /\ r.at = "open" /\ r.file = f
  BY GoesTo DEF Evict, AskPlaces
<1>4. gone \subseteq indexed /\ f \notin gone /\ \A g \in gone : g \notin graced /\ fileLock[g] = 0
  BY <1>2 DEF Victims
<1>5. indexed \subseteq SegFiles /\ SegFiles \subseteq HLSFiles /\ onDisk \in [HLSFiles -> {"none", "whole", "cut"}]
      /\ ask \in [Asks -> AskRecords]
  BY FileKinds DEF SegInv, FilesTyped
<1>6. \A g \in HLSFiles : onDisk'[g] = IF g \in gone THEN "none" ELSE onDisk[g]  BY <1>2
<1>7. AskSound(r)'
  BY <1>1, <1>3, <1>4, <1>5, <1>6 DEF AskSound, SegPlacesOf, MakesPlaces
<1>8. r.at \notin LockPlaces  BY <1>3 DEF LockPlaces, MakesPlaces
<1>9. LocksExact' /\ fileLock' \in [HLSFiles -> 0 .. NumAsks]
      /\ \A g \in HLSFiles : fileLock'[g] = IF fileLock[g] = a THEN 0 ELSE fileLock[g]
  BY <1>1, <1>3, <1>8, LockFreed
<1>10. ASSUME NEW b \in Asks, b # a, ask[b].at \in {"note", "evict", "open"}  PROVE onDisk'[ask[b].file] # "none"
  <2>1. ask[b].file \in HLSFiles /\ onDisk[ask[b].file] # "none"  BY <1>10, AskFacts DEF AskSound
  <2>2. ask[b].at = "note" => fileLock[ask[b].file] = b /\ b # 0
    BY AskFacts DEF SegInv, LocksExact, LockPlaces, MakesPlaces
  <2>3. ask[b].at # "note" => ask[b].file \in graced  BY <1>10, AskFacts DEF AskSound
  <2>4. ask[b].file \notin gone  BY <1>4, <2>2, <2>3
  <2>5. QED  BY <1>6, <2>1, <2>4
<1>11. ask' \in [Asks -> AskRecords] /\ \A b \in Asks : AskSound(ask[b])'
  <2>1. \A b \in Asks : b # a /\ ask[b].at \in {"evict", "open"} => ask[b].file \in graced'
    BY <1>1, AskFacts DEF AskSound
  <2>2. QED  BY <1>1, <1>3, <1>7, <1>10, <2>1, AsksKept
<1>12. FilesTyped'
  <2>1. onDisk' \in [HLSFiles -> {"none", "whole", "cut"}]  BY <1>2, <1>5
  <2>2. indexed' \subseteq SegFiles  BY <1>2, <1>5
  <2>3. QED  BY <1>1, <1>9, <1>11, <2>1, <2>2 DEF SegInv, FilesTyped
<1>13. IndexSound'
  <2>1. IsFiniteSet(indexed) /\ indexTotal = Cardinality(indexed)  BY DEF SegInv, IndexSound
  <2>2. IsFiniteSet(indexed \ gone) /\ Cardinality(indexed \ gone) = Cardinality(indexed) - Cardinality(gone)
    <3>1. PICK S : S = indexed  OBVIOUS
    <3>2. PICK T : T = gone  OBVIOUS
    <3>3. IsFiniteSet(S) /\ S \cap T = T  BY <1>4, <2>1, <3>1, <3>2
    <3>4. IsFiniteSet(S \ T) /\ Cardinality(S \ T) = Cardinality(S) - Cardinality(S \cap T)  BY ONLY <3>3, FS_Difference
    <3>5. QED  BY <3>1, <3>2, <3>3, <3>4
  <2>3. ASSUME loaded, NEW g \in SegFiles  PROVE ListsDisk(g)'
    <3>1. ListsDisk(g) /\ g \in HLSFiles  BY <1>5, <2>3 DEF SegInv, IndexSound
    <3>2. CASE g \in gone  BY <1>2, <1>6, <3>1, <3>2 DEF ListsDisk
    <3>3. CASE g \notin gone /\ fileLock[g] # 0 /\ ask[fileLock[g]].at = "note"
      <4>1. fileLock[g] \in Asks /\ fileLock[g] # a
        BY <1>1, <3>1, <3>3, HLSSegAssumption DEF SegInv, FilesTyped, Asks
      <4>2. ask'[fileLock[g]] = ask[fileLock[g]] /\ fileLock'[g] = fileLock[g]  BY <1>3, <1>5, <1>9, <3>1, <4>1
      <4>3. QED  BY <3>3, <4>2 DEF ListsDisk
    <3>4. CASE g \notin gone /\ (onDisk[g] # "none" <=> g \in indexed)  BY <1>2, <1>6, <3>1, <3>4 DEF ListsDisk
    <3>5. QED  BY <3>1, <3>2, <3>3, <3>4 DEF ListsDisk
  <2>4. ~loaded => indexed \ gone = {}  BY DEF SegInv, IndexSound
  <2>5. QED  BY <1>1, <1>2, <2>1, <2>2, <2>3, <2>4 DEF IndexSound
<1>14. CachedIsWhole' /\ (cut => closing)'
  <2>1. SubList \notin gone  BY <1>4, <1>5, FileKinds
  <2>2. QED  BY <1>1, <1>5, <1>6, <2>1, FileKinds DEF SegInv, CachedIsWhole
<1>15. QED  BY <1>9, <1>11, <1>12, <1>13, <1>14 DEF SegInv

LEMMA KOpenFile ==
  ASSUME SegInv, NEW a \in Asks, OpenFile(a)
  PROVE  SegInv'
<1>1. PICK r \in AskRecords : ask' = [ask EXCEPT ![a] = r] /\ r.at = "end"  BY GoesTo DEF OpenFile, AskPlaces
<1>2. /\ ask[a].at = "open"
      /\ UNCHANGED <<onDisk, fileLock, provisional, indexed, indexTotal, loaded, graced, duration, written, closing, cut>>
  BY DEF OpenFile, indexVars, sessionVars
<1>3. AskSound(r) /\ r.at \notin LockPlaces /\ r.at # "note" /\ ask[a].at \notin LockPlaces /\ ask[a].at # "note"
  BY <1>1, <1>2 DEF AskSound, SegPlacesOf, LockPlaces, MakesPlaces
<1>4. provisional' \subseteq SegFiles  BY <1>2 DEF SegInv, FilesTyped
<1>5. QED  BY <1>1, <1>2, <1>3, <1>4, AskMoves

\* A subtitle track is extracted, or its playlist rendered: neither is a segment.
LEMMA KSubtitles ==
  ASSUME SegInv, NEW a \in Asks, Extract(a) \/ RenderList(a)
  PROVE  SegInv'
<1> DEFINE f == ask[a].file
<1>1. /\ ask[a].at \in {"extract", "render"} /\ f \in {SubFile, SubList}
      /\ UNCHANGED <<provisional, indexed, indexTotal, loaded, graced, duration, closing, cut>> /\ Unlocked(a) /\ AskGoes(a, "end")
  BY AskFacts DEF Extract, RenderList, AskSound, indexVars, sessionVars
<1>2. PICK r \in AskRecords : ask' = [ask EXCEPT ![a] = r] /\ r.at = "end"  BY <1>1, GoesTo DEF AskPlaces
<1>3. AskSound(r)' /\ r.at \notin LockPlaces  BY <1>2 DEF AskSound, SegPlacesOf, LockPlaces, MakesPlaces
<1>4. onDisk \in [HLSFiles -> {"none", "whole", "cut"}] /\ ask \in [Asks -> AskRecords] /\ duration \in BOOLEAN /\ written \in BOOLEAN
  BY DEF SegInv, FilesTyped
<1>5. onDisk' \in [HLSFiles -> {"none", "whole", "cut"}] /\ (\A g \in SegFiles : onDisk'[g] = onDisk[g])
      /\ written' \in BOOLEAN /\ (written' => onDisk'[SubList] = "whole")
  <2>1. CASE Extract(a)
    <3>1. PICK got \in {"none", "whole", "cut"} : onDisk' = [onDisk EXCEPT ![SubFile] = got]  BY <2>1 DEF Extract
    <3>2. written' = written  BY <2>1 DEF Extract, sessionVars
    <3>3. written => onDisk[SubList] = "whole"  BY DEF SegInv, CachedIsWhole
    <3>4. QED  BY <1>4, <3>1, <3>2, <3>3, FileKinds
  <2>2. CASE RenderList(a) /\ onDisk' = [onDisk EXCEPT ![SubList] = IF duration THEN "whole" ELSE "cut"] /\ written' = Marks
    BY <1>4, <2>2, FileKinds DEF Marks
  <2>3. CASE RenderList(a) /\ UNCHANGED <<onDisk, written>>  BY <1>4, <2>3 DEF SegInv, CachedIsWhole
  <2>4. QED  BY <2>1, <2>2, <2>3 DEF RenderList
<1>6. LocksExact' /\ fileLock' \in [HLSFiles -> 0 .. NumAsks]
      /\ \A g \in HLSFiles : fileLock'[g] = IF fileLock[g] = a THEN 0 ELSE fileLock[g]
  BY <1>1, <1>2, <1>3, LockFreed
<1>7. ask' \in [Asks -> AskRecords] /\ \A b \in Asks : AskSound(ask[b])'
  <2>1. \A b \in Asks : b # a /\ ask[b].at \in {"note", "evict", "open"} => onDisk'[ask[b].file] # "none"
    BY <1>5, AskFacts DEF AskSound, SegPlacesOf, MakesPlaces
  <2>2. \A b \in Asks : b # a /\ ask[b].at \in {"evict", "open"} => ask[b].file \in graced'
    BY <1>1, AskFacts DEF AskSound
  <2>3. QED  BY <1>1, <1>2, <1>3, <2>1, <2>2, AsksKept
<1>8. FilesTyped'  BY <1>1, <1>5, <1>6, <1>7 DEF SegInv, FilesTyped
<1>9. IndexSound'
  <2>1. ASSUME loaded, NEW g \in SegFiles  PROVE ListsDisk(g)'
    <3>1. ListsDisk(g) /\ g \in HLSFiles  BY <2>1, FileKinds DEF SegInv, IndexSound
    <3>2. CASE fileLock[g] # 0 /\ ask[fileLock[g]].at = "note"
      <4>1. fileLock[g] \in Asks /\ fileLock[g] # a
        BY <1>1, <3>1, <3>2, HLSSegAssumption DEF SegInv, FilesTyped, Asks
      <4>2. ask'[fileLock[g]] = ask[fileLock[g]] /\ fileLock'[g] = fileLock[g]  BY <1>2, <1>4, <1>6, <3>1, <4>1
      <4>3. QED  BY <3>2, <4>2 DEF ListsDisk
    <3>3. CASE onDisk[g] # "none" <=> g \in indexed  BY <1>1, <1>5, <3>3 DEF ListsDisk
    <3>4. QED  BY <3>1, <3>2, <3>3 DEF ListsDisk
  <2>2. QED  BY <1>1, <2>1 DEF SegInv, IndexSound
<1>10. CachedIsWhole' /\ (cut => closing)'  BY <1>1, <1>5 DEF SegInv, CachedIsWhole
<1>11. QED  BY <1>6, <1>7, <1>8, <1>9, <1>10 DEF SegInv

\* The session and the process.
LEMMA KSession ==
  ASSUME SegInv, GraceEnds \/ Probed \/ BeginShutdown \/ SourcesGo
  PROVE  SegInv'
<1>1. /\ UNCHANGED <<onDisk, fileLock, provisional, indexed, indexTotal, loaded, written, ask>>
      /\ graced' \subseteq graced /\ (closing => closing') /\ (cut' => closing')
      /\ duration' \in BOOLEAN /\ closing' \in BOOLEAN /\ cut' \in BOOLEAN
  <2>1. duration \in BOOLEAN /\ closing \in BOOLEAN /\ cut \in BOOLEAN /\ (cut => closing)  BY DEF SegInv, FilesTyped
  <2>2. CASE GraceEnds  BY <2>1, <2>2 DEF GraceEnds, indexVars, sessionVars
  <2>3. CASE Probed  BY <2>1, <2>3 DEF Probed, indexVars
  <2>4. CASE BeginShutdown  BY <2>1, <2>4 DEF BeginShutdown, indexVars
  <2>5. CASE SourcesGo  BY <2>1, <2>5 DEF SourcesGo, indexVars
  <2>6. QED  BY <2>2, <2>3, <2>4, <2>5
<1>2. ASSUME NEW b \in Asks, ask[b].at \in {"evict", "open"}  PROVE ask[b].file \in graced'
  <2>1. ask[b].file \in graced  BY <1>2, AskFacts DEF AskSound
  <2>2. QED  BY <1>2, <2>1 DEF GraceEnds, Probed, BeginShutdown, SourcesGo
<1>3. \A b \in Asks : AskSound(ask[b])'
  <2>1. SUFFICES ASSUME NEW b \in Asks PROVE AskSound(ask[b])'  OBVIOUS
  <2>2. AskSound(ask[b])  BY AskFacts
  <2>3. QED  BY <1>1, <1>2, <2>2 DEF AskSound
<1>4. FilesTyped'  BY <1>1 DEF SegInv, FilesTyped
<1>5. LocksExact' /\ IndexSound' /\ CachedIsWhole'  BY <1>1 DEF SegInv, LocksExact, IndexSound, ListsDisk, CachedIsWhole
<1>6. QED  BY <1>1, <1>3, <1>4, <1>5 DEF SegInv

LEMMA KRestart ==
  ASSUME SegInv, SegRestart
  PROVE  SegInv'
<1>1. /\ fileLock' = [f \in HLSFiles |-> 0] /\ provisional' = {} /\ indexed' = {} /\ indexTotal' = 0 /\ loaded' = FALSE
      /\ graced' = {} /\ written' = FALSE /\ closing' = FALSE /\ cut' = FALSE /\ UNCHANGED <<onDisk, duration>>
  BY DEF SegRestart
<1>2. ask' = [a \in Asks |-> IF ask[a].at = "idle" THEN ask[a] ELSE NoAsk("end")]  BY DEF SegRestart
<1>3. NoAsk("end") \in AskRecords /\ NoAsk("end").at = "end"  BY FileKinds DEF NoAsk, AskRecords, AskPlaces
<1>4. ask' \in [Asks -> AskRecords] /\ \A a \in Asks : ask'[a].at \in {"idle", "end"}  BY <1>2, <1>3, AskFacts
<1>5. \A a \in Asks : AskSound(ask[a])'  BY <1>4 DEF AskSound, SegPlacesOf, MakesPlaces
<1>6. NumAsks \in Nat  BY HLSSegAssumption
<1>7. FilesTyped'
  <2>1. fileLock' \in [HLSFiles -> 0 .. NumAsks]  BY <1>1, <1>6
  <2>2. onDisk' \in [HLSFiles -> {"none", "whole", "cut"}] /\ duration' \in BOOLEAN  BY <1>1 DEF SegInv, FilesTyped
  <2>3. QED  BY <1>1, <1>4, <2>1, <2>2 DEF FilesTyped
<1>8. LocksExact'  BY <1>1, <1>4 DEF LocksExact, LockPlaces, MakesPlaces
<1>9. IndexSound'  BY <1>1, FS_EmptySet DEF IndexSound
<1>10. CachedIsWhole' /\ (cut => closing)'  BY <1>1 DEF SegInv, CachedIsWhole
<1>11. QED  BY <1>5, <1>7, <1>8, <1>9, <1>10 DEF SegInv

LEMMA SegsInitial ==
  HLSFilesInit => SegInv
<1>1. SUFFICES ASSUME HLSFilesInit PROVE SegInv  OBVIOUS
<1>2. NumAsks \in Nat  BY HLSSegAssumption
<1>3. NoAsk("idle") \in AskRecords /\ NoAsk("idle").at = "idle"  BY FileKinds DEF NoAsk, AskRecords, AskPlaces
<1>4. ask \in [Asks -> AskRecords] /\ \A a \in Asks : ask[a].at = "idle"  BY <1>1, <1>3 DEF HLSFilesInit
<1>5. FilesTyped
  <2>1. onDisk \in [HLSFiles -> {"none", "whole", "cut"}] /\ fileLock \in [HLSFiles -> 0 .. NumAsks]
    BY <1>1, <1>2 DEF HLSFilesInit
  <2>2. loaded = FALSE /\ duration = FALSE /\ written = FALSE /\ closing = FALSE /\ cut = FALSE  BY <1>1 DEF HLSFilesInit
  <2>3. provisional = {} /\ indexed = {} /\ graced = {}  BY <1>1 DEF HLSFilesInit
  <2>4. QED  BY <1>4, <2>1, <2>2, <2>3 DEF FilesTyped
<1>6. \A a \in Asks : AskSound(ask[a])  BY <1>4 DEF AskSound, SegPlacesOf, MakesPlaces
<1>7. LocksExact  BY <1>1, <1>4 DEF HLSFilesInit, LocksExact, LockPlaces, MakesPlaces
<1>8. IndexSound  BY <1>1, FS_EmptySet DEF HLSFilesInit, IndexSound
<1>9. CachedIsWhole /\ (cut => closing)  BY <1>1, FileKinds DEF HLSFilesInit, CachedIsWhole
<1>10. QED  BY <1>5, <1>6, <1>7, <1>8, <1>9 DEF SegInv

LEMMA SegsKept ==
  SegInv /\ [HLSFilesNext]_hlsFileVars => SegInv'
<1>1. SUFFICES ASSUME SegInv, [HLSFilesNext]_hlsFileVars PROVE SegInv'  OBVIOUS
<1>2. CASE UNCHANGED hlsFileVars
  BY <1>1, <1>2 DEF hlsFileVars, SegInv, FilesTyped, LocksExact, IndexSound, ListsDisk, CachedIsWhole, AskSound
<1>3. ASSUME NEW a \in Asks, AskFor(a) \/ AskRuns(a)  PROVE SegInv'
  BY <1>1, <1>3, KAskFor, KLockFile, KTakeSlot, KFails, KAttempts, KInstall, KNoteFresh, KEvict, KOpenFile, KSubtitles
    DEF AskRuns
<1>4. QED  BY <1>1, <1>2, <1>3, KSession, KRestart DEF HLSFilesNext

\* A file is locked by who is at work on it, the index lists what is there but for a segment
\* not yet noted, and a segment that was given out is spared until it has been opened.
THEOREM SegInvariant == HLSFilesSpec => []SegInv
<1>1. QED  BY SegsInitial, SegsKept, PTL DEF HLSFilesSpec

\* What is served from the cache again is whole, wherever the timestamps wrap and whatever a
\* shutdown cuts off; the index agrees with the directory; and what was given is still there
\* when it is opened: for any segments, requests, cache and encoders (hls.go, segindex.go).
THEOREM SegmentsStaySound == HLSFilesSpec => []SegmentsSound
<1>1. SegInv => SegmentsSound
  <2>1. SUFFICES ASSUME SegInv PROVE SegmentsSound  OBVIOUS
  <2>2. HLSFilesTypeOK
    <3>1. indexed \subseteq SegFiles /\ indexTotal = Cardinality(indexed)  BY <2>1 DEF SegInv, FilesTyped, IndexSound
    <3>2. indexTotal \in 0 .. Cardinality(SegFiles) + 1  BY <3>1, SegFilesFinite
    <3>3. \A a \in Asks : ask[a].file \in HLSFiles /\ ask[a].at \in AskPlaces  BY <2>1, AskFacts
    <3>4. QED  BY <2>1, <3>2, <3>3 DEF SegInv, FilesTyped, HLSFilesTypeOK, AskPlaces, LockPlaces, MakesPlaces
  <2>3. IndexExact  BY <2>1 DEF SegInv, IndexSound, ListsDisk, IndexExact
  <2>4. GivenIsThere  BY <2>1, AskFacts DEF AskSound, GivenIsThere
  <2>5. QED  BY <2>1, <2>2, <2>3, <2>4 DEF SegInv, SegmentsSound
<1>2. QED  BY <1>1, SegInvariant, PTL

-----------------------------------------------------------------------------
(* The segment path of the stream proxy (SegProxy): lists and sizes *)

\* A size is finite in bytes.
LEMMA SizeOne ==
  ASSUME NEW x, NEW n \in Nat
  PROVE  IsFiniteSet({x} \X (1 .. n)) /\ Cardinality({x} \X (1 .. n)) = n
<1>1. 1 \in Int /\ n \in Int  OBVIOUS
<1>2. IsFiniteSet(1 .. n) /\ Cardinality(1 .. n) = IF 1 > n THEN 0 ELSE n - 1 + 1  BY ONLY <1>1, FS_Interval
<1>3. Cardinality(1 .. n) = n  BY <1>2
<1>4. IsFiniteSet({x}) /\ Cardinality({x}) = 1  BY FS_Singleton
<1>5. IsFiniteSet({x} \X (1 .. n)) /\ Cardinality({x} \X (1 .. n)) = 1 * n  BY <1>2, <1>3, <1>4, FS_Product
<1>6. QED  BY <1>5

\* The bytes of finitely many sizes.
LEMMA SizesFinite ==
  ASSUME NEW D, IsFiniteSet(D), NEW size \in [D -> Nat], NEW S, S \subseteq D
  PROVE  IsFiniteSet(UNION {{x} \X (1 .. size[x]) : x \in S}) /\ Total(size, S) \in Nat
<1>1. PICK T : T = {{x} \X (1 .. size[x]) : x \in S}  OBVIOUS
<1>2. PICK f : f = [x \in S |-> {x} \X (1 .. size[x])]  OBVIOUS
<1>3. IsFiniteSet(S)  BY FS_Subset
<1>4. f \in Surjection(S, T)  BY <1>1, <1>2 DEF Surjection
<1>5. IsFiniteSet(T)  BY ONLY <1>3, <1>4, FS_Surjection
<1>6. \A x \in S : IsFiniteSet({x} \X (1 .. size[x]))  BY SizeOne
<1>7. \A U \in T : IsFiniteSet(U)  BY <1>1, <1>6
<1>8. IsFiniteSet(UNION T)  BY ONLY <1>5, <1>7, FS_UNION
<1>9. PICK B : B = UNION T  OBVIOUS
<1>10. Cardinality(B) \in Nat  BY ONLY <1>8, <1>9, FS_CardinalityType
<1>11. QED  BY <1>1, <1>8, <1>9, <1>10 DEF Total

\* Sizes that have nothing in common add up.
LEMMA TotalAdds ==
  ASSUME NEW D, IsFiniteSet(D), NEW size \in [D -> Nat], NEW S, S \subseteq D, NEW R, R \subseteq D, S \cap R = {}
  PROVE  /\ Total(size, S) \in Nat /\ Total(size, R) \in Nat
         /\ Total(size, S \cup R) = Total(size, S) + Total(size, R)
<1>1. PICK A : A = UNION {{x} \X (1 .. size[x]) : x \in S}  OBVIOUS
<1>2. PICK B : B = UNION {{x} \X (1 .. size[x]) : x \in R}  OBVIOUS
<1>3. IsFiniteSet(A) /\ Total(size, S) \in Nat  BY <1>1, SizesFinite
<1>4. IsFiniteSet(B) /\ Total(size, R) \in Nat  BY <1>2, SizesFinite
<1>5. A \cap B = {}  BY <1>1, <1>2
<1>6. A \cup B = UNION {{x} \X (1 .. size[x]) : x \in S \cup R}  BY <1>1, <1>2
<1>7. Cardinality(A \cup B) = Cardinality(A) + Cardinality(B) - Cardinality(A \cap B)  BY ONLY <1>3, <1>4, FS_Union
<1>8. Cardinality(A \cap B) = 0  BY ONLY <1>5, FS_EmptySet
<1>9. Cardinality(A) = Total(size, S) /\ Cardinality(B) = Total(size, R)  BY <1>1, <1>2 DEF Total
<1>10. Cardinality(A \cup B) = Total(size, S \cup R)  BY <1>6 DEF Total
<1>11. QED  BY <1>3, <1>4, <1>7, <1>8, <1>9, <1>10

\* The size of one, and of none.
LEMMA TotalOne == ASSUME NEW size, NEW x, size[x] \in Nat PROVE Total(size, {x}) = size[x]
<1>1. UNION {{y} \X (1 .. size[y]) : y \in {x}} = {x} \X (1 .. size[x])  OBVIOUS
<1>2. Cardinality({x} \X (1 .. size[x])) = size[x]  BY SizeOne
<1>3. QED  BY <1>1, <1>2 DEF Total

LEMMA TotalNone == ASSUME NEW size PROVE Total(size, {}) = 0
<1>1. PICK A : A = UNION {{y} \X (1 .. size[y]) : y \in {}}  OBVIOUS
<1>2. A = {}  BY <1>1
<1>3. Cardinality(A) = 0  BY ONLY <1>2, FS_EmptySet
<1>4. QED  BY <1>1, <1>3 DEF Total

\* Only the sizes of the set count.
LEMMA TotalSame ==
  ASSUME NEW p, NEW q, NEW S, \A x \in S : p[x] = q[x]
  PROVE  Total(p, S) = Total(q, S)
<1>1. PICK A : A = UNION {{x} \X (1 .. p[x]) : x \in S}  OBVIOUS
<1>2. PICK B : B = UNION {{x} \X (1 .. q[x]) : x \in S}  OBVIOUS
<1>3. A = B  BY <1>1, <1>2
<1>4. QED  BY <1>1, <1>2, <1>3 DEF Total

\* One more, one less, and a part.
LEMMA TotalPlus ==
  ASSUME NEW D, IsFiniteSet(D), NEW size \in [D -> Nat], NEW S, S \subseteq D, NEW x \in D, x \notin S
  PROVE  Total(size, S) \in Nat /\ Total(size, S \cup {x}) = Total(size, S) + size[x]
<1>1. PICK R : R = {x}  OBVIOUS
<1>2. R \subseteq D /\ S \cap R = {}  BY <1>1
<1>3. Total(size, S) \in Nat /\ Total(size, S \cup R) = Total(size, S) + Total(size, R)  BY <1>2, TotalAdds
<1>4. Total(size, R) = size[x]  BY <1>1, TotalOne
<1>5. QED  BY <1>1, <1>3, <1>4

LEMMA TotalMinus ==
  ASSUME NEW D, IsFiniteSet(D), NEW size \in [D -> Nat], NEW S, S \subseteq D, NEW x \in S
  PROVE  Total(size, S \ {x}) \in Nat /\ Total(size, S) = Total(size, S \ {x}) + size[x]
<1>1. PICK R : R = S \ {x}  OBVIOUS
<1>2. R \subseteq D /\ x \in D /\ x \notin R /\ R \cup {x} = S  BY <1>1
<1>3. Total(size, R) \in Nat /\ Total(size, R \cup {x}) = Total(size, R) + size[x]  BY <1>2, TotalPlus
<1>4. QED  BY <1>1, <1>2, <1>3

LEMMA TotalLess ==
  ASSUME NEW D, IsFiniteSet(D), NEW size \in [D -> Nat], NEW S, S \subseteq D, NEW R, R \subseteq S
  PROVE  Total(size, R) <= Total(size, S) /\ Total(size, S) \in Nat
<1>1. PICK A : A = UNION {{x} \X (1 .. size[x]) : x \in R}  OBVIOUS
<1>2. PICK B : B = UNION {{x} \X (1 .. size[x]) : x \in S}  OBVIOUS
<1>3. IsFiniteSet(B) /\ Total(size, S) \in Nat  BY <1>2, SizesFinite
<1>4. A \in SUBSET B  BY <1>1, <1>2
<1>5. Cardinality(A) <= Cardinality(B)  BY ONLY <1>3, <1>4, FS_Subset
<1>6. QED  BY <1>1, <1>2, <1>3, <1>5 DEF Total

-----------------------------------------------------------------------------
\* Every set of natural numbers has a least one.
LEMMA LeastOf == ASSUME NEW T \in SUBSET Nat, T # {} PROVE \E n \in T : \A m \in T : n <= m
<1>1. PICK R : R = {x \in Nat \X Nat : x[1] < x[2]}  OBVIOUS
<1>2. IsWellFoundedOn(R, Nat)
  <2>1. OpToRel(<, Nat) = R  BY <1>1 DEF OpToRel
  <2>2. QED  BY <2>1, NatLessThanWellFounded
<1>3. PICK n \in T : \A m \in T : ~(<<m, n>> \in R)  BY <1>2, WFMin
<1>4. ASSUME NEW m \in T PROVE n <= m
  <2>1. m \in Nat /\ n \in Nat /\ <<m, n>> \notin R  BY <1>3
  <2>2. <<m, n>> \in Nat \X Nat /\ <<m, n>>[1] = m /\ <<m, n>>[2] = n  BY <2>1
  <2>3. ~(m < n)  BY <1>1, <2>1, <2>2
  <2>4. QED  BY <2>1, <2>3
<1>5. QED  BY <1>4

\* Of the elements of a list one has the least place and, places being bounded, one the
\* greatest.
LEMMA FirstOf ==
  ASSUME NEW D, NEW place \in [D -> Nat], NEW S, S \subseteq D, S # {}
  PROVE  \E x \in S : \A y \in S : place[x] <= place[y]
<1>1. PICK T : T = {place[x] : x \in S}  OBVIOUS
<1>2. T \in SUBSET Nat /\ T # {}  BY <1>1
<1>3. PICK n \in T : \A m \in T : n <= m  BY <1>2, LeastOf
<1>4. PICK x \in S : n = place[x]  BY <1>1, <1>3
<1>5. \A y \in S : place[y] \in T  BY <1>1
<1>6. QED  BY <1>3, <1>4, <1>5

LEMMA LastOf ==
  ASSUME NEW D, NEW b \in Nat, NEW place \in [D -> 0 .. b], NEW S, S \subseteq D, S # {}
  PROVE  \E x \in S : \A y \in S : place[y] <= place[x]
<1>1. PICK f : f = [x \in D |-> b - place[x]]  OBVIOUS
<1>2. f \in [D -> Nat]
  <2>1. ASSUME NEW x \in D PROVE b - place[x] \in Nat
    <3>1. place[x] \in 0 .. b  OBVIOUS
    <3>2. QED  BY <3>1
  <2>2. QED  BY <1>1, <2>1
<1>3. PICK x \in S : \A y \in S : f[x] <= f[y]  BY <1>2, FirstOf
<1>4. ASSUME NEW y \in S PROVE place[y] <= place[x]
  <2>1. f[x] <= f[y] /\ x \in D /\ y \in D  BY <1>3
  <2>2. f[x] = b - place[x] /\ f[y] = b - place[y] /\ place[x] \in 0 .. b /\ place[y] \in 0 .. b  BY <1>1, <2>1
  <2>3. QED  BY <2>1, <2>2
<1>5. QED  BY <1>4

\* Renumbered: what stays is in the list, in one place each, and in its order.
LEMMA RenumberedKeeps ==
  ASSUME NEW D, IsFiniteSet(D), NEW place \in [D -> Nat], NEW S, S \subseteq D,
         \A x, y \in S : place[x] = place[y] => x = y
  PROVE  /\ Renumbered(place, S) \in [D -> Nat]
         /\ Cardinality(S) \in Nat
         /\ \A x \in D : Renumbered(place, S)[x] > 0 <=> x \in S
         /\ \A x \in D : Renumbered(place, S)[x] <= Cardinality(S)
         /\ \A x, y \in S : Renumbered(place, S)[x] = Renumbered(place, S)[y] => x = y
         /\ \A x, y \in S : Renumbered(place, S)[x] <= Renumbered(place, S)[y] => place[x] <= place[y]
<1>1. PICK f : f = Renumbered(place, S)  OBVIOUS
<1>2. IsFiniteSet(S) /\ Cardinality(S) \in Nat
  <2>1. IsFiniteSet(S)  BY FS_Subset
  <2>2. QED  BY <2>1, FS_CardinalityType
<1>3. \A x \in S : place[x] \in Nat  OBVIOUS
<1>4. \A x \in D \ S : f[x] = 0  BY <1>1 DEF Renumbered
<1>5. ASSUME NEW x \in S PROVE f[x] \in Nat /\ f[x] > 0 /\ f[x] <= Cardinality(S)
  <2>1. PICK V : V = {y \in S : place[y] <= place[x]}  OBVIOUS
  <2>2. x \in V /\ V \in SUBSET S  BY <1>3, <2>1
  <2>3. IsFiniteSet(V) /\ Cardinality(V) <= Cardinality(S)  BY ONLY <1>2, <2>2, FS_Subset
  <2>4. Cardinality(V) \in Nat /\ Cardinality(V) # 0  BY ONLY <2>2, <2>3, FS_EmptySet, FS_CardinalityType
  <2>5. f[x] = Cardinality(V)  BY <1>1, <2>1 DEF Renumbered
  <2>6. QED  BY <2>3, <2>4, <2>5
<1>6. ASSUME NEW x \in S, NEW y \in S, place[x] < place[y] PROVE f[x] < f[y]
  <2>1. PICK V, U : V = {z \in S : place[z] <= place[x]} /\ U = {z \in S : place[z] <= place[y]}  OBVIOUS
  <2>2. V \in SUBSET U /\ y \in U /\ y \notin V /\ U \in SUBSET S  BY <1>3, <1>6, <2>1
  <2>3. IsFiniteSet(U)  BY ONLY <1>2, <2>2, FS_Subset
  <2>4. Cardinality(V) # Cardinality(U) /\ Cardinality(V) <= Cardinality(U)  BY ONLY <2>2, <2>3, FS_Subset
  <2>5. f[x] = Cardinality(V) /\ f[y] = Cardinality(U)  BY <1>1, <2>1 DEF Renumbered
  <2>6. QED  BY <1>5, <2>4, <2>5
<1>7. ASSUME NEW x \in S, NEW y \in S, f[x] = f[y] PROVE x = y
  <2>1. ~(place[x] < place[y]) /\ ~(place[y] < place[x])  BY <1>5, <1>6, <1>7
  <2>2. place[x] = place[y]  BY <1>3, <2>1
  <2>3. QED  BY <2>2
<1>8. ASSUME NEW x \in S, NEW y \in S, f[x] <= f[y] PROVE place[x] <= place[y]
  <2>1. ~(place[y] < place[x])  BY <1>5, <1>6, <1>8
  <2>2. QED  BY <1>3, <2>1
<1>9. \A x \in D : f[x] \in Nat /\ f[x] <= Cardinality(S) /\ (f[x] > 0 <=> x \in S)  BY <1>2, <1>4, <1>5
<1>10. f \in [D -> Nat]
  <2>1. f = [x \in D |-> f[x]]  BY <1>1 DEF Renumbered
  <2>2. QED  BY <1>9, <2>1
<1>11. QED  BY <1>1, <1>2, <1>7, <1>8, <1>9, <1>10

\* PutLast: the same, and x is behind all others.
LEMMA PutLastKeeps ==
  ASSUME NEW D, IsFiniteSet(D), NEW place \in [D -> Nat], NEW S, S \subseteq D, NEW x \in D, x \notin S,
         \A y, z \in S : place[y] = place[z] => y = z
  PROVE  /\ PutLast(place, S, x) \in [D -> Nat] /\ Cardinality(S) \in Nat
         /\ \A y \in D : PutLast(place, S, x)[y] > 0 <=> y \in S \cup {x}
         /\ \A y \in D : PutLast(place, S, x)[y] <= Cardinality(S) + 1
         /\ \A y, z \in S \cup {x} : PutLast(place, S, x)[y] = PutLast(place, S, x)[z] => y = z
         /\ \A y, z \in S : PutLast(place, S, x)[y] <= PutLast(place, S, x)[z] => place[y] <= place[z]
         /\ \A y \in S : PutLast(place, S, x)[y] < PutLast(place, S, x)[x]
<1>1. PICK f, g : f = Renumbered(place, S) /\ g = PutLast(place, S, x)  OBVIOUS
<1>2. PICK n : n = Cardinality(S)  OBVIOUS
<1>3. /\ f \in [D -> Nat] /\ n \in Nat
      /\ \A y \in D : (f[y] > 0 <=> y \in S) /\ f[y] <= n
      /\ \A y, z \in S : f[y] = f[z] => y = z
      /\ \A y, z \in S : f[y] <= f[z] => place[y] <= place[z]
  BY <1>1, <1>2, RenumberedKeeps
<1>4. g = [f EXCEPT ![x] = n + 1]  BY <1>1, <1>2 DEF PutLast
<1>5. g \in [D -> Nat] /\ g[x] = n + 1 /\ (\A y \in D : y # x => g[y] = f[y])  BY <1>3, <1>4
<1>6. ASSUME NEW y \in D PROVE (g[y] > 0 <=> y \in S \cup {x}) /\ g[y] <= n + 1
  <2>1. CASE y = x  BY <1>3, <1>5, <2>1
  <2>2. CASE y # x  BY <1>3, <1>5, <2>2
  <2>3. QED  BY <2>1, <2>2
<1>7. ASSUME NEW y \in S PROVE g[y] = f[y] /\ g[y] < g[x] /\ g[y] # g[x]
  <2>1. y \in D /\ y # x /\ f[y] <= n /\ f[y] \in Nat  BY <1>3
  <2>2. QED  BY <1>3, <1>5, <2>1
<1>8. ASSUME NEW y \in S \cup {x}, NEW z \in S \cup {x}, g[y] = g[z] PROVE y = z
  <2>1. (y = x \/ y \in S) /\ (z = x \/ z \in S)  OBVIOUS
  <2>2. QED  BY <1>3, <1>7, <1>8, <2>1
<1>9. \A y, z \in S : g[y] <= g[z] => place[y] <= place[z]  BY <1>3, <1>7
<1>10. QED  BY <1>1, <1>2, <1>3, <1>5, <1>6, <1>7, <1>8, <1>9

-----------------------------------------------------------------------------
(* The cache of the stream proxy *)

\* The cache: types, one place per entry, counted and within its caps.
CacheSound ==
  /\ heat \in [SegKeys -> Nat] /\ entrySize \in [SegKeys -> 0 .. SegMax] /\ totalBytes \in Nat
  /\ \A j, k \in Cached : heat[j] = heat[k] => j = k
  /\ CacheKept

\* What the types of the cache are about.
LEMMA CacheRanges ==
  ASSUME CacheSound
  PROVE  /\ IsFiniteSet(SegKeys) /\ Cached \subseteq SegKeys /\ IsFiniteSet(Cached)
         /\ entrySize \in [SegKeys -> Nat] /\ CacheBytes \in Nat /\ CacheEntries \in Nat /\ SegMax \in Nat
<1>1. IsFiniteSet(SegKeys) /\ CacheBytes \in Nat /\ CacheEntries \in Nat /\ SegMax \in Nat  BY SegAssumption
<1>2. Cached \subseteq SegKeys  BY DEF Cached
<1>3. IsFiniteSet(Cached)  BY <1>1, <1>2, FS_Subset
<1>4. entrySize \in [SegKeys -> Nat]  BY <1>1 DEF CacheSound
<1>5. QED  BY <1>1, <1>2, <1>3, <1>4

LEMMA CacheParts ==
  ASSUME CacheSound, NEW S, S \subseteq SegKeys, NEW R, R \subseteq S, NEW Q, Q = S \ R
  PROVE  /\ Total(entrySize, S) \in Nat /\ Total(entrySize, R) \in Nat /\ Total(entrySize, Q) \in Nat
         /\ Total(entrySize, S) = Total(entrySize, R) + Total(entrySize, Q)
<1>1. IsFiniteSet(SegKeys) /\ entrySize \in [SegKeys -> Nat]  BY CacheRanges
<1>2. PICK P : P = Q  OBVIOUS
<1>3. P \subseteq SegKeys /\ R \subseteq SegKeys /\ R \cap P = {}  BY <1>2
<1>4. /\ Total(entrySize, R) \in Nat /\ Total(entrySize, P) \in Nat
      /\ Total(entrySize, R \cup P) = Total(entrySize, R) + Total(entrySize, P)
  BY <1>1, <1>3, TotalAdds
<1>5. Total(entrySize, S) = Total(entrySize, R) + Total(entrySize, P)
  <2>1. R \cup P = S  BY <1>2
  <2>2. QED  BY <1>4, <2>1
<1>6. Total(entrySize, S) \in Nat  BY <1>4, <1>5
<1>7. QED  BY <1>2, <1>4, <1>5, <1>6

\* An entry goes to the front of the entries that stay.
LEMMA ToFront ==
  ASSUME CacheSound, NEW S, S \subseteq Cached, NEW k \in SegKeys, k \notin S, heat' = PutLast(heat, S, k)
  PROVE  /\ heat' \in [SegKeys -> Nat] /\ Cached' = S \cup {k}
         /\ \A y, z \in Cached' : heat'[y] = heat'[z] => y = z
<1>1. IsFiniteSet(SegKeys) /\ heat \in [SegKeys -> Nat] /\ S \subseteq SegKeys  BY CacheRanges DEF CacheSound
<1>2. \A y, z \in S : heat[y] = heat[z] => y = z  BY DEF CacheSound
<1>3. PICK g : g = PutLast(heat, S, k)  OBVIOUS
<1>4. /\ g \in [SegKeys -> Nat]
      /\ \A y \in SegKeys : g[y] > 0 <=> y \in S \cup {k}
      /\ \A y, z \in S \cup {k} : g[y] = g[z] => y = z
  BY <1>1, <1>2, <1>3, PutLastKeeps
<1>5. heat' = g  BY <1>3
<1>6. Cached' = S \cup {k}  BY <1>1, <1>4, <1>5 DEF Cached
<1>7. QED  BY <1>4, <1>5, <1>6

\* removeLocked: the entries that go leave the count with their sizes.
LEMMA DropKeeps ==
  ASSUME CacheSound, NEW ks, ks \subseteq Cached, Drop(ks)
  PROVE  CacheSound'
<1>1. /\ IsFiniteSet(SegKeys) /\ Cached \subseteq SegKeys /\ IsFiniteSet(Cached)
      /\ entrySize \in [SegKeys -> Nat] /\ CacheBytes \in Nat /\ CacheEntries \in Nat /\ SegMax \in Nat
  BY CacheRanges
<1>2. PICK S : S = Cached \ ks  OBVIOUS
<1>3. S \subseteq SegKeys /\ S \subseteq Cached /\ (\A x, y \in S : heat[x] = heat[y] => x = y)  BY <1>1, <1>2 DEF CacheSound
<1>4. heat' = Renumbered(heat, S) /\ heat \in [SegKeys -> Nat]  BY <1>2 DEF Drop, CacheSound
<1>5. /\ heat' \in [SegKeys -> Nat]
      /\ \A x \in SegKeys : heat'[x] > 0 <=> x \in S
      /\ \A x, y \in S : heat'[x] = heat'[y] => x = y
  BY <1>1, <1>3, <1>4, RenumberedKeeps
<1>6. Cached' = S  BY <1>3, <1>5 DEF Cached
<1>7. entrySize' \in [SegKeys -> 0 .. SegMax] /\ (\A x \in S : entrySize'[x] = entrySize[x])
  <2>1. entrySize' = [k \in SegKeys |-> IF k \in ks THEN 0 ELSE entrySize[k]]  BY DEF Drop
  <2>2. \A x \in SegKeys : entrySize[x] \in 0 .. SegMax  BY DEF CacheSound
  <2>3. QED  BY <1>1, <1>2, <1>3, <2>1, <2>2
<1>8. Total(entrySize', S) = Total(entrySize, S)  BY <1>7, TotalSame
<1>9. /\ Total(entrySize, Cached) \in Nat /\ Total(entrySize, ks) \in Nat /\ Total(entrySize, S) \in Nat
      /\ Total(entrySize, Cached) = Total(entrySize, ks) + Total(entrySize, S)
  BY <1>1, <1>2, CacheParts
<1>10. totalBytes' = totalBytes - Total(entrySize, ks) /\ totalBytes = Total(entrySize, Cached) /\ totalBytes <= CacheBytes
  BY DEF Drop, CacheSound, CacheKept
<1>11. totalBytes' = Total(entrySize', S) /\ totalBytes' \in Nat /\ totalBytes' <= CacheBytes  BY <1>1, <1>8, <1>9, <1>10
<1>12. Cardinality(S) <= CacheEntries
  <2>1. Cardinality(S) <= Cardinality(Cached) /\ IsFiniteSet(S)  BY <1>1, <1>3, FS_Subset
  <2>2. Cardinality(S) \in Nat /\ Cardinality(Cached) \in Nat  BY <1>1, <2>1, FS_CardinalityType
  <2>3. Cardinality(Cached) <= CacheEntries  BY DEF CacheSound, CacheKept
  <2>4. QED  BY <1>1, <2>1, <2>2, <2>3
<1>13. CacheKept'  BY <1>6, <1>11, <1>12 DEF CacheKept
<1>14. QED  BY <1>5, <1>6, <1>7, <1>11, <1>13 DEF CacheSound

\* getFull.
LEMMA TouchKeeps ==
  ASSUME CacheSound, NEW k \in SegKeys, NEW hit \in BOOLEAN, Touch(k, hit)
  PROVE  CacheSound'
<1>1. /\ IsFiniteSet(SegKeys) /\ Cached \subseteq SegKeys /\ IsFiniteSet(Cached)
  BY CacheRanges
<1>2. CASE ~hit
  <2>1. Drop({k} \cap Cached)  BY <1>2 DEF Touch
  <2>2. {k} \cap Cached \subseteq Cached  OBVIOUS
  <2>3. QED  BY <2>1, <2>2, DropKeeps
<1>3. CASE hit
  <2>1. k \in Cached /\ heat' = PutLast(heat, Cached \ {k}, k) /\ entrySize' = entrySize /\ totalBytes' = totalBytes
    BY <1>3 DEF Touch
  <2>2. PICK S : S = Cached \ {k}  OBVIOUS
  <2>3. S \subseteq Cached /\ k \notin S /\ S \cup {k} = Cached /\ heat' = PutLast(heat, S, k)  BY <2>1, <2>2
  <2>4. /\ heat' \in [SegKeys -> Nat] /\ Cached' = Cached
        /\ \A y, z \in Cached' : heat'[y] = heat'[z] => y = z
    <3>1. /\ heat' \in [SegKeys -> Nat] /\ Cached' = S \cup {k}
          /\ \A y, z \in Cached' : heat'[y] = heat'[z] => y = z
      BY <2>3, ToFront
    <3>2. QED  BY <2>3, <3>1
  <2>5. CacheKept'  BY <2>1, <2>4 DEF CacheKept, CacheSound
  <2>6. QED  BY <2>1, <2>4, <2>5 DEF CacheSound
<1>4. QED  BY <1>2, <1>3

\* What stays beside a new entry of n bytes leaves room for it.
LEMMA KeptFits ==
  ASSUME CacheSound, NEW k \in SegKeys, NEW n \in Nat, n <= CacheBytes, NEW R, R = Kept(k, n)
  PROVE  /\ R \subseteq Cached /\ k \notin R
         /\ Cardinality(R) \in Nat /\ Cardinality(R) < CacheEntries
         /\ Total(entrySize, R) \in Nat /\ n + Total(entrySize, R) <= CacheBytes
<1>1. /\ IsFiniteSet(SegKeys) /\ Cached \subseteq SegKeys /\ IsFiniteSet(Cached)
      /\ entrySize \in [SegKeys -> Nat] /\ CacheBytes \in Nat /\ CacheEntries \in Nat /\ SegMax \in Nat
  BY CacheRanges
<1>2. R \subseteq Cached /\ k \notin R  BY DEF Kept
<1>3. ASSUME NEW j \in R, NEW hot, hot = {i \in Cached \ {k} : heat[i] >= heat[j]}
      PROVE  Cardinality(hot) < CacheEntries /\ n + Total(entrySize, hot) <= CacheBytes
  BY <1>3 DEF Kept
<1>4. R \subseteq SegKeys /\ IsFiniteSet(R)
  <2>1. R \subseteq SegKeys  BY <1>1, <1>2
  <2>2. QED  BY <1>1, <2>1, FS_Subset
<1>5. Cardinality(R) \in Nat /\ Total(entrySize, R) \in Nat  BY <1>1, <1>4, FS_CardinalityType, SizesFinite
<1>6. CASE R = {}
  <2>1. Cardinality(R) = 0  BY <1>6, FS_EmptySet
  <2>2. Total(entrySize, R) = 0  BY <1>6, TotalNone
  <2>3. 0 < CacheEntries  BY SegAssumption
  <2>4. QED  BY <1>1, <1>2, <1>5, <2>1, <2>2, <2>3
<1>7. CASE R # {}
  <2>1. heat \in [SegKeys -> Nat]  BY DEF CacheSound
  <2>2. PICK j \in R : \A i \in R : heat[j] <= heat[i]  BY <1>4, <1>7, <2>1, FirstOf
  <2>3. PICK hot : hot = {i \in Cached \ {k} : heat[i] >= heat[j]}  OBVIOUS
  <2>4. Cardinality(hot) < CacheEntries /\ n + Total(entrySize, hot) <= CacheBytes  BY <1>3, <2>3
  <2>5. R \subseteq hot /\ hot \subseteq SegKeys  BY <1>1, <1>2, <1>4, <2>1, <2>2, <2>3
  <2>6. IsFiniteSet(hot)  BY <1>1, <2>5, FS_Subset
  <2>7. Cardinality(R) <= Cardinality(hot) /\ Cardinality(hot) \in Nat  BY <2>5, <2>6, FS_Subset, FS_CardinalityType
  <2>8. PICK Q : Q = hot \ R  OBVIOUS
  <2>9. /\ Total(entrySize, hot) \in Nat /\ Total(entrySize, Q) \in Nat
        /\ Total(entrySize, hot) = Total(entrySize, R) + Total(entrySize, Q)
    BY <2>5, <2>8, CacheParts
  <2>10. Cardinality(R) < CacheEntries  BY <1>1, <1>5, <2>4, <2>7
  <2>11. n + Total(entrySize, R) <= CacheBytes  BY <1>1, <1>5, <2>4, <2>9
  <2>12. QED  BY <1>2, <1>5, <2>10, <2>11
<1>8. QED  BY <1>6, <1>7

\* putFull.
LEMMA PutKeeps ==
  ASSUME CacheSound, NEW k \in SegKeys, NEW n \in 0 .. SegMax, Put(k, n)
  PROVE  CacheSound'
<1>1. /\ IsFiniteSet(SegKeys) /\ Cached \subseteq SegKeys /\ IsFiniteSet(Cached)
      /\ entrySize \in [SegKeys -> Nat] /\ CacheBytes \in Nat /\ CacheEntries \in Nat /\ SegMax \in Nat
  BY CacheRanges
<1>2. n \in Nat  BY <1>1
<1>3. CASE n > CacheBytes
  <2>1. Drop({k} \cap Cached)  BY <1>3 DEF Put
  <2>2. {k} \cap Cached \subseteq Cached  OBVIOUS
  <2>3. QED  BY <2>1, <2>2, DropKeeps
<1>4. CASE ~(n > CacheBytes)
  <2>1. n <= CacheBytes  BY <1>1, <1>2, <1>4
  <2>2. Store(k, n, {k} \cap Cached)  BY <1>4 DEF Put
  <2>3. PICK R : R = Kept(k, n)  OBVIOUS
  <2>4. /\ R \subseteq Cached /\ k \notin R
        /\ Cardinality(R) \in Nat /\ Cardinality(R) < CacheEntries
        /\ Total(entrySize, R) \in Nat /\ n + Total(entrySize, R) <= CacheBytes
    BY ONLY CacheSound, k \in SegKeys, <1>2, <2>1, <2>3, KeptFits
  <2>5. PICK S : S = R \cup {k}  OBVIOUS
  <2>6. S \ {k} = R /\ S \subseteq SegKeys /\ R \subseteq SegKeys  BY <1>1, <2>4, <2>5
  <2>7. PICK gone : gone = Cached \ S  OBVIOUS
  <2>8. /\ heat' = PutLast(heat, R, k)
        /\ entrySize' = [j \in SegKeys |-> IF j = k THEN n ELSE IF j \in gone THEN 0 ELSE entrySize[j]]
        /\ totalBytes' = totalBytes + n - Total(entrySize, gone \cup ({k} \cap Cached))
    BY <2>2, <2>3, <2>5, <2>7 DEF Store
  <2>10. /\ heat' \in [SegKeys -> Nat] /\ Cached' = R \cup {k}
         /\ \A y, z \in Cached' : heat'[y] = heat'[z] => y = z
    BY <2>4, <2>8, ToFront
  <2>11. Cached' = S  BY <2>5, <2>10
  <2>12. /\ entrySize' \in [SegKeys -> 0 .. SegMax] /\ entrySize'[k] = n
         /\ \A x \in R : entrySize'[x] = entrySize[x]
    <3>1. \A x \in SegKeys : entrySize[x] \in 0 .. SegMax  BY DEF CacheSound
    <3>2. \A x \in R : x # k /\ x \notin gone /\ x \in SegKeys  BY <2>4, <2>5, <2>6, <2>7
    <3>3. QED  BY <1>1, <2>8, <3>1, <3>2
  <2>13. Total(entrySize', S) = Total(entrySize, R) + n
    <3>1. entrySize' \in [SegKeys -> Nat]  BY <1>1, <2>12
    <3>2. k \in S  BY <2>5
    <3>3. Total(entrySize', S) = Total(entrySize', S \ {k}) + entrySize'[k]  BY <1>1, <2>6, <3>1, <3>2, TotalMinus
    <3>4. Total(entrySize', R) = Total(entrySize, R)  BY <2>12, TotalSame
    <3>5. QED  BY <2>6, <2>12, <3>3, <3>4
  <2>14. PICK off : off = gone \cup ({k} \cap Cached)  OBVIOUS
  <2>15. R \subseteq Cached /\ off = Cached \ R  BY <2>4, <2>5, <2>7, <2>14
  <2>16. /\ Total(entrySize, Cached) \in Nat /\ Total(entrySize, off) \in Nat
         /\ Total(entrySize, Cached) = Total(entrySize, R) + Total(entrySize, off)
    BY ONLY CacheSound, <1>1, <2>15, CacheParts
  <2>17. totalBytes = Total(entrySize, Cached) /\ totalBytes' = totalBytes + n - Total(entrySize, off)
    BY <2>8, <2>14 DEF CacheSound, CacheKept
  <2>18. totalBytes' = Total(entrySize', S) /\ totalBytes' \in Nat /\ totalBytes' <= CacheBytes
    BY <1>1, <1>2, <2>4, <2>13, <2>16, <2>17
  <2>19. Cardinality(S) <= CacheEntries
    <3>1. IsFiniteSet(R) /\ k \notin R  BY <1>1, <2>4, <2>6, FS_Subset
    <3>2. Cardinality(R \cup {k}) = Cardinality(R) + 1  BY <3>1, FS_AddElement
    <3>3. QED  BY <1>1, <2>4, <2>5, <3>2
  <2>20. CacheKept'  BY <2>11, <2>18, <2>19 DEF CacheKept
  <2>21. QED  BY <2>10, <2>11, <2>12, <2>18, <2>20 DEF CacheSound
<1>5. QED  BY <1>3, <1>4

-----------------------------------------------------------------------------
(* The budget of the bodies in flight *)

FetchesTyped == req \in [Fetches -> FetchRecords]

\* A request in the list waits there.
WaitersWait == \A f \in Waiters : req[f].at = "queued"

\* Where a request holds bytes, unless it is in the list.
Holding == {"read", "decrypt", "queued"}

\* The budget: types, one place per waiter, counted and kept.
BudgetSound ==
  /\ FetchesTyped /\ used \in Nat /\ turn \in [Fetches -> 0 .. NumFetches]
  /\ \A f, g \in Waiters : turn[f] = turn[g] => f = g
  /\ BudgetKept /\ WaitersWait

\* What the types of the requests are about.
LEMMA FetchBounds ==
  /\ NumFetches \in Nat /\ SegMax \in Nat /\ Inflight \in Nat /\ SegMax <= Inflight
  /\ IsFiniteSet(Fetches) /\ Cardinality(Fetches) = NumFetches
<1>1. NumFetches \in Nat /\ SegMax \in Nat /\ Inflight \in Nat /\ SegMax <= Inflight  BY SegAssumption
<1>2. 1 \in Int /\ NumFetches \in Int  BY <1>1
<1>3. IsFiniteSet(1 .. NumFetches) /\ Cardinality(1 .. NumFetches) = IF 1 > NumFetches THEN 0 ELSE NumFetches - 1 + 1
  BY ONLY <1>2, FS_Interval
<1>4. Cardinality(1 .. NumFetches) = NumFetches  BY <1>1, <1>3
<1>5. QED  BY <1>1, <1>3, <1>4 DEF Fetches

LEMMA ReservationType == ASSUME NEW n \in {Unknown} \cup 0 .. SegMax PROVE Reservation(n) \in 0 .. SegMax
<1>1. SegMax \in Nat  BY SegAssumption
<1>2. CASE n = Unknown  BY <1>1, <1>2 DEF Reservation
<1>3. CASE n # Unknown  BY <1>1, <1>3 DEF Reservation
<1>4. QED  BY <1>2, <1>3

LEMMA NeedsTyped ==
  ASSUME FetchesTyped
  PROVE  Needs \in [Fetches -> Nat] /\ (\A f \in Fetches : Needs[f] = Reservation(req[f].len) /\ Needs[f] <= Inflight)
<1>1. NumFetches \in Nat /\ SegMax \in Nat /\ Inflight \in Nat /\ SegMax <= Inflight  BY FetchBounds
<1>2. ASSUME NEW f \in Fetches PROVE Reservation(req[f].len) \in 0 .. SegMax
  <2>1. req[f].len \in {Unknown} \cup 0 .. SegMax  BY DEF FetchesTyped, FetchRecords
  <2>2. QED  BY <2>1, ReservationType
<1>3. QED  BY <1>1, <1>2 DEF Needs

LEMMA NeedsTypedNext ==
  ASSUME FetchesTyped'
  PROVE  Needs' \in [Fetches -> Nat] /\ (\A f \in Fetches : Needs'[f] = Reservation(req'[f].len) /\ Needs'[f] <= Inflight)
<1>1. NumFetches \in Nat /\ SegMax \in Nat /\ Inflight \in Nat /\ SegMax <= Inflight  BY FetchBounds
<1>2. ASSUME NEW f \in Fetches PROVE Reservation(req'[f].len) \in 0 .. SegMax
  <2>1. req'[f].len \in {Unknown} \cup 0 .. SegMax  BY DEF FetchesTyped, FetchRecords
  <2>2. QED  BY <2>1, ReservationType
<1>3. QED  BY <1>1, <1>2 DEF Needs

\* notifyLocked, when H holds u bytes and W waits: the budget is right again.
LEMMA NotifyKeeps ==
  ASSUME BudgetSound, FetchesTyped', NEW W, W \subseteq Waiters, NEW u \in Nat, u <= Inflight, Notify(W, u),
         NEW H, H \subseteq Fetches, H \cap W = {}, u = Total(Needs', H),
         \A g \in W : req'[g].at = "queued" /\ req'[g].len = req[g].len,
         \A g \in Fetches : g \notin W => (g \in H <=> req'[g].at \in Holding)
  PROVE  BudgetSound'
<1>1. NumFetches \in Nat /\ Inflight \in Nat /\ IsFiniteSet(Fetches) /\ Cardinality(Fetches) = NumFetches  BY FetchBounds
<1>2. W \subseteq Fetches  BY DEF Waiters
<1>3. PICK fit : fit = {f \in W : u + Total(Needs, {g \in W : turn[g] <= turn[f]}) <= Inflight}  OBVIOUS
<1>4. PICK L : L = W \ fit  OBVIOUS
<1>5. turn' = Renumbered(turn, L) /\ used' = u + Total(Needs, fit)  BY <1>3, <1>4 DEF Notify
<1>6. L \subseteq W /\ fit \subseteq W /\ L \cap fit = {} /\ W = L \cup fit  BY <1>3, <1>4
<1>7. L \subseteq Fetches /\ fit \subseteq Fetches /\ H \cap fit = {}  BY <1>2, <1>6
<1>8. turn \in [Fetches -> Nat] /\ turn \in [Fetches -> 0 .. NumFetches]  BY <1>1 DEF BudgetSound
<1>9. /\ turn' \in [Fetches -> 0 .. NumFetches] /\ (\A x \in Fetches : turn'[x] \in Nat)
      /\ \A x \in Fetches : turn'[x] > 0 <=> x \in L
      /\ \A x, y \in L : turn'[x] = turn'[y] => x = y
      /\ \A x, y \in L : turn'[x] <= turn'[y] => turn[x] <= turn[y]
  <2>1. \A x, y \in L : turn[x] = turn[y] => x = y  BY <1>6 DEF BudgetSound
  <2>2. /\ turn' \in [Fetches -> Nat]
        /\ Cardinality(L) \in Nat
        /\ \A x \in Fetches : turn'[x] > 0 <=> x \in L
        /\ \A x \in Fetches : turn'[x] <= Cardinality(L)
        /\ \A x, y \in L : turn'[x] = turn'[y] => x = y
        /\ \A x, y \in L : turn'[x] <= turn'[y] => turn[x] <= turn[y]
    BY <1>1, <1>5, <1>7, <1>8, <2>1, RenumberedKeeps
  <2>3. Cardinality(L) <= NumFetches  BY <1>1, <1>7, FS_Subset
  <2>4. \A x \in Fetches : turn'[x] \in 0 .. NumFetches /\ turn'[x] \in Nat  BY <1>1, <2>2, <2>3
  <2>5. turn' \in [Fetches -> 0 .. NumFetches]  BY <2>2, <2>4
  <2>6. QED  BY <2>2, <2>4, <2>5
<1>10. Waiters' = L  BY <1>7, <1>9 DEF Waiters
<1>11. Buffering' = H \cup fit
  <2>1. ASSUME NEW g \in Fetches PROVE g \in Buffering' <=> g \in H \cup fit
    <3>1. g \in Buffering' <=> req'[g].at \in {"read", "decrypt"} \/ (req'[g].at = "queued" /\ g \notin L)
      BY <1>10 DEF Buffering
    <3>2. CASE g \in W  BY <1>4, <1>6, <3>1, <3>2
    <3>3. CASE g \notin W  BY <1>6, <3>1, <3>3 DEF Holding
    <3>4. QED  BY <3>2, <3>3
  <2>2. Buffering' \subseteq Fetches  BY DEF Buffering
  <2>3. QED  BY <1>7, <2>1, <2>2
<1>12. Needs \in [Fetches -> Nat] /\ Needs' \in [Fetches -> Nat]  BY NeedsTyped, NeedsTypedNext DEF BudgetSound
<1>13. \A g \in W : Needs'[g] = Needs[g]  BY <1>2, NeedsTyped, NeedsTypedNext DEF BudgetSound
<1>14. Total(Needs', fit) = Total(Needs, fit)
  <2>1. \A g \in fit : Needs'[g] = Needs[g]  BY <1>6, <1>13
  <2>2. QED  BY <2>1, TotalSame
<1>15. Total(Needs, fit) \in Nat  BY <1>1, <1>7, <1>12, SizesFinite
<1>16. used' = Total(Needs', Buffering') /\ used' \in Nat
  <2>1. Total(Needs', H \cup fit) = Total(Needs', H) + Total(Needs', fit)  BY <1>1, <1>7, <1>12, TotalAdds
  <2>2. QED  BY <1>5, <1>11, <1>14, <1>15, <2>1
<1>17. used' <= Inflight
  <2>1. CASE fit = {}
    <3>1. Total(Needs, fit) = 0  BY <2>1, TotalNone
    <3>2. QED  BY <1>1, <1>5, <3>1
  <2>2. CASE fit # {}
    <3>1. PICK f \in fit : \A y \in fit : turn[y] <= turn[f]  BY <1>1, <1>7, <1>8, <2>2, LastOf
    <3>2. PICK A : A = {g \in W : turn[g] <= turn[f]}  OBVIOUS
    <3>3. u + Total(Needs, A) <= Inflight  BY <1>3, <3>2
    <3>4. fit \subseteq A /\ A \subseteq Fetches  BY <1>2, <1>6, <3>1, <3>2
    <3>5. Total(Needs, fit) <= Total(Needs, A) /\ Total(Needs, A) \in Nat  BY <1>1, <1>12, <3>4, TotalLess
    <3>6. QED  BY <1>1, <1>5, <1>15, <3>3, <3>5
  <2>3. QED  BY <2>1, <2>2
<1>18. ASSUME NEW f \in Waiters', \A g \in Waiters' : turn'[f] <= turn'[g] PROVE used' + Needs'[f] > Inflight
  <2>1. f \in L /\ f \in W /\ f \in Fetches /\ f \notin fit  BY <1>6, <1>7, <1>10
  <2>2. PICK A : A = {g \in W : turn[g] <= turn[f]}  OBVIOUS
  <2>3. ~(u + Total(Needs, A) <= Inflight)  BY <1>3, <2>1, <2>2
  <2>4. ASSUME NEW g \in A PROVE g \in fit \cup {f}
    <3>1. g \in W /\ turn[g] <= turn[f]  BY <2>2
    <3>2. CASE g \in fit  BY <3>2
    <3>3. CASE g \in L
      <4>1. turn[f] <= turn[g]  BY <1>9, <1>10, <1>18, <2>1, <3>3
      <4>2. turn[f] = turn[g]  BY <1>2, <1>8, <2>1, <3>1, <4>1
      <4>3. f = g  BY <2>1, <3>1, <4>2 DEF BudgetSound
      <4>4. QED  BY <4>3
    <3>4. QED  BY <1>6, <3>1, <3>2, <3>3
  <2>5. PICK B : B = fit \cup {f}  OBVIOUS
  <2>6. A \subseteq B /\ B \subseteq Fetches  BY <1>7, <2>1, <2>4, <2>5
  <2>7. Total(Needs, A) <= Total(Needs, B) /\ Total(Needs, A) \in Nat  BY <1>1, <1>12, <2>6, TotalLess
  <2>8. Total(Needs, B) = Total(Needs, fit) + Needs[f]  BY <1>1, <1>7, <1>12, <2>1, <2>5, TotalPlus
  <2>9. Needs[f] \in Nat /\ Needs'[f] = Needs[f]  BY <1>12, <1>13, <2>1
  <2>10. QED  BY <1>1, <1>5, <1>15, <2>3, <2>7, <2>8, <2>9
<1>19. BudgetKept'  BY <1>16, <1>17, <1>18 DEF BudgetKept
<1>20. WaitersWait'  BY <1>6, <1>10 DEF WaitersWait
<1>21. \A f, g \in Waiters' : turn'[f] = turn'[g] => f = g  BY <1>9, <1>10
<1>22. QED  BY <1>9, <1>16, <1>19, <1>20, <1>21 DEF BudgetSound

-----------------------------------------------------------------------------
\* A request is somewhere else, or somewhere no longer.
LEMMA AbsentTyped == ASSUME NEW l \in SegPlaces PROVE Absent(l) \in FetchRecords /\ Absent(l).at = l
<1>1. (CHOOSE k \in SegKeys : TRUE) \in SegKeys  BY SegAssumption
<1>2. 0 \in {Unknown} \cup 0 .. SegMax  BY SegAssumption
<1>3. PICK k \in SegKeys : k = CHOOSE j \in SegKeys : TRUE  BY <1>1
<1>4. Absent(l) = [at |-> l, kind |-> "stream", key |-> k, len |-> 0, ok |-> FALSE]  BY <1>3 DEF Absent
<1>5. QED  BY <1>2, <1>4 DEF FetchRecords

LEMMA MovedTyped ==
  ASSUME FetchesTyped, NEW f \in Fetches, NEW l \in SegPlaces
  PROVE  /\ Moved(f, l) \in FetchRecords /\ Moved(f, l).at = l
         /\ l # "end" => Moved(f, l).len = req[f].len
<1>1. CASE l = "end"  BY <1>1, AbsentTyped DEF Moved
<1>2. CASE l # "end"
  <2>1. PICK r \in FetchRecords : r = req[f]  BY DEF FetchesTyped
  <2>2. Moved(f, l) = [r EXCEPT !.at = l]  BY <1>2, <2>1 DEF Moved
  <2>3. QED  BY <2>1, <2>2 DEF FetchRecords
<1>3. QED  BY <1>1, <1>2

LEMMA ReqMoves ==
  ASSUME FetchesTyped, NEW f \in Fetches, NEW r \in FetchRecords, req' = [req EXCEPT ![f] = r]
  PROVE  FetchesTyped' /\ req'[f] = r /\ (\A g \in Fetches : g # f => req'[g] = req[g])
BY DEF FetchesTyped

\* Nothing is granted, given back or waited for.
LEMMA BudgetStays ==
  ASSUME BudgetSound, FetchesTyped', UNCHANGED budgetVars, used = Total(Needs', Buffering'),
         \A g \in Waiters : req'[g].at = "queued" /\ req'[g].len = req[g].len
  PROVE  BudgetSound'
<1>1. used' = used /\ turn' = turn /\ Waiters' = Waiters  BY DEF budgetVars, Waiters
<1>2. \A g \in Waiters : Needs'[g] = Needs[g]
  <2>1. Waiters \subseteq Fetches  BY DEF Waiters
  <2>2. QED  BY <2>1, NeedsTyped, NeedsTypedNext DEF BudgetSound
<1>3. WaitersWait'  BY <1>1 DEF WaitersWait
<1>4. BudgetKept'  BY <1>1, <1>2 DEF BudgetKept, BudgetSound
<1>5. QED  BY <1>1, <1>3, <1>4 DEF BudgetSound

\* Requests that hold no bytes move.
LEMMA QuietSteps ==
  ASSUME BudgetSound, FetchesTyped', UNCHANGED budgetVars,
         \A g \in Fetches : req'[g] = req[g] \/ (req[g].at \notin Holding /\ req'[g].at \notin Holding)
  PROVE  BudgetSound'
<1>1. Waiters' = Waiters /\ Waiters \subseteq Fetches  BY DEF budgetVars, Waiters
<1>2. \A g \in Waiters : req'[g] = req[g]  BY <1>1 DEF BudgetSound, WaitersWait, Holding
<1>3. \A g \in Buffering : req'[g] = req[g]  BY DEF Buffering, Holding
<1>4. Buffering' = Buffering
  <2>1. ASSUME NEW g \in Fetches PROVE g \in Buffering' <=> g \in Buffering  BY <1>1 DEF Buffering, Holding
  <2>2. Buffering' \subseteq Fetches /\ Buffering \subseteq Fetches  BY DEF Buffering
  <2>3. QED  BY <2>1, <2>2
<1>5. Total(Needs', Buffering) = Total(Needs, Buffering)
  <2>1. \A g \in Buffering : g \in Fetches  BY DEF Buffering
  <2>2. \A g \in Buffering : Needs'[g] = Needs[g]  BY <1>3, <2>1, NeedsTyped, NeedsTypedNext DEF BudgetSound
  <2>3. QED  BY <2>2, TotalSame
<1>6. used = Total(Needs', Buffering')  BY <1>4, <1>5 DEF BudgetSound, BudgetKept
<1>7. \A g \in Waiters : req'[g].at = "queued" /\ req'[g].len = req[g].len  BY <1>2 DEF BudgetSound, WaitersWait
<1>8. QED  BY <1>6, <1>7, BudgetStays

LEMMA QuietMove ==
  ASSUME BudgetSound, NEW f \in Fetches, NEW r \in FetchRecords, req' = [req EXCEPT ![f] = r], UNCHANGED budgetVars,
         req[f].at \notin Holding, r.at \notin Holding
  PROVE  BudgetSound'
<1>1. FetchesTyped  BY DEF BudgetSound
<1>2. FetchesTyped' /\ req'[f] = r /\ (\A g \in Fetches : g # f => req'[g] = req[g])  BY <1>1, ReqMoves
<1>3. \A g \in Fetches : req'[g] = req[g] \/ (req[g].at \notin Holding /\ req'[g].at \notin Holding)  BY <1>2
<1>4. QED  BY <1>2, <1>3, QuietSteps

\* What the others hold, when f moves.
LEMMA OthersHold ==
  ASSUME BudgetSound, NEW f \in Fetches, f \in Buffering, FetchesTyped', \A g \in Fetches : g # f => req'[g] = req[g]
  PROVE  /\ used = Total(Needs', Buffering \ {f}) + Needs[f] /\ Total(Needs', Buffering \ {f}) \in Nat
         /\ f \notin Waiters /\ Buffering \subseteq Fetches
<1>1. IsFiniteSet(Fetches)  BY FetchBounds
<1>2. Needs \in [Fetches -> Nat]  BY NeedsTyped DEF BudgetSound
<1>3. PICK B : B = Buffering  OBVIOUS
<1>4. B \subseteq Fetches /\ f \in B  BY <1>3 DEF Buffering
<1>5. Total(Needs, B \ {f}) \in Nat /\ Total(Needs, B) = Total(Needs, B \ {f}) + Needs[f]  BY <1>1, <1>2, <1>4, TotalMinus
<1>6. Total(Needs', B \ {f}) = Total(Needs, B \ {f})
  <2>1. \A g \in B \ {f} : g \in Fetches /\ req'[g] = req[g]  BY <1>4
  <2>2. \A g \in B \ {f} : Needs'[g] = Needs[g]  BY <2>1, NeedsTyped, NeedsTypedNext DEF BudgetSound
  <2>3. QED  BY <2>2, TotalSame
<1>7. used = Total(Needs, B)  BY <1>3 DEF BudgetSound, BudgetKept
<1>8. f \notin Waiters  BY DEF Buffering, BudgetSound, WaitersWait
<1>9. QED  BY <1>3, <1>4, <1>5, <1>6, <1>7, <1>8

\* A request gives back all it has, and those who waited for it are granted theirs.
LEMMA GivesBack ==
  ASSUME BudgetSound, NEW f \in Fetches, f \in Buffering, NEW r \in FetchRecords, req' = [req EXCEPT ![f] = r],
         r.at \notin Holding, Notify(Waiters, used - Needs[f])
  PROVE  BudgetSound'
<1>1. FetchesTyped /\ used \in Nat /\ used <= Inflight  BY DEF BudgetSound, BudgetKept
<1>2. FetchesTyped' /\ req'[f] = r /\ (\A g \in Fetches : g # f => req'[g] = req[g])  BY <1>1, ReqMoves
<1>3. PICK H : H = Buffering \ {f}  OBVIOUS
<1>4. /\ used = Total(Needs', H) + Needs[f] /\ Total(Needs', H) \in Nat /\ f \notin Waiters /\ Buffering \subseteq Fetches
  BY <1>2, <1>3, OthersHold
<1>5. PICK u : u = used - Needs[f]  OBVIOUS
<1>6. Needs[f] \in Nat /\ Inflight \in Nat  BY <1>1, NeedsTyped, FetchBounds
<1>7. u = Total(Needs', H) /\ u \in Nat /\ u <= Inflight  BY <1>1, <1>4, <1>5, <1>6
<1>8. PICK W : W = Waiters  OBVIOUS
<1>9. W \subseteq Waiters /\ Notify(W, u) /\ W \subseteq Fetches  BY <1>5, <1>8 DEF Waiters
<1>10. H \subseteq Fetches /\ H \cap W = {}
  BY <1>3, <1>4, <1>8 DEF Buffering, BudgetSound, WaitersWait
<1>11. \A g \in W : req'[g].at = "queued" /\ req'[g].len = req[g].len
  BY <1>2, <1>4, <1>8, <1>9 DEF BudgetSound, WaitersWait
<1>12. ASSUME NEW g \in Fetches, g \notin W PROVE g \in H <=> req'[g].at \in Holding
  <2>1. CASE g = f  BY <1>2, <1>3, <2>1
  <2>2. CASE g # f  BY <1>2, <1>3, <1>8, <1>12, <2>2 DEF Buffering, Holding
  <2>3. QED  BY <2>1, <2>2
<1>13. QED  BY <1>2, <1>7, <1>9, <1>10, <1>11, <1>12, NotifyKeeps

LEMMA Releases ==
  ASSUME BudgetSound, NEW f \in Fetches, req[f].at \in {"read", "decrypt"}, NEW r \in FetchRecords,
         req' = [req EXCEPT ![f] = r], r.at \notin Holding, ReleaseBytes(Needs[f])
  PROVE  BudgetSound'
<1>1. f \in Buffering  BY DEF Buffering
<1>2. FetchesTyped /\ used \in Nat /\ used <= Inflight  BY DEF BudgetSound, BudgetKept
<1>3. Needs[f] \in Nat  BY <1>2, NeedsTyped
<1>4. CASE Needs[f] > 0
  <2>1. Notify(Waiters, used - Needs[f])  BY <1>3, <1>4 DEF ReleaseBytes
  <2>2. QED  BY <1>1, <2>1, GivesBack
<1>5. CASE Needs[f] = 0
  <2>1. UNCHANGED budgetVars  BY <1>5 DEF ReleaseBytes
  <2>2. FetchesTyped' /\ req'[f] = r /\ (\A g \in Fetches : g # f => req'[g] = req[g])  BY <1>2, ReqMoves
  <2>3. PICK H : H = Buffering \ {f}  OBVIOUS
  <2>4. /\ used = Total(Needs', H) + Needs[f] /\ Total(Needs', H) \in Nat /\ f \notin Waiters /\ Buffering \subseteq Fetches
    BY <1>1, <2>2, <2>3, OthersHold
  <2>5. Waiters' = Waiters /\ Waiters \subseteq Fetches  BY <2>1 DEF Waiters, budgetVars
  <2>6. Buffering' = H
    <3>1. ASSUME NEW g \in Fetches PROVE g \in Buffering' <=> g \in H
      <4>1. CASE g = f  BY <2>2, <2>3, <4>1 DEF Buffering, Holding
      <4>2. CASE g # f  BY <2>2, <2>3, <2>5, <4>2 DEF Buffering
      <4>3. QED  BY <4>1, <4>2
    <3>2. Buffering' \subseteq Fetches  BY DEF Buffering
    <3>3. QED  BY <2>3, <2>4, <3>1, <3>2
  <2>7. used = Total(Needs', Buffering')  BY <1>5, <2>4, <2>6
  <2>8. \A g \in Waiters : req'[g].at = "queued" /\ req'[g].len = req[g].len
    BY <2>2, <2>4, <2>5 DEF BudgetSound, WaitersWait
  <2>9. QED  BY <2>1, <2>2, <2>7, <2>8, BudgetStays
<1>6. QED  BY <1>3, <1>4, <1>5

-----------------------------------------------------------------------------
(* The steps of the stream proxy's segments *)

FlightsTyped == flights \in [SegKeys -> {0} \cup Fetches]

\* The inductive invariant: SegMemory, and that only waiting requests are in the list.
MemoryInv == CacheSound /\ FlightsTyped /\ BudgetSound

LEMMA CacheStays == ASSUME CacheSound, UNCHANGED cacheVars PROVE CacheSound'
<1>1. heat' = heat /\ entrySize' = entrySize /\ totalBytes' = totalBytes /\ Cached' = Cached  BY DEF cacheVars, Cached
<1>2. QED  BY <1>1 DEF CacheSound, CacheKept

LEMMA FetchKey ==
  ASSUME MemoryInv, NEW f \in Fetches
  PROVE  FetchesTyped /\ req[f] \in FetchRecords /\ req[f].key \in SegKeys /\ req[f].at \in SegPlaces
BY DEF MemoryInv, BudgetSound, FetchesTyped, FetchRecords

\* Nothing but requests, which hold nothing, moves.
LEMMA OnlyMoves ==
  ASSUME MemoryInv, NEW f \in Fetches, NEW r \in FetchRecords, req' = [req EXCEPT ![f] = r],
         req[f].at \notin Holding, r.at \notin Holding, UNCHANGED <<cacheVars, flights, budgetVars>>
  PROVE  MemoryInv'
<1>1. CacheSound'  BY CacheStays DEF MemoryInv
<1>2. FlightsTyped'  BY DEF MemoryInv, FlightsTyped
<1>3. BudgetSound'  BY QuietMove DEF MemoryInv
<1>4. QED  BY <1>1, <1>2, <1>3 DEF MemoryInv

LEMMA KSweep == ASSUME MemoryInv, Sweep PROVE MemoryInv'
<1>1. PICK ks \in SUBSET Cached : Drop(ks)  BY DEF Sweep
<1>2. flights' = flights /\ UNCHANGED budgetVars /\ req' = req  BY DEF Sweep
<1>3. CacheSound'  BY <1>1, DropKeeps DEF MemoryInv
<1>4. BudgetSound'
  <2>1. FetchesTyped'  BY <1>2 DEF MemoryInv, BudgetSound, FetchesTyped
  <2>2. \A g \in Fetches : req'[g] = req[g]  BY <1>2
  <2>3. QED  BY <1>2, <2>1, <2>2, QuietSteps DEF MemoryInv
<1>5. QED  BY <1>2, <1>3, <1>4 DEF MemoryInv, FlightsTyped

LEMMA KStart == ASSUME MemoryInv, NEW f \in Fetches, Start(f) PROVE MemoryInv'
<1>1. PICK k \in SegKeys, c \in {"prefetch", "stream", "decrypt"} :
        req' = [req EXCEPT ![f] = [Absent(CASE c = "prefetch" -> "lookup" [] c = "stream" -> "flight" [] OTHER -> "fetch")
                                     EXCEPT !.key = k, !.kind = c]]
  BY DEF Start
<1>2. PICK l : l = CASE c = "prefetch" -> "lookup" [] c = "stream" -> "flight" [] OTHER -> "fetch"  OBVIOUS
<1>3. l \in SegPlaces /\ l \notin Holding  BY <1>2 DEF SegPlaces, Holding
<1>4. PICK a \in FetchRecords : a = Absent(l) /\ a.at = l  BY <1>3, AbsentTyped
<1>5. PICK r : r = [a EXCEPT !.key = k, !.kind = c]  OBVIOUS
<1>6. r \in FetchRecords /\ r.at = l  BY <1>4, <1>5 DEF FetchRecords
<1>7. req' = [req EXCEPT ![f] = r]  BY <1>1, <1>2, <1>4, <1>5
<1>8. req[f].at \notin Holding /\ UNCHANGED <<cacheVars, flights, budgetVars>>  BY DEF Start, Holding
<1>9. QED  BY <1>3, <1>6, <1>7, <1>8, OnlyMoves

LEMMA KLookup == ASSUME MemoryInv, NEW f \in Fetches, Lookup(f) PROVE MemoryInv'
<1>1. FetchesTyped /\ req[f].key \in SegKeys  BY FetchKey
<1>2. PICK hit \in BOOLEAN :
        /\ Touch(req[f].key, hit)
        /\ req' = [req EXCEPT ![f] =
                     IF hit THEN OnHit(f)
                     ELSE Moved(f, IF req[f].at = "lookup" /\ req[f].kind = "prefetch" THEN "join" ELSE "fetch")]
  BY DEF Lookup
<1>3. req[f].at \in {"lookup", "relookup"} /\ flights' = flights /\ UNCHANGED budgetVars  BY DEF Lookup
<1>4. CacheSound'  BY <1>1, <1>2, TouchKeeps DEF MemoryInv
<1>5. PICK r : r = IF hit THEN OnHit(f)
                   ELSE Moved(f, IF req[f].at = "lookup" /\ req[f].kind = "prefetch" THEN "join" ELSE "fetch")
  OBVIOUS
<1>6. r \in FetchRecords /\ r.at \notin Holding
  <2>1. CASE ~hit
    <3>1. PICK l \in {"join", "fetch"} : r = Moved(f, l)  BY <1>5, <2>1
    <3>2. l \in SegPlaces  BY DEF SegPlaces
    <3>3. Moved(f, l) \in FetchRecords /\ Moved(f, l).at = l  BY <1>1, <3>2, MovedTyped
    <3>4. QED  BY <3>1, <3>3 DEF Holding
  <2>2. CASE hit
    <3>1. "finish" \in SegPlaces /\ "end" \in SegPlaces  BY DEF SegPlaces
    <3>2. PICK a : a = Moved(f, "finish")  OBVIOUS
    <3>3. a \in FetchRecords /\ a.at = "finish"  BY <1>1, <3>1, <3>2, MovedTyped
    <3>4. Moved(f, "end") \in FetchRecords /\ Moved(f, "end").at = "end"  BY <1>1, <3>1, MovedTyped
    <3>5. r = [a EXCEPT !.ok = TRUE] \/ r = Moved(f, "end")  BY <1>5, <2>2, <3>2 DEF OnHit
    <3>6. [a EXCEPT !.ok = TRUE] \in FetchRecords /\ [a EXCEPT !.ok = TRUE].at = "finish"  BY <3>3 DEF FetchRecords
    <3>7. QED  BY <3>4, <3>5, <3>6 DEF Holding
  <2>3. QED  BY <2>1, <2>2
<1>7. req' = [req EXCEPT ![f] = r] /\ req[f].at \notin Holding  BY <1>2, <1>3, <1>5 DEF Holding
<1>8. BudgetSound'  BY <1>3, <1>6, <1>7, QuietMove DEF MemoryInv
<1>9. QED  BY <1>3, <1>4, <1>8 DEF MemoryInv, FlightsTyped

\* One place to another, and nothing else.
LEMMA GoesOnly ==
  ASSUME MemoryInv, NEW f \in Fetches, NEW l \in SegPlaces, req' = [req EXCEPT ![f] = Moved(f, l)],
         req[f].at \notin Holding, l \notin Holding, UNCHANGED budgetVars
  PROVE  BudgetSound'
<1>1. FetchesTyped  BY FetchKey
<1>2. PICK r : r = Moved(f, l)  OBVIOUS
<1>3. r \in FetchRecords /\ r.at = l  BY <1>1, <1>2, MovedTyped
<1>4. QED  BY <1>2, <1>3, QuietMove DEF MemoryInv

LEMMA KJoin == ASSUME MemoryInv, NEW f \in Fetches, Join(f) PROVE MemoryInv'
<1>1. req[f].key \in SegKeys  BY FetchKey
<1>2. PICK l \in {"relookup", "await"} : req' = [req EXCEPT ![f] = Moved(f, l)]  BY DEF Join, Goto
<1>3. l \in SegPlaces /\ l \notin Holding  BY DEF SegPlaces, Holding
<1>4. req[f].at \notin Holding /\ UNCHANGED cacheVars /\ UNCHANGED budgetVars  BY DEF Join, Holding
<1>5. FlightsTyped'
  <2>1. flights' = flights \/ flights' = [flights EXCEPT ![req[f].key] = f]  BY DEF Join
  <2>2. QED  BY <1>1, <2>1 DEF FlightsTyped, MemoryInv
<1>6. QED  BY <1>2, <1>3, <1>4, <1>5, GoesOnly, CacheStays DEF MemoryInv

LEMMA KLookForFlight == ASSUME MemoryInv, NEW f \in Fetches, LookForFlight(f) PROVE MemoryInv'
<1>1. PICK l \in {"lookup", "await"} : req' = [req EXCEPT ![f] = Moved(f, l)]  BY DEF LookForFlight, Goto
<1>2. l \in SegPlaces /\ l \notin Holding  BY DEF SegPlaces, Holding
<1>3. req[f].at \notin Holding /\ UNCHANGED cacheVars /\ flights' = flights /\ UNCHANGED budgetVars
  BY DEF LookForFlight, Holding
<1>4. QED  BY <1>1, <1>2, <1>3, GoesOnly, CacheStays DEF MemoryInv, FlightsTyped

\* Where one who waited for a flight goes on.
LEMMA LandedTyped ==
  ASSUME FetchesTyped, NEW f \in Fetches, NEW won \in BOOLEAN
  PROVE  Landed(f, won) \in FetchRecords /\ Landed(f, won).at \notin Holding
<1>1. PICK l \in {"lookup", "end", "fetch"} : Landed(f, won) = Moved(f, l)  BY DEF Landed
<1>2. l \in SegPlaces  BY DEF SegPlaces
<1>3. Moved(f, l) \in FetchRecords /\ Moved(f, l).at = l  BY <1>2, MovedTyped
<1>4. QED  BY <1>1, <1>3 DEF Holding

LEMMA KStopAwaiting == ASSUME MemoryInv, NEW f \in Fetches, StopAwaiting(f) PROVE MemoryInv'
<1>1. PICK r : r = Landed(f, TRUE)  OBVIOUS
<1>2. r \in FetchRecords /\ r.at \notin Holding
  <2>1. TRUE \in BOOLEAN /\ FetchesTyped  BY FetchKey
  <2>2. QED  BY <1>1, <2>1, LandedTyped
<1>3. req' = [req EXCEPT ![f] = r] /\ req[f].at \notin Holding /\ UNCHANGED <<cacheVars, flights, budgetVars>>
  BY <1>1 DEF StopAwaiting, Holding
<1>4. QED  BY <1>2, <1>3, OnlyMoves

LEMMA KFinish == ASSUME MemoryInv, NEW f \in Fetches, Finish(f) PROVE MemoryInv'
<1>1. FetchesTyped /\ req[f].key \in SegKeys /\ req[f].ok \in BOOLEAN
  BY DEF MemoryInv, BudgetSound, FetchesTyped, FetchRecords
<1>2. req[f].at = "finish" /\ UNCHANGED cacheVars /\ UNCHANGED budgetVars  BY DEF Finish
<1>3. FlightsTyped'
  <2>1. flights' = [flights EXCEPT ![req[f].key] = 0]  BY DEF Finish
  <2>2. QED  BY <1>1, <2>1 DEF FlightsTyped, MemoryInv
<1>4. ASSUME NEW g \in Fetches
      PROVE  /\ req'[g] \in FetchRecords
             /\ req'[g] = req[g] \/ (req[g].at \notin Holding /\ req'[g].at \notin Holding)
  <2>1. req'[g] = IF g = f THEN Absent("end") ELSE IF g \in Followers(f) THEN Landed(g, req[f].ok) ELSE req[g]
    BY DEF Finish
  <2>2. CASE g = f
    <3>1. Absent("end") \in FetchRecords /\ Absent("end").at = "end"  BY AbsentTyped DEF SegPlaces
    <3>2. QED  BY <1>2, <2>1, <2>2, <3>1 DEF Holding
  <2>3. CASE g # f /\ g \in Followers(f)
    <3>1. Landed(g, req[f].ok) \in FetchRecords /\ Landed(g, req[f].ok).at \notin Holding  BY <1>1, LandedTyped
    <3>2. req[g].at \notin Holding  BY <2>3 DEF Followers, Holding
    <3>3. QED  BY <2>1, <2>3, <3>1, <3>2
  <2>4. CASE g # f /\ g \notin Followers(f)  BY <1>1, <2>1, <2>4 DEF FetchesTyped
  <2>5. QED  BY <2>2, <2>3, <2>4
<1>5. FetchesTyped'
  <2>1. req' = [g \in Fetches |-> req'[g]]  BY DEF Finish
  <2>2. QED  BY <1>4, <2>1 DEF FetchesTyped
<1>6. BudgetSound'  BY <1>2, <1>4, <1>5, QuietSteps DEF MemoryInv
<1>7. QED  BY <1>2, <1>3, <1>6, CacheStays DEF MemoryInv

LEMMA KFetchFails == ASSUME MemoryInv, NEW f \in Fetches, FetchFails(f) PROVE MemoryInv'
<1>1. PICK l \in {"finish", "end"} : req' = [req EXCEPT ![f] = Moved(f, l)]  BY DEF FetchFails, Goto, After
<1>2. l \in SegPlaces /\ l \notin Holding  BY DEF SegPlaces, Holding
<1>3. req[f].at \notin Holding /\ UNCHANGED cacheVars /\ flights' = flights /\ UNCHANGED budgetVars
  BY DEF FetchFails, Holding
<1>4. QED  BY <1>1, <1>2, <1>3, GoesOnly, CacheStays DEF MemoryInv, FlightsTyped

-----------------------------------------------------------------------------
\* A body is begun, or queued for: f holds nothing yet, of r.len bytes it will.
LEMMA BeginsBody ==
  ASSUME BudgetSound, NEW f \in Fetches, req[f].at = "fetch", NEW r \in FetchRecords, req' = [req EXCEPT ![f] = r],
         r.at = "read", NEW n, n = Reservation(r.len), CanTake(n), used' = used + n, turn' = turn
  PROVE  BudgetSound'
<1>1. FetchesTyped /\ used \in Nat /\ used <= Inflight /\ used = Total(Needs, Buffering)  BY DEF BudgetSound, BudgetKept
<1>2. FetchesTyped' /\ req'[f] = r /\ (\A g \in Fetches : g # f => req'[g] = req[g])  BY <1>1, ReqMoves
<1>3. Waiters = {} /\ Waiters' = {} /\ used + n <= Inflight  BY DEF CanTake, Waiters
<1>4. IsFiniteSet(Fetches) /\ Inflight \in Nat  BY FetchBounds
<1>5. Needs' \in [Fetches -> Nat] /\ Needs'[f] = n  BY <1>2, NeedsTypedNext
<1>6. PICK B : B = Buffering  OBVIOUS
<1>7. B \subseteq Fetches /\ f \notin B  BY <1>6 DEF Buffering
<1>8. Buffering' = B \cup {f}
  <2>1. ASSUME NEW g \in Fetches PROVE g \in Buffering' <=> g \in B \cup {f}
    <3>1. CASE g = f  BY <1>2, <3>1 DEF Buffering
    <3>2. CASE g # f  BY <1>2, <1>3, <1>6, <3>2 DEF Buffering
    <3>3. QED  BY <3>1, <3>2
  <2>2. Buffering' \subseteq Fetches  BY DEF Buffering
  <2>3. QED  BY <1>7, <2>1, <2>2
<1>9. Total(Needs', B) = Total(Needs, B)
  <2>1. \A g \in B : g \in Fetches /\ req'[g] = req[g]  BY <1>2, <1>7
  <2>2. \A g \in B : Needs'[g] = Needs[g]  BY <1>1, <1>2, <2>1, NeedsTyped, NeedsTypedNext
  <2>3. QED  BY <2>2, TotalSame
<1>10. Total(Needs', B) \in Nat /\ Total(Needs', B \cup {f}) = Total(Needs', B) + Needs'[f]  BY <1>4, <1>5, <1>7, TotalPlus
<1>11. used' = Total(Needs', Buffering') /\ used' \in Nat /\ used' <= Inflight
  <2>1. used' = Total(Needs', Buffering')  BY <1>1, <1>5, <1>6, <1>8, <1>9, <1>10
  <2>2. n \in Nat  BY <1>5
  <2>3. QED  BY <1>1, <1>3, <2>1, <2>2
<1>12. BudgetKept' /\ WaitersWait'  BY <1>3, <1>11 DEF BudgetKept, WaitersWait
<1>13. QED  BY <1>2, <1>3, <1>11, <1>12 DEF BudgetSound

LEMMA QueuesForBody ==
  ASSUME BudgetSound, NEW f \in Fetches, req[f].at = "fetch", NEW r \in FetchRecords, req' = [req EXCEPT ![f] = r],
         r.at = "queued", ~CanTake(Reservation(r.len)), used' = used, turn' = PutLast(turn, Waiters, f)
  PROVE  BudgetSound'
<1>1. FetchesTyped /\ used \in Nat /\ used <= Inflight /\ used = Total(Needs, Buffering)  BY DEF BudgetSound, BudgetKept
<1>2. FetchesTyped' /\ req'[f] = r /\ (\A g \in Fetches : g # f => req'[g] = req[g])  BY <1>1, ReqMoves
<1>3. NumFetches \in Nat /\ Inflight \in Nat /\ IsFiniteSet(Fetches) /\ Cardinality(Fetches) = NumFetches  BY FetchBounds
<1>4. PICK W : W = Waiters  OBVIOUS
<1>5. W \subseteq Fetches /\ f \notin W  BY <1>4 DEF Waiters, BudgetSound, WaitersWait
<1>6. turn \in [Fetches -> Nat] /\ (\A y, z \in W : turn[y] = turn[z] => y = z)  BY <1>3, <1>4 DEF BudgetSound
<1>7. PICK t : t = PutLast(turn, W, f)  OBVIOUS
<1>8. /\ t \in [Fetches -> Nat] /\ Cardinality(W) \in Nat
      /\ \A y \in Fetches : t[y] > 0 <=> y \in W \cup {f}
      /\ \A y \in Fetches : t[y] <= Cardinality(W) + 1
      /\ \A y, z \in W \cup {f} : t[y] = t[z] => y = z
      /\ \A y, z \in W : t[y] <= t[z] => turn[y] <= turn[z]
      /\ \A y \in W : t[y] < t[f]
  <2>1. IsFiniteSet(Fetches)  BY <1>3
  <2>2. QED  BY ONLY f \in Fetches, <1>5, <1>6, <1>7, <2>1, PutLastKeeps
<1>9. turn' = t  BY <1>4, <1>7
<1>10. Cardinality(W) + 1 <= NumFetches
  <2>1. PICK V : V = W \cup {f}  OBVIOUS
  <2>2. V \in SUBSET Fetches /\ IsFiniteSet(W)  BY <1>3, <1>5, <2>1, FS_Subset
  <2>3. Cardinality(V) <= NumFetches  BY <1>3, <2>2, FS_Subset
  <2>4. Cardinality(W \cup {f}) = Cardinality(W) + 1  BY <1>5, <2>2, FS_AddElement
  <2>5. QED  BY <2>1, <2>3, <2>4
<1>11. turn' \in [Fetches -> 0 .. NumFetches]
  <2>1. \A y \in Fetches : t[y] \in 0 .. NumFetches  BY <1>3, <1>8, <1>10
  <2>2. QED  BY <1>8, <1>9, <2>1
<1>12. Waiters' = W \cup {f}  BY <1>5, <1>8, <1>9 DEF Waiters
<1>13. Buffering' = Buffering
  <2>1. ASSUME NEW g \in Fetches PROVE g \in Buffering' <=> g \in Buffering
    <3>1. CASE g = f  BY <1>2, <1>12, <3>1 DEF Buffering
    <3>2. CASE g # f  BY <1>2, <1>4, <1>12, <3>2 DEF Buffering
    <3>3. QED  BY <3>1, <3>2
  <2>2. Buffering' \subseteq Fetches /\ Buffering \subseteq Fetches  BY DEF Buffering
  <2>3. QED  BY <2>1, <2>2
<1>14. \A g \in Fetches : g # f => Needs'[g] = Needs[g]  BY <1>1, <1>2, NeedsTyped, NeedsTypedNext
<1>15. Total(Needs', Buffering) = Total(Needs, Buffering)
  <2>1. \A g \in Buffering : g \in Fetches /\ g # f  BY DEF Buffering
  <2>2. \A g \in Buffering : Needs'[g] = Needs[g]  BY <1>14, <2>1
  <2>3. QED  BY <2>2, TotalSame
<1>16. ASSUME NEW g \in Waiters', \A h \in Waiters' : turn'[g] <= turn'[h] PROVE used' + Needs'[g] > Inflight
  <2>1. CASE g = f
    <3>1. W = {}
      <4>1. SUFFICES ASSUME NEW y \in W PROVE FALSE  OBVIOUS
      <4>2. t[f] <= t[y] /\ t[y] < t[f]  BY <1>8, <1>9, <1>12, <1>16, <2>1
      <4>3. t[f] \in Nat /\ t[y] \in Nat  BY <1>5, <1>8
      <4>4. QED  BY <4>2, <4>3
    <3>2. Needs'[f] = Reservation(r.len) /\ Needs'[f] <= Inflight /\ Needs'[f] \in Nat  BY <1>2, NeedsTypedNext
    <3>3. QED  BY <1>1, <1>3, <1>4, <2>1, <3>1, <3>2 DEF CanTake
  <2>2. CASE g # f
    <3>1. g \in W /\ g \in Fetches  BY <1>5, <1>12, <2>2
    <3>2. \A h \in W : turn[g] <= turn[h]  BY <1>8, <1>9, <1>12, <1>16, <3>1
    <3>3. used + Needs[g] > Inflight  BY <1>4, <3>1, <3>2 DEF BudgetSound, BudgetKept
    <3>4. QED  BY <1>14, <2>2, <3>1, <3>3
  <2>3. QED  BY <2>1, <2>2
<1>17. BudgetKept'  BY <1>1, <1>13, <1>15, <1>16 DEF BudgetKept
<1>18. WaitersWait'
  <2>1. ASSUME NEW g \in Waiters' PROVE req'[g].at = "queued"
    <3>1. CASE g = f  BY <1>2, <3>1
    <3>2. CASE g # f  BY <1>2, <1>4, <1>5, <1>12, <3>2 DEF BudgetSound, WaitersWait
    <3>3. QED  BY <3>1, <3>2
  <2>2. QED  BY <2>1 DEF WaitersWait
<1>19. \A y, z \in Waiters' : turn'[y] = turn'[z] => y = z  BY <1>8, <1>9, <1>12
<1>20. QED  BY <1>1, <1>2, <1>11, <1>17, <1>18, <1>19 DEF BudgetSound

LEMMA KFetched == ASSUME MemoryInv, NEW f \in Fetches, Fetched(f) PROVE MemoryInv'
<1>1. PICK len \in {Unknown} \cup SegLengths, is200 \in BOOLEAN :
        LET n == Reservation(len)
            l == Reserved(f, n, is200 /\ len # Unknown /\ len <= CacheBytes)
        IN /\ req' = [req EXCEPT ![f] = IF l \in {"read", "queued"}
                                        THEN [Moved(f, l) EXCEPT !.len = len, !.ok = (is200 /\ req[f].kind # "decrypt")]
                                        ELSE Moved(f, l)]
           /\ used' = IF l = "read" THEN used + n ELSE used
           /\ turn' = IF l = "queued" THEN PutLast(turn, Waiters, f) ELSE turn
  BY DEF Fetched
<1>2. PICK n : n = Reservation(len)  OBVIOUS
<1>3. PICK keep \in BOOLEAN : keep = (is200 /\ len # Unknown /\ len <= CacheBytes)  OBVIOUS
<1>4. PICK l : l = Reserved(f, n, keep)  OBVIOUS
<1>5. PICK ok \in BOOLEAN : ok = (is200 /\ req[f].kind # "decrypt")  OBVIOUS
<1>6. /\ req' = [req EXCEPT ![f] = IF l \in {"read", "queued"} THEN [Moved(f, l) EXCEPT !.len = len, !.ok = ok]
                                   ELSE Moved(f, l)]
      /\ used' = IF l = "read" THEN used + n ELSE used
      /\ turn' = IF l = "queued" THEN PutLast(turn, Waiters, f) ELSE turn
  BY <1>1, <1>2, <1>3, <1>4, <1>5
<1>7. FetchesTyped  BY FetchKey
<1>8. req[f].at = "fetch" /\ UNCHANGED cacheVars /\ flights' = flights  BY DEF Fetched
<1>9. \/ l = "read" /\ CanTake(n)
      \/ l = "queued" /\ ~CanTake(n)
      \/ l = "finish" \/ l = "end"
  <2>1. After(f) = "finish" \/ After(f) = "end"  BY DEF After
  <2>2. QED  BY <1>4, <2>1 DEF Reserved
<1>10. len \in {Unknown} \cup 0 .. SegMax  BY SegAssumption
<1>11. BudgetSound'
  <2>1. CASE l = "read" \/ l = "queued"
    <3>1. l \in SegPlaces /\ l # "end"  BY <2>1 DEF SegPlaces
    <3>2. PICK a : a = Moved(f, l)  OBVIOUS
    <3>3. a \in FetchRecords /\ a.at = l  BY <1>7, <3>1, <3>2, MovedTyped
    <3>4. PICK r : r = [a EXCEPT !.len = len, !.ok = ok]  OBVIOUS
    <3>5. r \in FetchRecords /\ r.at = l /\ r.len = len  BY <1>10, <3>3, <3>4 DEF FetchRecords
    <3>6. req' = [req EXCEPT ![f] = r]  BY <1>6, <2>1, <3>2, <3>4
    <3>7. n = Reservation(r.len)  BY <1>2, <3>5
    <3>8. CASE l = "read"
      <4>1. CanTake(n) /\ used' = used + n /\ turn' = turn /\ r.at = "read"  BY <1>6, <1>9, <3>5, <3>8
      <4>2. QED  BY <1>8, <3>5, <3>6, <3>7, <4>1, BeginsBody DEF MemoryInv
    <3>9. CASE l = "queued"
      <4>1. ~CanTake(Reservation(r.len)) /\ used' = used /\ turn' = PutLast(turn, Waiters, f) /\ r.at = "queued"
        BY <1>6, <1>9, <3>5, <3>7, <3>9
      <4>2. QED  BY <1>8, <3>5, <3>6, <4>1, QueuesForBody DEF MemoryInv
    <3>10. QED  BY <2>1, <3>8, <3>9
  <2>2. CASE l = "finish" \/ l = "end"
    <3>1. l \in SegPlaces /\ l \notin Holding  BY <2>2 DEF SegPlaces, Holding
    <3>2. req' = [req EXCEPT ![f] = Moved(f, l)] /\ UNCHANGED budgetVars  BY <1>6, <2>2 DEF budgetVars
    <3>3. QED  BY <1>8, <3>1, <3>2, GoesOnly DEF Holding
  <2>3. QED  BY <1>9, <2>1, <2>2
<1>12. QED  BY <1>8, <1>11, CacheStays DEF MemoryInv, FlightsTyped

LEMMA KGranted == ASSUME MemoryInv, NEW f \in Fetches, Granted(f) PROVE MemoryInv'
<1>1. FetchesTyped  BY FetchKey
<1>2. /\ req[f].at = "queued" /\ f \notin Waiters /\ req' = [req EXCEPT ![f] = Moved(f, "read")]
      /\ UNCHANGED cacheVars /\ flights' = flights /\ UNCHANGED budgetVars
  BY DEF Granted, Goto
<1>3. PICK r : r = Moved(f, "read")  OBVIOUS
<1>4. r \in FetchRecords /\ r.at = "read" /\ r.len = req[f].len
  <2>1. "read" \in SegPlaces /\ "read" # "end"  BY DEF SegPlaces
  <2>2. QED  BY <1>1, <1>3, <2>1, MovedTyped
<1>5. FetchesTyped' /\ req'[f] = r /\ (\A g \in Fetches : g # f => req'[g] = req[g])  BY <1>1, <1>2, <1>3, <1>4, ReqMoves
<1>6. Waiters' = Waiters /\ Waiters \subseteq Fetches  BY <1>2 DEF Waiters, budgetVars
<1>7. Buffering' = Buffering
  <2>1. ASSUME NEW g \in Fetches PROVE g \in Buffering' <=> g \in Buffering
    <3>1. CASE g = f  BY <1>2, <1>4, <1>5, <3>1 DEF Buffering
    <3>2. CASE g # f  BY <1>5, <1>6, <3>2 DEF Buffering
    <3>3. QED  BY <3>1, <3>2
  <2>2. Buffering' \subseteq Fetches /\ Buffering \subseteq Fetches  BY DEF Buffering
  <2>3. QED  BY <2>1, <2>2
<1>8. Total(Needs', Buffering) = Total(Needs, Buffering)
  <2>1. \A g \in Fetches : req'[g].len = req[g].len  BY <1>4, <1>5
  <2>2. \A g \in Fetches : Needs'[g] = Needs[g]  BY <1>1, <1>5, <2>1, NeedsTyped, NeedsTypedNext
  <2>3. \A g \in Buffering : Needs'[g] = Needs[g]  BY <2>2 DEF Buffering
  <2>4. QED  BY <2>3, TotalSame
<1>9. used = Total(Needs', Buffering')  BY <1>7, <1>8 DEF MemoryInv, BudgetSound, BudgetKept
<1>10. \A g \in Waiters : req'[g].at = "queued" /\ req'[g].len = req[g].len
  BY <1>2, <1>5, <1>6 DEF MemoryInv, BudgetSound, WaitersWait
<1>11. BudgetSound'  BY <1>2, <1>5, <1>9, <1>10, BudgetStays DEF MemoryInv
<1>12. QED  BY <1>2, <1>11, CacheStays DEF MemoryInv, FlightsTyped

\* A request that gives up frees the way for those behind it, or gives back what it had.
LEMMA KGiveUpWaiting == ASSUME MemoryInv, NEW f \in Fetches, GiveUpWaiting(f) PROVE MemoryInv'
<1>1. FetchesTyped /\ BudgetSound  BY FetchKey DEF MemoryInv
<1>2. /\ req[f].at = "queued" /\ LeaveQueue(f) /\ req' = [req EXCEPT ![f] = Moved(f, "end")]
      /\ UNCHANGED cacheVars /\ flights' = flights
  BY DEF GiveUpWaiting, Goto
<1>3. PICK r : r = Moved(f, "end")  OBVIOUS
<1>4. r \in FetchRecords /\ r.at = "end" /\ r.at \notin Holding
  <2>1. "end" \in SegPlaces  BY DEF SegPlaces
  <2>2. r \in FetchRecords /\ r.at = "end"  BY <1>1, <1>3, <2>1, MovedTyped
  <2>3. QED  BY <2>2 DEF Holding
<1>5. FetchesTyped' /\ req'[f] = r /\ (\A g \in Fetches : g # f => req'[g] = req[g])  BY <1>1, <1>2, <1>3, <1>4, ReqMoves
<1>6. BudgetSound'
  <2>1. CASE f \notin Waiters
    <3>1. Notify(Waiters, used - Needs[f]) /\ f \in Buffering  BY <1>2, <2>1 DEF LeaveQueue, Buffering
    <3>2. QED  BY <1>1, <1>2, <1>3, <1>4, <3>1, GivesBack
  <2>2. CASE f \in Waiters
    <3>1. PICK W : W = Waiters \ {f}  OBVIOUS
    <3>2. PICK H : H = Buffering  OBVIOUS
    <3>3. PICK u : u = used  OBVIOUS
    <3>4. W \subseteq Waiters /\ Notify(W, u) /\ W \subseteq Fetches  BY <1>2, <2>2, <3>1, <3>3 DEF LeaveQueue, Waiters
    <3>5. u \in Nat /\ u <= Inflight  BY <1>1, <3>3 DEF BudgetSound, BudgetKept
    <3>6. H \subseteq Fetches /\ H \cap W = {} /\ f \notin H
      BY <1>1, <1>2, <2>2, <3>1, <3>2 DEF Buffering, BudgetSound, WaitersWait
    <3>7. u = Total(Needs', H)
      <4>1. \A g \in H : g \in Fetches /\ req'[g] = req[g]  BY <1>5, <3>6
      <4>2. \A g \in H : Needs'[g] = Needs[g]  BY <1>1, <1>5, <4>1, NeedsTyped, NeedsTypedNext
      <4>3. Total(Needs', H) = Total(Needs, H)  BY <4>2, TotalSame
      <4>4. QED  BY <1>1, <3>2, <3>3, <4>3 DEF BudgetSound, BudgetKept
    <3>8. \A g \in W : req'[g].at = "queued" /\ req'[g].len = req[g].len
      BY <1>1, <1>5, <3>1, <3>4 DEF BudgetSound, WaitersWait
    <3>9. ASSUME NEW g \in Fetches, g \notin W PROVE g \in H <=> req'[g].at \in Holding
      <4>1. CASE g = f  BY <1>4, <1>5, <3>6, <4>1
      <4>2. CASE g # f  BY <1>5, <3>1, <3>2, <3>9, <4>2 DEF Buffering, Holding
      <4>3. QED  BY <4>1, <4>2
    <3>10. QED  BY <1>1, <1>5, <3>4, <3>5, <3>6, <3>7, <3>8, <3>9, NotifyKeeps
  <2>3. QED  BY <2>1, <2>2
<1>7. QED  BY <1>2, <1>6, CacheStays DEF MemoryInv, FlightsTyped

LEMMA KReadFails == ASSUME MemoryInv, NEW f \in Fetches, ReadFails(f) PROVE MemoryInv'
<1>1. FetchesTyped /\ BudgetSound  BY FetchKey DEF MemoryInv
<1>2. /\ req[f].at = "read" /\ ReleaseBytes(Needs[f])
      /\ req' = [req EXCEPT ![f] = [Moved(f, After(f)) EXCEPT !.ok = FALSE]]
      /\ UNCHANGED cacheVars /\ flights' = flights
  BY DEF ReadFails
<1>3. PICK l \in {"finish", "end"} : l = After(f)  BY DEF After
<1>4. l \in SegPlaces  BY DEF SegPlaces
<1>5. PICK a : a = Moved(f, l)  OBVIOUS
<1>6. a \in FetchRecords /\ a.at = l  BY <1>1, <1>4, <1>5, MovedTyped
<1>7. PICK r : r = [a EXCEPT !.ok = FALSE]  OBVIOUS
<1>8. r \in FetchRecords /\ r.at = l  BY <1>6, <1>7 DEF FetchRecords
<1>9. req' = [req EXCEPT ![f] = r] /\ r.at \notin Holding  BY <1>2, <1>3, <1>5, <1>7, <1>8 DEF Holding
<1>10. BudgetSound'  BY <1>1, <1>2, <1>8, <1>9, Releases
<1>11. QED  BY <1>2, <1>10, CacheStays DEF MemoryInv, FlightsTyped

LEMMA BodySize == ASSUME MemoryInv, NEW f \in Fetches, NEW n \in Bodies(f) PROVE n \in 0 .. SegMax /\ n <= Needs[f]
<1>1. req[f].len \in {Unknown} \cup 0 .. SegMax /\ FetchesTyped
  BY DEF MemoryInv, BudgetSound, FetchesTyped, FetchRecords
<1>2. Needs[f] = Reservation(req[f].len)  BY <1>1, NeedsTyped
<1>3. SegMax \in Nat /\ SegLengths \subseteq 0 .. SegMax  BY SegAssumption
<1>4. CASE req[f].len = Unknown
  <2>1. n \in 0 .. SegMax /\ Needs[f] = SegMax  BY <1>2, <1>3, <1>4 DEF Bodies, Reservation
  <2>2. QED  BY <1>3, <2>1
<1>5. CASE req[f].len # Unknown
  <2>1. n \in 0 .. SegMax /\ Needs[f] = n  BY <1>1, <1>2, <1>5 DEF Bodies, Reservation
  <2>2. QED  BY <1>3, <2>1
<1>6. QED  BY <1>4, <1>5

LEMMA KReadToCache == ASSUME MemoryInv, NEW f \in Fetches, ReadToCache(f) PROVE MemoryInv'
<1>1. FetchesTyped /\ BudgetSound /\ req[f].key \in SegKeys /\ CacheSound  BY FetchKey DEF MemoryInv
<1>2. /\ req[f].at = "read" /\ ReleaseBytes(Needs[f]) /\ flights' = flights
      /\ req' = [req EXCEPT ![f] = IF After(f) = "end" THEN Absent("end") ELSE [Moved(f, "finish") EXCEPT !.ok = TRUE]]
  BY DEF ReadToCache
<1>3. CacheSound'
  <2>1. PICK n \in Bodies(f) : IF req[f].ok THEN Put(req[f].key, n) ELSE UNCHANGED cacheVars  BY DEF ReadToCache
  <2>2. n \in 0 .. SegMax  BY BodySize
  <2>3. CASE req[f].ok  BY <1>1, <2>1, <2>2, <2>3, PutKeeps
  <2>4. CASE ~req[f].ok  BY <1>1, <2>1, <2>4, CacheStays
  <2>5. QED  BY <2>3, <2>4
<1>4. "finish" \in SegPlaces /\ "end" \in SegPlaces  BY DEF SegPlaces
<1>5. PICK a : a = Moved(f, "finish")  OBVIOUS
<1>6. a \in FetchRecords /\ a.at = "finish"  BY <1>1, <1>4, <1>5, MovedTyped
<1>7. PICK b : b = [a EXCEPT !.ok = TRUE]  OBVIOUS
<1>8. b \in FetchRecords /\ b.at = "finish"  BY <1>6, <1>7 DEF FetchRecords
<1>9. Absent("end") \in FetchRecords /\ Absent("end").at = "end"  BY <1>4, AbsentTyped
<1>10. PICK r : r = IF After(f) = "end" THEN Absent("end") ELSE b  OBVIOUS
<1>11. r \in FetchRecords /\ r.at \notin Holding  BY <1>8, <1>9, <1>10 DEF Holding
<1>12. req' = [req EXCEPT ![f] = r]  BY <1>2, <1>5, <1>7, <1>10
<1>13. BudgetSound'  BY <1>1, <1>2, <1>11, <1>12, Releases
<1>14. QED  BY <1>2, <1>3, <1>13 DEF MemoryInv, FlightsTyped

\* A decrypting stream keeps the bytes it has read.
LEMMA KReadToDecrypt == ASSUME MemoryInv, NEW f \in Fetches, ReadToDecrypt(f) PROVE MemoryInv'
<1>1. FetchesTyped /\ BudgetSound /\ used \in Nat /\ used <= Inflight  BY FetchKey DEF MemoryInv, BudgetSound, BudgetKept
<1>2. req[f].at = "read" /\ UNCHANGED cacheVars /\ flights' = flights  BY DEF ReadToDecrypt
<1>3. PICK n \in Bodies(f) :
        /\ ReleaseBytes(Needs[f] - n)
        /\ req' = [req EXCEPT ![f] = [Moved(f, "decrypt") EXCEPT !.len = n]]
  BY DEF ReadToDecrypt
<1>4. n \in 0 .. SegMax /\ n <= Needs[f]  BY BodySize
<1>5. Needs[f] \in Nat /\ Inflight \in Nat /\ SegMax \in Nat /\ IsFiniteSet(Fetches)  BY <1>1, NeedsTyped, FetchBounds
<1>6. PICK a : a = Moved(f, "decrypt")  OBVIOUS
<1>7. a \in FetchRecords /\ a.at = "decrypt"
  <2>1. "decrypt" \in SegPlaces  BY DEF SegPlaces
  <2>2. QED  BY <1>1, <1>6, <2>1, MovedTyped
<1>8. PICK r : r = [a EXCEPT !.len = n]  OBVIOUS
<1>9. r \in FetchRecords /\ r.at = "decrypt" /\ r.len = n  BY <1>4, <1>7, <1>8 DEF FetchRecords
<1>10. req' = [req EXCEPT ![f] = r]  BY <1>3, <1>6, <1>8
<1>11. FetchesTyped' /\ req'[f] = r /\ (\A g \in Fetches : g # f => req'[g] = req[g])  BY <1>1, <1>9, <1>10, ReqMoves
<1>12. f \in Buffering  BY <1>2 DEF Buffering
<1>13. /\ used = Total(Needs', Buffering \ {f}) + Needs[f] /\ Total(Needs', Buffering \ {f}) \in Nat
       /\ f \notin Waiters /\ Buffering \subseteq Fetches
  BY <1>1, <1>11, <1>12, OthersHold
<1>14. Needs'[f] = n /\ Needs' \in [Fetches -> Nat]
  <2>1. Needs'[f] = Reservation(n) /\ Needs' \in [Fetches -> Nat]  BY <1>9, <1>11, NeedsTypedNext
  <2>2. n # Unknown  BY <1>4, <1>5 DEF Unknown
  <2>3. QED  BY <2>1, <2>2 DEF Reservation
<1>15. PICK H : H = Buffering  OBVIOUS
<1>16. H \subseteq Fetches /\ f \in H  BY <1>12, <1>13, <1>15
<1>17. Total(Needs', H) = Total(Needs', H \ {f}) + Needs'[f]  BY <1>5, <1>14, <1>16, TotalMinus
<1>18. PICK m : m = Needs[f] - n  OBVIOUS
<1>19. m \in Nat /\ Total(Needs', H) \in Nat /\ used - m = Total(Needs', H) /\ used - m <= Inflight
  BY <1>1, <1>4, <1>5, <1>13, <1>14, <1>15, <1>17, <1>18
<1>20. \A g \in Waiters : g \in Fetches /\ g # f /\ req'[g].at = "queued" /\ req'[g].len = req[g].len
  BY <1>1, <1>11, <1>13 DEF BudgetSound, WaitersWait, Waiters
<1>21. BudgetSound'
  <2>1. CASE m = 0
    <3>1. UNCHANGED budgetVars  BY <1>3, <1>18, <2>1 DEF ReleaseBytes
    <3>2. Waiters' = Waiters  BY <3>1 DEF Waiters, budgetVars
    <3>3. Buffering' = H
      <4>1. ASSUME NEW g \in Fetches PROVE g \in Buffering' <=> g \in H
        <5>1. CASE g = f  BY <1>9, <1>11, <1>16, <5>1 DEF Buffering
        <5>2. CASE g # f  BY <1>11, <1>15, <3>2, <5>2 DEF Buffering
        <5>3. QED  BY <5>1, <5>2
      <4>2. Buffering' \subseteq Fetches  BY DEF Buffering
      <4>3. QED  BY <1>16, <4>1, <4>2
    <3>4. used = Total(Needs', Buffering')  BY <1>1, <1>19, <2>1, <3>3
    <3>5. QED  BY <1>1, <1>11, <1>20, <3>1, <3>4, BudgetStays
  <2>2. CASE m # 0
    <3>1. PICK u : u = used - m  OBVIOUS
    <3>2. PICK W : W = Waiters  OBVIOUS
    <3>3. Notify(W, u) /\ W \subseteq Waiters /\ u \in Nat /\ u <= Inflight /\ u = Total(Needs', H)
      <4>1. ~(m <= 0)  BY <1>19, <2>2
      <4>2. Notify(Waiters, used - m)  BY <1>3, <1>18, <4>1 DEF ReleaseBytes
      <4>3. QED  BY <1>19, <3>1, <3>2, <4>2
    <3>4. H \cap W = {}  BY <1>1, <1>15, <3>2 DEF Buffering, BudgetSound, WaitersWait
    <3>5. \A g \in W : req'[g].at = "queued" /\ req'[g].len = req[g].len  BY <1>20, <3>2
    <3>6. ASSUME NEW g \in Fetches, g \notin W PROVE g \in H <=> req'[g].at \in Holding
      <4>1. CASE g = f  BY <1>9, <1>11, <1>16, <4>1 DEF Holding
      <4>2. CASE g # f  BY <1>11, <1>15, <3>2, <3>6, <4>2 DEF Buffering, Holding
      <4>3. QED  BY <4>1, <4>2
    <3>7. QED  BY <1>1, <1>11, <1>16, <3>3, <3>4, <3>5, <3>6, NotifyKeeps
  <2>3. QED  BY <2>1, <2>2
<1>22. QED  BY <1>2, <1>21, CacheStays DEF MemoryInv, FlightsTyped

LEMMA KDecryptAndWrite == ASSUME MemoryInv, NEW f \in Fetches, DecryptAndWrite(f) PROVE MemoryInv'
<1>1. FetchesTyped /\ BudgetSound  BY FetchKey DEF MemoryInv
<1>2. /\ req[f].at = "decrypt" /\ ReleaseBytes(Needs[f]) /\ req' = [req EXCEPT ![f] = Moved(f, "end")]
      /\ UNCHANGED cacheVars /\ flights' = flights
  BY DEF DecryptAndWrite, Goto
<1>3. PICK r : r = Moved(f, "end")  OBVIOUS
<1>4. r \in FetchRecords /\ r.at = "end"
  <2>1. "end" \in SegPlaces  BY DEF SegPlaces
  <2>2. QED  BY <1>1, <1>3, <2>1, MovedTyped
<1>5. r.at \notin Holding  BY <1>4 DEF Holding
<1>6. BudgetSound'  BY <1>1, <1>2, <1>3, <1>4, <1>5, Releases
<1>7. QED  BY <1>2, <1>6, CacheStays DEF MemoryInv, FlightsTyped

-----------------------------------------------------------------------------
LEMMA MemoryInitial == SegInit => MemoryInv
<1>1. SUFFICES ASSUME SegInit PROVE MemoryInv  OBVIOUS
<1>2. /\ heat = [k \in SegKeys |-> 0] /\ entrySize = [k \in SegKeys |-> 0] /\ totalBytes = 0
      /\ flights = [k \in SegKeys |-> 0] /\ used = 0 /\ turn = [f \in Fetches |-> 0]
      /\ req = [f \in Fetches |-> Absent("idle")]
  BY <1>1 DEF SegInit
<1>3. Cached = {} /\ Waiters = {}  BY <1>2 DEF Cached, Waiters
<1>4. Absent("idle") \in FetchRecords /\ Absent("idle").at = "idle"  BY AbsentTyped DEF SegPlaces
<1>5. FetchesTyped /\ Buffering = {}  BY <1>2, <1>4 DEF FetchesTyped, Buffering
<1>6. Total(Needs, Buffering) = 0 /\ Total(entrySize, Cached) = 0  BY <1>3, <1>5, TotalNone
<1>7. Cardinality(Cached) = 0  BY <1>3, FS_EmptySet
<1>8. CacheKept  BY <1>2, <1>6, <1>7, SegAssumption DEF CacheKept
<1>9. CacheSound
  <2>1. heat \in [SegKeys -> Nat] /\ entrySize \in [SegKeys -> 0 .. SegMax] /\ totalBytes \in Nat  BY <1>2, SegAssumption
  <2>2. QED  BY <1>3, <1>8, <2>1 DEF CacheSound
<1>10. BudgetSound
  <2>1. used \in Nat /\ turn \in [Fetches -> 0 .. NumFetches]  BY <1>2, SegAssumption
  <2>2. BudgetKept  BY <1>2, <1>3, <1>6, SegAssumption DEF BudgetKept
  <2>3. QED  BY <1>3, <1>5, <2>1, <2>2 DEF BudgetSound, WaitersWait
<1>11. QED  BY <1>2, <1>9, <1>10 DEF MemoryInv, FlightsTyped

LEMMA MemorySteps == MemoryInv /\ [SegNext]_segVars => MemoryInv'
<1>1. SUFFICES ASSUME MemoryInv, [SegNext]_segVars PROVE MemoryInv'  OBVIOUS
<1>2. CASE UNCHANGED segVars
  <2>1. UNCHANGED cacheVars /\ flights' = flights /\ UNCHANGED budgetVars /\ req' = req  BY <1>2 DEF segVars
  <2>2. FetchesTyped' /\ (\A g \in Fetches : req'[g] = req[g])  BY <1>1, <2>1 DEF MemoryInv, BudgetSound, FetchesTyped
  <2>3. BudgetSound'  BY <1>1, <2>1, <2>2, QuietSteps DEF MemoryInv
  <2>4. QED  BY <1>1, <2>1, <2>3, CacheStays DEF MemoryInv, FlightsTyped
<1>3. CASE SegNext
  <2>1. ASSUME NEW f \in Fetches, Start(f) \/ FetchStep(f) \/ StopAwaiting(f) \/ GiveUpWaiting(f) PROVE MemoryInv'
    BY <1>1, <2>1, KStart, KLookup, KJoin, KLookForFlight, KFetchFails, KFetched, KGranted, KReadFails, KReadToCache,
       KReadToDecrypt, KDecryptAndWrite, KFinish, KStopAwaiting, KGiveUpWaiting DEF FetchStep
  <2>2. QED  BY <1>1, <1>3, <2>1, KSweep DEF SegNext
<1>4. QED  BY <1>1, <1>2, <1>3

\* The two lists of the stream proxy hold each element once, only requests that wait are
\* among the waiters, and every counter is the sum it stands for.
THEOREM MemoryInvariant == SegSpec => []MemoryInv
<1>1. QED  BY MemoryInitial, MemorySteps, PTL DEF SegSpec

\* The bytes the stream proxy keeps and those in flight are counted exactly and within their
\* budgets whatever is granted, given back, given up or evicted, and no waiter that fits
\* is left waiting: for any number of requests, keys and lengths (cache.go, membudget.go).
THEOREM MemoryStaysBounded == SegSpec => []SegMemory
<1>1. MemoryInv => SegMemory
  BY DEF MemoryInv, CacheSound, BudgetSound, FlightsTyped, FetchesTyped, SegMemory, SegTypeOK, InOrder
<1>2. QED  BY <1>1, MemoryInvariant, PTL

=============================================================================
