----------------------------- MODULE ProbeGuard -----------------------------
(***************************************************************************)
(* The probes of media URLs (internal/media/probeguard.go, media.go,       *)
(* subtitles.go, hls.go): callers that ask for the same URL share one      *)
(* ffprobe, few run at a time, results and errors are kept for a while.    *)
(*                                                                         *)
(* The kind "probe" stands for Probe and Tracks, which are the same but    *)
(* for what they read, "hls" for the probe of StartHLS, "sub" for          *)
(* OpenSubHash and SubtitlesTracks, which keep nothing. A URL has several  *)
(* spellings: the flight goes by the normalized one, the cache by the one  *)
(* that was given.                                                         *)
(***************************************************************************)
EXTENDS Naturals, FiniteSets

CONSTANTS
  Spellings,       \* URLs as they are given
  Norm,            \* normalizeProbeKey
  NumCallers,      \* callers, numbered as they arrive
  MaxProbes,       \* maxConcurrentProbes
  ProbeCacheMax,   \* entries of a cache
  PosTTL, NegTTL,  \* how long a result and an error are kept
  MaxProbeClock    \* bound: the clock

ASSUME ProbeAssumption ==
  /\ {NumCallers, PosTTL, NegTTL} \subseteq Nat /\ {MaxProbes, ProbeCacheMax, MaxProbeClock} \subseteq Nat \ {0}

VARIABLES
  probeClock,
  cache,     \* per kind: spelling -> when the entry expires, or 0
  probeFlights,   \* singleflight: key -> where its function is, and for which spelling
  sem,       \* slots taken
  caller

probeVars == <<probeClock, cache, probeFlights, sem, caller>>

Callers == 1 .. NumCallers
Kinds == {"probe", "hls", "sub"}
Keys == Kinds \X {Norm[u] : u \in Spellings}
Grounded == [at |-> "none", url |-> "", ok |-> FALSE]
Waiting(l, k, u) == [at |-> l, kind |-> k, url |-> u]
\* Where a caller ended: with an answer or an error of its flight, or by its own end.
Away(l) == Waiting(l, "", "")
KeyOfCall(c) == <<caller[c].kind, Norm[caller[c].url]>>

ProbeInit ==
  /\ probeClock = 1 /\ cache = [k \in {"probe", "hls"} |-> [u \in Spellings |-> 0]]
  /\ probeFlights = [k \in Keys |-> Grounded] /\ sem = 0 /\ caller = [c \in Callers |-> Away("idle")]

ProbeTick == probeClock < MaxProbeClock /\ probeClock' = probeClock + 1 /\ UNCHANGED <<cache, probeFlights, sem, caller>>

-----------------------------------------------------------------------------
(* The caches *)

\* cachedProbe, cachedTracks
FreshEntry(k, u) == k # "sub" /\ cache[k][u] > probeClock

Entries(m) == {u \in Spellings : m[u] # 0}
\* The soonest to expire go until few enough are left; what the map's order decides among
\* equals is open.
Evictions(m, room) ==
  {[u \in Spellings |-> IF u \in keep THEN m[u] ELSE 0] :
     keep \in {s \in SUBSET Entries(m) :
                 /\ Cardinality(s) = IF Cardinality(Entries(m)) <= room THEN Cardinality(Entries(m)) ELSE room
                 /\ \A u \in s, v \in Entries(m) \ s : m[u] >= m[v]}}
Purged(m) == [u \in Spellings |-> IF m[u] < probeClock THEN 0 ELSE m[u]]

\* Mutant: the entry is put first and the cache is left alone.
PutOnly(k, u, exp) == {[cache[k] EXCEPT ![u] = exp]}

\* runProbeFFprobe makes room before it puts; StartHLS puts and then sweeps, which may
\* take the entry that was just put.
PutResult(k, u, exp) ==
  IF k = "probe"
  THEN {[m EXCEPT ![u] = exp] :
          m \in Evictions(IF Cardinality(Entries(cache[k])) >= ProbeCacheMax THEN Purged(cache[k]) ELSE cache[k], ProbeCacheMax - 1)}
  ELSE Evictions(Purged([cache[k] EXCEPT ![u] = exp]), ProbeCacheMax)

-----------------------------------------------------------------------------
(* Callers *)

\* ProbeContext and the like: a fresh entry answers at once. Callers come in the order of
\* their numbers; the spelling of the first is named once and for all.
Ask(c, k, u) ==
  /\ caller[c].at = "idle" /\ \A b \in Callers : b < c => caller[b].at # "idle"
  /\ c = 1 => u = CHOOSE v \in Spellings : TRUE
  /\ caller' = [caller EXCEPT ![c] = IF FreshEntry(k, u) THEN Away("answered") ELSE Waiting("do", k, u)]
  /\ UNCHANGED <<probeClock, cache, probeFlights, sem>>

\* probeGuard.do: the key's flight, or a new one.
Do(c) ==
  /\ caller[c].at = "do"
  /\ caller' = [caller EXCEPT ![c].at = "wait"]
  /\ probeFlights' = IF probeFlights[KeyOfCall(c)].at = "none" THEN [probeFlights EXCEPT ![KeyOfCall(c)] = [at |-> "check", url |-> caller[c].url, ok |-> FALSE]]
                ELSE probeFlights
  /\ UNCHANGED <<probeClock, cache, sem>>

\* The caller's context ends. The flight goes on without it.
CallerLeaves(c) ==
  /\ caller[c].at \in {"do", "wait"} /\ caller' = [caller EXCEPT ![c] = Away("left")]
  /\ UNCHANGED <<probeClock, cache, probeFlights, sem>>

-----------------------------------------------------------------------------
(* Flights *)

\* Mutant: only those who gave the URL the same way are told.
LandBySpelling(k, outcome) ==
  /\ probeFlights' = [probeFlights EXCEPT ![k] = Grounded]
  /\ caller' = [c \in Callers |-> IF caller[c].at = "wait" /\ KeyOfCall(c) = k /\ caller[c].url = probeFlights[k].url THEN Away(outcome) ELSE caller[c]]

\* The key is free again and everyone who waits has the outcome.
Land(k, outcome) ==
  /\ probeFlights' = [probeFlights EXCEPT ![k] = Grounded]
  /\ caller' = [c \in Callers |-> IF caller[c].at = "wait" /\ KeyOfCall(c) = k THEN Away(outcome) ELSE caller[c]]

\* Mutant: the function trusts the look its caller had.
StartBlindly(k) ==
  /\ probeFlights[k].at = "check" /\ probeFlights' = [probeFlights EXCEPT ![k].at = "sem"]
  /\ UNCHANGED <<probeClock, cache, sem, caller>>

\* The cache is looked at once more: a flight may have landed since the caller's look.
CheckAgain(k) ==
  /\ probeFlights[k].at = "check"
  /\ IF FreshEntry(k[1], probeFlights[k].url) THEN Land(k, "answered")
     ELSE probeFlights' = [probeFlights EXCEPT ![k].at = "sem"] /\ UNCHANGED caller
  /\ UNCHANGED <<probeClock, cache, sem>>

AcquireSlot(k) ==
  /\ probeFlights[k].at = "sem" /\ sem < MaxProbes /\ sem' = sem + 1
  /\ probeFlights' = [probeFlights EXCEPT ![k].at = "run"]
  /\ UNCHANGED <<probeClock, cache, caller>>

\* Probe and Tracks wait at most half a minute; the error is not kept.
SlotTimeout(k) ==
  /\ probeFlights[k].at = "sem" /\ k[1] = "probe" /\ Land(k, "failed")
  /\ UNCHANGED <<probeClock, cache, sem>>

\* ffprobe ends, by itself or at its time limit, and the outcome is kept.
Ran(k, ok) ==
  /\ probeFlights[k].at = "run" /\ probeFlights' = [probeFlights EXCEPT ![k].at = "end", ![k].ok = ok]
  /\ IF k[1] = "sub" THEN UNCHANGED cache
     ELSE \E m \in PutResult(k[1], probeFlights[k].url, probeClock + (IF ok THEN PosTTL ELSE NegTTL)) : cache' = [cache EXCEPT ![k[1]] = m]
  /\ UNCHANGED <<probeClock, sem, caller>>

\* The deferred release, and the result.
ProbeLanded(k) ==
  /\ probeFlights[k].at = "end" /\ sem' = sem - 1
  /\ Land(k, IF probeFlights[k].ok THEN "answered" ELSE "failed")
  /\ UNCHANGED <<probeClock, cache>>

-----------------------------------------------------------------------------
ProbeNext ==
  \/ ProbeTick
  \/ \E c \in Callers : (\E k \in Kinds, u \in Spellings : Ask(c, k, u)) \/ Do(c) \/ CallerLeaves(c)
  \/ \E k \in Keys : CheckAgain(k) \/ AcquireSlot(k) \/ SlotTimeout(k) \/ ProbeLanded(k) \/ \E ok \in BOOLEAN : Ran(k, ok)

\* A flight takes its steps, a run of ffprobe is bounded in time.
ProbeFairness ==
  /\ WF_probeVars(\E c \in Callers : Do(c))
  /\ WF_probeVars(\E k \in Keys : CheckAgain(k) \/ AcquireSlot(k) \/ ProbeLanded(k) \/ \E ok \in BOOLEAN : Ran(k, ok))

ProbeSpec == ProbeInit /\ [][ProbeNext]_probeVars /\ ProbeFairness

ProbeTypeOK ==
  /\ probeClock \in 1 .. MaxProbeClock /\ cache \in [{"probe", "hls"} -> [Spellings -> Nat]]
  /\ probeFlights \in [Keys -> [at : {"none", "check", "sem", "run", "end"}, url : Spellings \cup {""}, ok : BOOLEAN]]
  /\ sem \in Nat
  /\ caller \in [Callers -> [at : {"idle", "do", "wait", "answered", "failed", "left"}, kind : Kinds \cup {""}, url : Spellings \cup {""}]]

\* The slots taken are those of the probes that run, never more than the limit, and no cache
\* outgrows its bound, whichever way it is swept (acquire, release, runProbeFFprobe,
\* sweepProbeCache).
ProbesBounded ==
  /\ sem = Cardinality({k \in Keys : probeFlights[k].at \in {"run", "end"}}) /\ sem <= MaxProbes
  /\ \A k \in DOMAIN cache : Cardinality(Entries(cache[k])) <= ProbeCacheMax

\* No ffprobe is started for a URL whose result is in the cache, though the caller that set
\* it off looked before that result was there (the second look inside guard.do); and every
\* step leaves the probes and the caches within their bounds.
NoSecondProbe ==
  [][/\ ProbeTypeOK' /\ ProbesBounded'
     /\ \A k \in Keys : probeFlights[k].at = "check" /\ probeFlights'[k].at = "sem" => ~FreshEntry(k[1], probeFlights[k].url)]_probeVars

\* Reached and kept in the end: every caller is answered, in particular those whose flight
\* was set off by one who left meanwhile, and every slot is back (probeGuard.do,
\* runProbeFFprobe).
ProbesSettled ==
  /\ \A c \in Callers : caller[c].at \in {"idle", "answered", "failed", "left"}
  /\ sem = 0 /\ \A k \in Keys : probeFlights[k] = Grounded

=============================================================================
