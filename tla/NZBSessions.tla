----------------------------- MODULE NZBSessions -----------------------------
(***************************************************************************)
(* Usenet streaming sessions (internal/api/nzb.go): creates that reuse,    *)
(* share or replace the session of a key, streams that pin it, the         *)
(* assembly of its file that a stream starts or restarts, and what         *)
(* reclaims sessions and their directories: the end of the last response   *)
(* of a replaced session, the janitor, and the sweep after a crash.        *)
(*                                                                         *)
(* A session has the number of the request that built it and one file.     *)
(* Whether it is within its hour is a free choice where the code asks. A   *)
(* create without a key has a key of its own and meets nobody. How an      *)
(* assembly runs is the subject of NZBAssembly.                            *)
(***************************************************************************)
EXTENDS Integers, FiniteSets

CONSTANTS
  NzbKeys, NzbSigs,   \* caller keys, normalised payloads
  NumNzb,             \* requests, numbered as they arrive
  MaxNzbRestarts      \* bound: how often the process is restarted

ASSUME NzbAssumption == {NumNzb, MaxNzbRestarts} \subseteq Nat /\ NzbKeys # {} /\ NzbSigs # {}

VARIABLES
  nzbSessions,   \* key -> session, or 0
  nzbOrphans,    \* sessions replaced while a request was reading from them
  nzbBuilds,     \* key, payload -> the request that leads the build, or 0
  sigOf,         \* nzbSession.sig
  refCount, noReuse,
  asm,           \* the state of the session's assembly
  tmpDirs,       \* sessions whose directory exists
  discards,      \* sessions with a discard under way
  nzb,           \* requests
  nzbRestarts

nzbVars == <<nzbSessions, nzbOrphans, nzbBuilds, sigOf, refCount, noReuse, asm, tmpDirs, discards, nzb, nzbRestarts>>
poolVars == <<nzbSessions, nzbOrphans, refCount, discards>>

NzbReqs == 1 .. NumNzb
NoKey == CHOOSE k \in NzbKeys : TRUE
NoSig == CHOOSE g \in NzbSigs : TRUE
NzbAt(l) == [at |-> l, key |-> NoKey, sig |-> NoSig, of |-> 0]

NzbInit ==
  /\ nzbSessions = [k \in NzbKeys |-> 0] /\ nzbOrphans = {} /\ nzbBuilds = [b \in NzbKeys \X NzbSigs |-> 0]
  /\ sigOf = [s \in NzbReqs |-> NoSig] /\ refCount = [s \in NzbReqs |-> 0] /\ noReuse = {}
  /\ asm = [s \in NzbReqs |-> "none"] /\ tmpDirs = {} /\ discards = {}
  /\ nzb = [r \in NzbReqs |-> NzbAt("idle")] /\ nzbRestarts = 0

NzbGoes(r, l) == nzb' = [nzb EXCEPT ![r] = IF l = "end" THEN NzbAt("end") ELSE [@ EXCEPT !.at = l]]
InTurn(r) == nzb[r].at = "idle" /\ \A q \in 1 .. r - 1 : nzb[q].at # "idle"
\* nzbBuildKey: what a create asks for.
BuildOf(r) == <<nzb[r].key, nzb[r].sig>>
SessionsNow == {nzbSessions[k] : k \in NzbKeys} \ {0}

-----------------------------------------------------------------------------
(* Creating *)

\* nzbCreate, with a payload that parses.
CreateArrives(r) ==
  /\ InTurn(r)
  /\ \E k \in NzbKeys, g \in NzbSigs : nzb' = [nzb EXCEPT ![r] = [at |-> "decide", key |-> k, sig |-> g, of |-> 0]]
  /\ UNCHANGED <<poolVars, nzbBuilds, sigOf, noReuse, asm, tmpDirs, nzbRestarts>>

\* The session of the key fits the payload and may be reused.
NzbReusable(r) ==
  LET s == nzbSessions[nzb[r].key] IN s # 0 /\ sigOf[s] = nzb[r].sig /\ s \notin noReuse

\* nzbReuseOrLead: pin the session, wait for the build, or lead one. A session that
\* would do may be past its hour.
Decide(r) ==
  LET s == nzbSessions[nzb[r].key]
      lead == nzbBuilds[BuildOf(r)]
  IN
  /\ nzb[r].at = "decide"
  /\ \/ /\ NzbReusable(r) /\ refCount' = [refCount EXCEPT ![s] = @ + 1]
        /\ nzb' = [nzb EXCEPT ![r] = [@ EXCEPT !.at = "health", !.of = s]] /\ UNCHANGED nzbBuilds
     \/ /\ lead # 0 /\ nzb' = [nzb EXCEPT ![r] = [@ EXCEPT !.at = "wait", !.of = lead]]
        /\ UNCHANGED <<nzbBuilds, refCount>>
     \/ /\ lead = 0 /\ nzbBuilds' = [nzbBuilds EXCEPT ![BuildOf(r)] = r]
        /\ NzbGoes(r, "build") /\ UNCHANGED refCount
  /\ UNCHANGED <<nzbSessions, nzbOrphans, discards, sigOf, noReuse, asm, tmpDirs, nzbRestarts>>

\* Mutant: a replaced session is forgotten when its last response ends.
ReleaseOnly(s) ==
  /\ refCount' = [refCount EXCEPT ![s] = @ - 1] /\ UNCHANGED <<nzbOrphans, discards>>

\* nzbRelease: the last request to leave a replaced session has it discarded.
Release(s) ==
  LET last == s \in nzbOrphans /\ refCount[s] = 1 IN
  /\ refCount' = [refCount EXCEPT ![s] = @ - 1]
  /\ nzbOrphans' = IF last THEN nzbOrphans \ {s} ELSE nzbOrphans
  /\ discards' = IF last THEN discards \cup {s} ELSE discards

\* healthy, and the release of the pin: after a failed assembly the create, and every
\* later one, rebuilds.
CheckHealth(r) ==
  LET s == nzb[r].of IN
  /\ nzb[r].at = "health" /\ Release(s)
  /\ \/ asm[s] # "failed" /\ NzbGoes(r, "end") /\ UNCHANGED noReuse
     \/ asm[s] = "failed" /\ noReuse' = noReuse \cup {s} /\ nzb' = [nzb EXCEPT ![r] = [@ EXCEPT !.at = "decide", !.of = 0]]
  /\ UNCHANGED <<nzbSessions, nzbBuilds, sigOf, asm, tmpDirs, nzbRestarts>>

\* The build is over: everybody who waits for it answers like its leader. A client may
\* also go away while it waits.
Follow(r) ==
  /\ nzb[r].at = "wait" /\ nzb[nzb[r].of].at = "end" /\ NzbGoes(r, "end")
  /\ UNCHANGED <<poolVars, nzbBuilds, sigOf, noReuse, asm, tmpDirs, nzbRestarts>>
FollowerLeaves(r) ==
  /\ nzb[r].at = "wait" /\ NzbGoes(r, "end")
  /\ UNCHANGED <<poolVars, nzbBuilds, sigOf, noReuse, asm, tmpDirs, nzbRestarts>>

\* nzbBuildSession: fetching, parsing and the directory, any of which may fail.
BuildSession(r) ==
  /\ nzb[r].at = "build"
  /\ \/ NzbGoes(r, "finish") /\ UNCHANGED <<tmpDirs, sigOf>>
     \/ NzbGoes(r, "register") /\ tmpDirs' = tmpDirs \cup {r} /\ sigOf' = [sigOf EXCEPT ![r] = nzb[r].sig]
  /\ UNCHANGED <<poolVars, nzbBuilds, noReuse, asm, nzbRestarts>>

\* Mutant: the old session is discarded whoever reads from it.
RetireNow(s) == nzbOrphans' = nzbOrphans /\ discards' = discards \cup ({s} \ {0})

\* nzbRetire: a session somebody reads from becomes an orphan.
NzbRetire(s) ==
  LET busy == s # 0 /\ refCount[s] > 0 IN
  /\ nzbOrphans' = IF busy THEN nzbOrphans \cup {s} ELSE nzbOrphans
  /\ discards' = IF busy THEN discards ELSE discards \cup ({s} \ {0})

\* Mutant: whatever build is registered under the key goes.
FlightEndsBlindly(r) == nzbBuilds' = [nzbBuilds EXCEPT ![BuildOf(r)] = 0]

\* The build is taken off the list, if it is still this one.
FlightEnds(r) ==
  nzbBuilds' = [nzbBuilds EXCEPT ![BuildOf(r)] = IF @ = r THEN 0 ELSE @]

\* nzbBuildAndRegister: the new session replaces the old one and the build in one go.
RegisterSession(r) ==
  /\ nzb[r].at = "register" /\ NzbRetire(nzbSessions[nzb[r].key])
  /\ nzbSessions' = [nzbSessions EXCEPT ![nzb[r].key] = r] /\ FlightEnds(r) /\ NzbGoes(r, "finish")
  /\ UNCHANGED <<refCount, sigOf, noReuse, asm, tmpDirs, nzbRestarts>>

\* Its deferred half, on every path: the waiters are released.
FinishBuild(r) ==
  /\ nzb[r].at = "finish" /\ FlightEnds(r) /\ NzbGoes(r, "end")
  /\ UNCHANGED <<poolVars, sigOf, noReuse, asm, tmpDirs, nzbRestarts>>

-----------------------------------------------------------------------------
(* Streaming *)

\* nzbStream pins the session of the key, if there is one.
StreamArrives(r) ==
  /\ InTurn(r)
  /\ \E k \in NzbKeys : LET s == nzbSessions[k] IN
       IF s = 0 THEN NzbGoes(r, "end") /\ UNCHANGED refCount
       ELSE /\ nzb' = [nzb EXCEPT ![r] = [NzbAt("ensure") EXCEPT !.of = s]]
            /\ refCount' = [refCount EXCEPT ![s] = @ + 1]
  /\ UNCHANGED <<nzbSessions, nzbOrphans, discards, nzbBuilds, sigOf, noReuse, asm, tmpDirs, nzbRestarts>>

\* ensure: the first request starts the assembly, later ones share it, and one that
\* has failed is started again; the file may not be creatable.
Ensure(r) ==
  LET s == nzb[r].of IN
  /\ nzb[r].at = "ensure"
  /\ \/ /\ asm' = [asm EXCEPT ![s] = IF @ \in {"none", "failed"} THEN "running" ELSE @]
        /\ NzbGoes(r, "stream") /\ UNCHANGED <<refCount, nzbOrphans, discards>>
     \/ Release(s) /\ NzbGoes(r, "end") /\ UNCHANGED asm
  /\ UNCHANGED <<nzbSessions, nzbBuilds, sigOf, noReuse, tmpDirs, nzbRestarts>>

\* The response ends: all was sent, the assembly failed, or the client left.
StreamEnds(r) ==
  /\ nzb[r].at = "stream" /\ Release(nzb[r].of) /\ NzbGoes(r, "end")
  /\ UNCHANGED <<nzbSessions, nzbBuilds, sigOf, noReuse, asm, tmpDirs, nzbRestarts>>

\* An assembly in the background completes or fails.
AssemblyStops(s) ==
  /\ asm[s] = "running" /\ \E to \in {"whole", "failed"} : asm' = [asm EXCEPT ![s] = to]
  /\ UNCHANGED <<poolVars, nzbBuilds, sigOf, noReuse, tmpDirs, nzb, nzbRestarts>>

-----------------------------------------------------------------------------
(* Reclaiming *)

\* nzbEvictIdle: a session that nobody reads from and that was idle for an hour.
EvictSession(k) ==
  LET s == nzbSessions[k] IN
  /\ s # 0 /\ refCount[s] = 0
  /\ nzbSessions' = [nzbSessions EXCEPT ![k] = 0] /\ discards' = discards \cup {s}
  /\ UNCHANGED <<nzbOrphans, refCount, nzbBuilds, sigOf, noReuse, asm, tmpDirs, nzb, nzbRestarts>>

\* discard: the assembly is cancelled and the directory removed.
Discard(s) ==
  /\ s \in discards /\ discards' = discards \ {s} /\ tmpDirs' = tmpDirs \ {s}
  /\ asm' = [asm EXCEPT ![s] = IF @ = "running" THEN "failed" ELSE @]
  /\ UNCHANGED <<nzbSessions, nzbOrphans, refCount, nzbBuilds, sigOf, noReuse, nzb, nzbRestarts>>

\* nzbSweepStale: directories that no live session owns and that are an hour old; one
\* that a build has just made is younger.
SweepStale ==
  LET stale == {s \in tmpDirs : s \notin SessionsNow \cup nzbOrphans /\ nzb[s].at # "register"} IN
  /\ stale # {} /\ tmpDirs' = tmpDirs \ stale
  /\ UNCHANGED <<poolVars, nzbBuilds, sigOf, noReuse, asm, nzb, nzbRestarts>>

\* The process ends at any moment; the next one finds the directories only.
NzbRestart ==
  /\ nzbRestarts < MaxNzbRestarts /\ nzbRestarts' = nzbRestarts + 1
  /\ nzbSessions' = [k \in NzbKeys |-> 0] /\ nzbOrphans' = {} /\ nzbBuilds' = [b \in NzbKeys \X NzbSigs |-> 0]
  /\ refCount' = [s \in NzbReqs |-> 0] /\ noReuse' = {} /\ asm' = [s \in NzbReqs |-> "none"] /\ discards' = {}
  /\ nzb' = [r \in NzbReqs |-> IF nzb[r].at = "idle" THEN nzb[r] ELSE NzbAt("end")]
  /\ UNCHANGED <<sigOf, tmpDirs>>

NzbRuns(r) ==
  Decide(r) \/ CheckHealth(r) \/ Follow(r) \/ BuildSession(r) \/ RegisterSession(r) \/ FinishBuild(r) \/ Ensure(r)

NzbNext ==
  \/ \E r \in NzbReqs : CreateArrives(r) \/ StreamArrives(r) \/ NzbRuns(r) \/ FollowerLeaves(r) \/ StreamEnds(r)
  \/ \E s \in NzbReqs : AssemblyStops(s) \/ Discard(s)
  \/ \E k \in NzbKeys : EvictSession(k)
  \/ SweepStale \/ NzbRestart

\* The program's own steps and fetches with a deadline; goroutines that discard; the
\* janitor's ticker. That a response ends is not assumed.
NzbFairness ==
  /\ \A r \in NzbReqs : WF_nzbVars(NzbRuns(r))
  /\ WF_nzbVars(\E s \in NzbReqs : Discard(s)) /\ WF_nzbVars(SweepStale)

NzbSpec == NzbInit /\ [][NzbNext]_nzbVars /\ NzbFairness

-----------------------------------------------------------------------------
(* Properties *)

NzbTypeOK ==
  /\ nzbSessions \in [NzbKeys -> 0 .. NumNzb] /\ nzbOrphans \subseteq NzbReqs
  /\ nzbBuilds \in [NzbKeys \X NzbSigs -> 0 .. NumNzb] /\ sigOf \in [NzbReqs -> NzbSigs]
  /\ refCount \in [NzbReqs -> 0 .. NumNzb] /\ asm \in [NzbReqs -> {"none", "running", "failed", "whole"}]
  /\ tmpDirs \subseteq NzbReqs /\ discards \subseteq NzbReqs /\ noReuse \subseteq NzbReqs
  /\ nzb \in [NzbReqs -> [at : {"idle", "decide", "health", "wait", "build", "register", "finish", "ensure", "stream", "end"},
                          key : NzbKeys, sig : NzbSigs, of : 0 .. NumNzb]]

\* Identical creates never build twice at the same time: every build under way for a
\* key and a payload, up to the registration of its session, is the one that later
\* creates find and wait for.
NzbOneBuild ==
  \A r \in NzbReqs : nzb[r].at \in {"build", "register"} => nzbBuilds[BuildOf(r)] = r

\* A session that a response streams from, or is about to, keeps its directory and is
\* not being discarded, whatever creates, evictions and sweeps happen meanwhile; and a
\* session is never both registered and given up, nor built twice at a time.
StreamedIsKept ==
  /\ \A r \in NzbReqs : nzb[r].at \in {"ensure", "stream", "health"} =>
       nzb[r].of \in tmpDirs \ discards /\ nzb[r].of \in SessionsNow \cup nzbOrphans
  /\ SessionsNow \cap (nzbOrphans \cup discards) = {}
  /\ NzbTypeOK /\ NzbOneBuild

\* Reached and kept in the end: every create is answered, also when the build it waited
\* for failed, and no directory is left that belongs neither to a registered session nor to
\* one a response streams from, crash or not.
NzbSettled ==
  /\ \A r \in NzbReqs : nzb[r].at \in {"idle", "stream", "end"}
  /\ tmpDirs \subseteq SessionsNow \cup {nzb[r].of : r \in {q \in NzbReqs : nzb[q].at = "stream"}}

=============================================================================
