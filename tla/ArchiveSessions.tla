-------------------------- MODULE ArchiveSessions --------------------------
(***************************************************************************)
(* The session store of the archive API (internal/api/archive.go):         *)
(* creates that reuse, await or build a session, streams that pin one,     *)
(* replacement, eviction and the caps, destruction, and the sweep of what  *)
(* a dead process left in the temp directory.                              *)
(*                                                                         *)
(* Requests are numbered as they arrive; the session a create builds has   *)
(* its number. A session's files are its downloaded archive and its entry  *)
(* directory. Clocks are left out: whatever depends on an age may happen   *)
(* at any moment the code allows.                                          *)
(***************************************************************************)
EXTENDS Integers, Sequences, FiniteSets

CONSTANTS
  ArcTargets,     \* what requests name: session keys with normalised payloads (archiveCreateSig)
  NumArc,         \* requests of a run
  ArcMax,         \* archiveMaxSessions
  ArcMaxBytes,    \* archiveMaxTempBytes, in units of what a session with files holds
  MaxArcRestarts  \* bound on restarts of the process

ASSUME ArcAssumption == {NumArc, ArcMax, ArcMaxBytes, MaxArcRestarts} \subseteq Nat /\ ArcTargets # {}

VARIABLES
  sess,        \* sessions: where they are, what they were created for, refCount, noReuse, bytes on disk
  sessions,    \* archiveSessions, by key; 0 for none
  builds,      \* archiveBuilds: the create that leads the build of a key and payload, or 0
  recent,      \* registered sessions by lastAccess, least recent first
  capChecks,   \* archiveEnforceCaps goroutines that have not run yet, by the session they keep
  arc,         \* requests: place, target, session or leader they hold on to
  arcRestarts

arcVars == <<sess, sessions, builds, recent, capChecks, arc, arcRestarts>>

ArcReqs == 1 .. NumArc
ArcKeys == {t[1] : t \in ArcTargets}
FirstTarget == CHOOSE t \in ArcTargets : TRUE

NoSession == [place |-> "none", target |-> FirstTarget, ref |-> 0, failed |-> FALSE, bytes |-> 0]
NoArc(l) == [at |-> l, target |-> FirstTarget, on |-> 0]

ArcInit ==
  /\ sess = [i \in ArcReqs |-> NoSession]
  /\ sessions = [k \in ArcKeys |-> 0] /\ builds = [t \in ArcTargets |-> 0]
  /\ recent = <<>> /\ capChecks = {}
  /\ arc = [r \in ArcReqs |-> NoArc("idle")]
  /\ arcRestarts = 0

KeyOf(r) == arc[r].target[1]

ArcGoto(r, l) == arc' = [arc EXCEPT ![r] = IF l = "end" THEN NoArc("end") ELSE [@ EXCEPT !.at = l]]
Unlist(i) == SelectSeq(recent, LAMBDA j : j # i)

\* lastAccess is now.
Used(i) == IF sess[i].place = "live" THEN Append(Unlist(i), i) ELSE recent

\* A session that is no longer anywhere: its record says only that it existed.
Gone == [NoSession EXCEPT !.place = "gone"]

\* Creates begin with a decision, streams with a lookup. The first request creates, as
\* there is nothing to stream yet; its target is named once and for all.
ArcStart(r) ==
  /\ arc[r].at = "idle" /\ \A q \in 1 .. r - 1 : arc[q].at # "idle"
  /\ \E t \in ArcTargets, l \in {"decide", "acquire"} :
       /\ r = 1 => t = FirstTarget /\ l = "decide"
       /\ arc' = [arc EXCEPT ![r] = [at |-> l, target |-> t, on |-> 0]]
  /\ UNCHANGED <<sess, sessions, builds, recent, capChecks, arcRestarts>>

-----------------------------------------------------------------------------
(* Pins *)

Pin(r, i, l) ==
  /\ sess' = [sess EXCEPT ![i].ref = @ + 1]
  /\ recent' = Used(i)
  /\ arc' = [arc EXCEPT ![r].at = l, ![r].on = i]

\* Mutant: the last reader of a retired session just leaves.
UnpinOnly(i, failed) == sess' = [sess EXCEPT ![i] = [@ EXCEPT !.ref = @ - 1, !.failed = @ \/ failed]]

\* release, with the session marked failed or not: the last reader of a retired
\* session sends it to its destruction.
Unpin(i, failed) ==
  sess' = [sess EXCEPT ![i] = [sess[i] EXCEPT !.ref = @ - 1, !.failed = @ \/ failed,
             !.place = IF @ = "retired" /\ sess[i].ref = 1 THEN "out" ELSE @]]

\* archiveAcquireSession, for a stream.
ArcAcquire(r) ==
  LET i == sessions[KeyOf(r)] IN
  /\ arc[r].at = "acquire"
  /\ IF i = 0 THEN ArcGoto(r, "end") /\ UNCHANGED <<sess, recent>> ELSE Pin(r, i, "serve")
  /\ UNCHANGED <<sessions, builds, capChecks, arcRestarts>>

\* A stream opens its entry. An extraction puts bytes on disk and has the caps
\* checked; one that fails, or a checksum that does not match, spoils the session
\* for later creates.
ArcServe(r) ==
  LET i == arc[r].on IN
  /\ arc[r].at = "serve"
  /\ \E extract, bad \in BOOLEAN :
       /\ sess' = [sess EXCEPT ![i].bytes = IF extract THEN 1 ELSE @, ![i].failed = @ \/ bad]
       /\ capChecks' = IF extract THEN capChecks \cup {i} ELSE capChecks
  /\ recent' = Used(i) /\ ArcGoto(r, "served")
  /\ UNCHANGED <<sessions, builds, arcRestarts>>

\* The body is written or the client has gone.
ArcServed(r) ==
  /\ arc[r].at = "served"
  /\ Unpin(arc[r].on, FALSE) /\ ArcGoto(r, "end")
  /\ UNCHANGED <<sessions, builds, recent, capChecks, arcRestarts>>

-----------------------------------------------------------------------------
(* Creates *)

\* pinIfReusable, as far as the clock has no say.
Reusable(i, r) == i # 0 /\ sess[i].target = arc[r].target /\ ~sess[i].failed

\* archiveReuseOrLead: a session of the same payload (young enough) is pinned, a
\* build in progress awaited, or a new one led.
ArcDecide(r) ==
  LET i == sessions[KeyOf(r)]
      b == arc[r].target
  IN
  /\ arc[r].at = "decide"
  /\ \/ Reusable(i, r) /\ Pin(r, i, "check") /\ UNCHANGED builds
     \/ /\ builds[b] # 0
        /\ arc' = [arc EXCEPT ![r].at = "await", ![r].on = builds[b]]
        /\ UNCHANGED <<sess, recent, builds>>
     \/ /\ builds[b] = 0
        /\ builds' = [builds EXCEPT ![b] = r] /\ ArcGoto(r, "build")
        /\ sess' = [sess EXCEPT ![r] = [NoSession EXCEPT !.place = "download", !.target = arc[r].target]]
        /\ UNCHANGED recent
  /\ UNCHANGED <<sessions, capChecks, arcRestarts>>

\* sourceUnchanged, outside every lock; a session whose source changed is spoilt and
\* the create starts over.
ArcCheck(r) ==
  /\ arc[r].at = "check"
  /\ \E fresh \in BOOLEAN :
       /\ Unpin(arc[r].on, ~fresh)
       /\ IF fresh THEN ArcGoto(r, "end") ELSE arc' = [arc EXCEPT ![r].at = "decide", ![r].on = 0]
  /\ UNCHANGED <<sessions, builds, recent, capChecks, arcRestarts>>

\* The leader is through (its done channel is closed), or the client has gone.
ArcAwaited(r, gone) ==
  /\ arc[r].at = "await" /\ (gone \/ arc[arc[r].on].at = "end")
  /\ ArcGoto(r, "end")
  /\ UNCHANGED <<sess, sessions, builds, recent, capChecks, arcRestarts>>

\* archiveBuildSession fails: download, listing, selection. What it had written is
\* removed.
ArcBuildFails(r) ==
  /\ arc[r].at = "build"
  /\ sess' = [sess EXCEPT ![r] = Gone] /\ ArcGoto(r, "finish")
  /\ UNCHANGED <<sessions, builds, recent, capChecks, arcRestarts>>

\* Mutant: the session of a key that is created again is destroyed at once.
RetireAtOnce(old) == "out"

\* archiveRetireLocked: one that is being read waits for its last reader.
Retire(old) == IF sess[old].ref = 0 THEN "out" ELSE "retired"

\* archiveBuildAndRegister: the new session takes the key, its flight ends in the
\* same critical section, and the old one is retired.
ArcRegister(r) ==
  LET old == sessions[KeyOf(r)] IN
  /\ arc[r].at = "build" /\ sess[r].place = "download"
  /\ sessions' = [sessions EXCEPT ![KeyOf(r)] = r]
  /\ \E n \in 0 .. 1 :
       sess' = [i \in ArcReqs |-> IF i = r THEN [sess[i] EXCEPT !.place = "live", !.bytes = n]
                                  ELSE IF i = old THEN [sess[i] EXCEPT !.place = Retire(old)] ELSE sess[i]]
  /\ builds' = IF builds[arc[r].target] = r THEN [builds EXCEPT ![arc[r].target] = 0] ELSE builds
  /\ recent' = Append(Unlist(old), r) /\ capChecks' = capChecks \cup {r}
  /\ ArcGoto(r, "finish")
  /\ UNCHANGED arcRestarts

\* Mutant: the leader clears whatever flight there is.
ArcFinishBlindly(r) ==
  /\ arc[r].at = "finish"
  /\ builds' = [builds EXCEPT ![arc[r].target] = 0]
  /\ ArcGoto(r, "end")
  /\ UNCHANGED <<sess, sessions, recent, capChecks, arcRestarts>>

\* The deferred end of the flight: another one may be under its name by now.
ArcFinish(r) ==
  /\ arc[r].at = "finish"
  /\ builds' = IF builds[arc[r].target] = r THEN [builds EXCEPT ![arc[r].target] = 0] ELSE builds
  /\ ArcGoto(r, "end")
  /\ UNCHANGED <<sess, sessions, recent, capChecks, arcRestarts>>

-----------------------------------------------------------------------------
(* Eviction, destruction, sweep *)

Registered == {i \in ArcReqs : sess[i].place = "live"}

\* tempBytesLocked, summed over sessions: each with files counts one unit.
TempBytes(S) == Cardinality({i \in S : sess[i].bytes # 0})
HeldBytes == TempBytes({i \in ArcReqs : sess[i].place \in {"live", "retired"}})

Unregister(victims) ==
  /\ sess' = [i \in ArcReqs |-> IF i \in victims THEN [sess[i] EXCEPT !.place = "out"] ELSE sess[i]]
  /\ sessions' = [k \in ArcKeys |-> IF sessions[k] \in victims THEN 0 ELSE sessions[k]]
  /\ recent' = SelectSeq(recent, LAMBDA i : i \notin victims)

\* archiveEvict: idle for longer than the TTL.
ArcEvict ==
  /\ \E i \in Registered : sess[i].ref = 0 /\ Unregister({i})
  /\ UNCHANGED <<builds, capChecks, arc, arcRestarts>>

\* The candidates of a check that keeps one session: nobody reads from them.
Candidates(kept) == {i \in Registered : i # kept /\ sess[i].ref = 0}

\* Whether a candidate goes when this much is left at its turn: there are too many
\* sessions, or too many bytes, its own among them; nobody goes for bytes if that could
\* not help.
OverCap(kept, left, i) ==
  LET reachable == HeldBytes - TempBytes(Candidates(kept)) <= ArcMaxBytes IN
  /\ i \in Candidates(kept)
  /\ left.count > ArcMax \/ (reachable /\ left.total > ArcMaxBytes /\ sess[i].bytes # 0)

\* The loop of archiveEnforceCaps, least recently used first: the sessions and bytes that
\* are left after the turns of the first n.
CapLoop(kept) ==
  LET left[n \in 0 .. Len(recent)] ==
        IF n = 0 THEN [count |-> Cardinality(Registered), total |-> HeldBytes]
        ELSE LET l == left[n - 1]
                 i == recent[n]
             IN IF OverCap(kept, l, i) THEN [count |-> l.count - 1, total |-> l.total - sess[i].bytes] ELSE l
  IN left

\* Whom the caps send away.
CapVictims(kept) ==
  LET left == CapLoop(kept) IN
  {i \in Candidates(kept) : \E n \in 1 .. Len(recent) : i = recent[n] /\ OverCap(kept, left[n - 1], i)}

ArcEnforceCaps ==
  /\ \E i \in capChecks : capChecks' = capChecks \ {i} /\ Unregister(CapVictims(i))
  /\ UNCHANGED <<builds, arc, arcRestarts>>

\* archiveDestroySession: the background work is stopped and the files go.
ArcDestroy(i) ==
  /\ sess[i].place = "out" /\ sess' = [sess EXCEPT ![i] = Gone]
  /\ UNCHANGED <<sessions, builds, recent, capChecks, arc, arcRestarts>>

\* Mutant: the sweep knows the registered sessions only.
SweptForgetsRetired(i) == sess[i].place \in {"orphan", "out", "retired"}

\* What the sweep may take for stale: no session in memory owns it. The age limit
\* keeps a build's files safe.
Swept(i) == sess[i].place \in {"orphan", "out"}

ArcSweep(i) ==
  /\ Swept(i) /\ sess' = [sess EXCEPT ![i] = Gone]
  /\ UNCHANGED <<sessions, builds, recent, capChecks, arc, arcRestarts>>

\* The process dies and starts again: its sessions, builds and requests are gone,
\* their files are not.
ArcRestart ==
  /\ arcRestarts < MaxArcRestarts /\ arcRestarts' = arcRestarts + 1
  /\ sess' = [i \in ArcReqs |-> IF sess[i].place \in {"none", "gone"} THEN sess[i] ELSE [NoSession EXCEPT !.place = "orphan"]]
  /\ sessions' = [k \in ArcKeys |-> 0] /\ builds' = [t \in ArcTargets |-> 0]
  /\ recent' = <<>> /\ capChecks' = {}
  /\ arc' = [r \in ArcReqs |-> IF arc[r].at = "idle" THEN arc[r] ELSE NoArc("end")]

-----------------------------------------------------------------------------
ArcStep(r) ==
  \/ ArcAcquire(r) \/ ArcServe(r) \/ ArcServed(r) \/ ArcDecide(r) \/ ArcCheck(r) \/ ArcAwaited(r, FALSE)
  \/ ArcBuildFails(r) \/ ArcRegister(r) \/ ArcFinish(r)

ArcNext ==
  \/ \E r \in ArcReqs : ArcStart(r) \/ ArcStep(r) \/ ArcAwaited(r, TRUE) \/ ArcDestroy(r) \/ ArcSweep(r)
  \/ ArcEvict \/ ArcEnforceCaps \/ ArcRestart

\* Requests go on (downloads and writes have timeouts), destructions run, and the
\* janitor's ticker keeps sweeping. Nobody has to be idle long enough to be evicted.
ArcFairness ==
  /\ \A r \in ArcReqs : WF_arcVars(ArcStep(r)) /\ WF_arcVars(ArcDestroy(r) \/ ArcSweep(r))

ArcSpec == ArcInit /\ [][ArcNext]_arcVars /\ ArcFairness

-----------------------------------------------------------------------------
(* Properties *)

ArcTypeOK ==
  /\ sess \in [ArcReqs -> [place : {"none", "download", "live", "retired", "out", "orphan", "gone"}, target : ArcTargets,
                           ref : 0 .. NumArc, failed : BOOLEAN, bytes : 0 .. 1]]
  /\ sessions \in [ArcKeys -> {0} \cup ArcReqs] /\ builds \in [ArcTargets -> {0} \cup ArcReqs]
  /\ capChecks \subseteq ArcReqs

Pinning(i) == {r \in ArcReqs : arc[r].at \in {"check", "serve", "served"} /\ arc[r].on = i}

\* Equivalent creates share one build: of each key and payload at most one archive
\* is being downloaded.
OneBuild ==
  \A r, q \in ArcReqs : arc[r].at = "build" /\ arc[q].at = "build" /\ arc[r].target = arc[q].target => r = q

\* No request loses its session under its hands, however creates replace it,
\* evictions, caps and sweeps run: the files of a session that is read or checked
\* are there, its refCount is the number of its readers, and a session counts as
\* live exactly as long as its key leads to it; and equivalent creates share a build.
PinnedSessions ==
  ArcTypeOK /\ OneBuild /\ \A i \in ArcReqs :
    /\ sess[i].ref = Cardinality(Pinning(i))
    /\ Pinning(i) # {} => sess[i].place \in {"live", "retired"}
    /\ sess[i].place = "live" <=> sessions[sess[i].target[1]] = i

\* Reached and kept in the end: every request has ended and nothing leaks, what is on
\* disk belongs to a registered session, replaced sessions, failed builds and the remains of a dead
\* process included.
ArcSettled ==
  /\ \A r \in ArcReqs : arc[r].at \in {"idle", "end"}
  /\ \A i \in ArcReqs : sess[i].place \in {"none", "live", "gone"}

=============================================================================
