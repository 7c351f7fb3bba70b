------------------------------ MODULE FTPPool ------------------------------
(***************************************************************************)
(* FTP transfers over pooled control connections (internal/ftpstream/      *)
(* pool.go, ftpstream.go): a request takes an idle session of its server   *)
(* and credentials or dials one, opens a transfer on it, and parks the     *)
(* session again if the control connection is still in sync. The context   *)
(* of a request may be cancelled at any time; a hook then closes the data  *)
(* connection and, while the transfer is still being opened, the control   *)
(* connection too.                                                         *)
(*                                                                         *)
(* A request dials at most once, so a session carries the name of the      *)
(* request that dialled it. Of idleSince only the order counts: the pool   *)
(* ranks the parked sessions by it, and the list of a key is its part of   *)
(* that order. What the server answers is free, and a server that is gone  *)
(* is one that does not. The SIZE cache and the HTTP branch of Open keep   *)
(* no connection and are left out.                                         *)
(***************************************************************************)
EXTENDS Integers, FiniteSets

CONSTANTS
  NumRequests,         \* bound: requests, each of which runs once
  MaxCancels,          \* bound: cancelled requests
  MaxOpen,             \* bound: requests, or hooks they left running, at a time
  MaxIdle, MaxPerKey,  \* ftpPoolMaxIdle, ftpPoolMaxPerKey
  PoolJanitor          \* the goroutine of ftpStartJanitor

Requests  == 1 .. NumRequests   \* in the order they start
Sessions  == Requests
Keys      == Requests           \* the pool key of a request is its own or that of an earlier one
NoSession == 0                  \* the nil pointer
Users     == Requests \cup {PoolJanitor}

ASSUME FTPAssumption ==
  /\ {NumRequests, MaxCancels, MaxOpen} \subseteq Nat /\ {MaxIdle, MaxPerKey} \subseteq Nat \ {0}
  /\ PoolJanitor \notin Requests

VARIABLES
  ftpPool,             \* session -> its rank in the pool, 1 for the oldest, or 0: not parked
  expired,             \* the sessions of the pool past ftpPoolTTL
  ftpPoolIdle,         \* the counter
  ctl,                 \* session -> its control connection: "none", "open", "closed"
  owed,                \* sessions on which a reply of the server is still to be read
  want, sess,          \* request -> its key, the session it works on (the hook keeps it)
  place,               \* request -> where it is
  cancelled,           \* requests whose context is done
  phase, data, hook,  \* request -> its lease: phase, data connection; the cancellation hook
  trash                \* user -> sessions taken out of the pool that it has still to discard

poolVars  == <<ftpPool, expired, ftpPoolIdle>>
connVars  == <<ctl, owed>>
leaseVars == <<phase, data, hook>>
ftpVars   == <<poolVars, connVars, leaseVars, want, sess, place, cancelled, trash>>

FTPInit ==
  /\ ftpPool = [s \in Sessions |-> 0] /\ expired = {} /\ ftpPoolIdle = 0
  /\ ctl = [s \in Sessions |-> "none"] /\ owed = {}
  /\ want \in {w \in [Requests -> Keys] : \A r \in Requests : w[r] = r \/ \E q \in 1 .. r - 1 : w[r] = w[q]}
  /\ sess = [r \in Requests |-> NoSession]
  /\ place = [r \in Requests |-> "start"] /\ cancelled = {}
  /\ phase = [r \in Requests |-> "opening"] /\ data = [r \in Requests |-> "none"]
  /\ hook = [r \in Requests |-> "none"]
  /\ trash = [u \in Users |-> {}]

Parked    == {s \in Sessions : ftpPool[s] > 0}
Of(k)     == {s \in Parked : want[s] = k}
Oldest(S) == CHOOSE s \in S : \A t \in S : ftpPool[s] <= ftpPool[t]
Newest(S) == CHOOSE s \in S : \A t \in S : ftpPool[s] >= ftpPool[t]

\* The pool with no more than the sessions of S, in the order it has.
Ranked(S) == [s \in Sessions |-> IF s \in S THEN Cardinality({t \in S : ftpPool[t] <= ftpPool[s]}) ELSE 0]

\* Mutant: a session keeps the time of its first parking.
TakeOutDated(S) ==
  /\ ftpPool' = Ranked(Parked \ S) /\ UNCHANGED expired
  /\ ftpPoolIdle' = ftpPoolIdle - Cardinality(S)

TakeOut(S) ==
  /\ ftpPool' = Ranked(Parked \ S) /\ expired' = expired \ S
  /\ ftpPoolIdle' = ftpPoolIdle - Cardinality(S)

HookRuns(r) == hook[r] \in {"data", "phase", "ctl"}

\* Bound: the next request may start.
MayStart(r) ==
  /\ place[r] = "start" /\ \A q \in 1 .. r - 1 : place[q] # "start"
  /\ Cardinality({q \in Requests : place[q] \notin {"start", "end"} \/ HookRuns(q)}) < MaxOpen

Proceed(r, l) == place' = [place EXCEPT ![r] = l]

\* bind, the first thing open does with a session: a lease of its own, whose hook
\* waits for the context. A context that is done by then is as one done just after.
Bind(r, s) ==
  /\ sess' = [sess EXCEPT ![r] = s] /\ Proceed(r, IF s = r THEN "connect" ELSE "retr")
  /\ phase' = [phase EXCEPT ![r] = "opening"] /\ data' = [data EXCEPT ![r] = "none"]
  /\ hook' = [hook EXCEPT ![r] = "armed"]

-----------------------------------------------------------------------------
(* The pool *)

\* Mutant: the expired sessions it comes across are forgotten.
PoolGetLeaks(r) ==
  LET live == Of(want[r]) \ expired IN
  /\ MayStart(r)
  /\ IF live = {}
     THEN TakeOut(Of(want[r])) /\ Proceed(r, "dial") /\ UNCHANGED <<leaseVars, sess>>
     ELSE TakeOut({Newest(live)}) /\ Bind(r, Newest(live))
  /\ UNCHANGED <<connVars, want, cancelled, trash>>

\* ftpPoolGet: the most recently used session of the key, unless it has expired;
\* then so have all others of the key, and they are taken out to be discarded.
PoolGet(r) ==
  LET live == Of(want[r]) \ expired IN
  /\ MayStart(r)
  /\ IF live = {}
     THEN /\ TakeOut(Of(want[r])) /\ trash' = [trash EXCEPT ![r] = Of(want[r])]
          /\ Proceed(r, "dial") /\ UNCHANGED <<leaseVars, sess>>
     ELSE TakeOut({Newest(live)}) /\ Bind(r, Newest(live)) /\ UNCHANGED trash
  /\ UNCHANGED <<connVars, want, cancelled>>

\* The sessions that make room for one of key k: the oldest of the key if it has
\* its share, then the oldest of all while the counter is at the limit.
Evicted(k) ==
  LET own  == IF Cardinality(Of(k)) >= MaxPerKey THEN {Oldest(Of(k))} ELSE {}
      rest == Parked \ own
      over == ftpPoolIdle - Cardinality(own) - MaxIdle
  IN  own \cup {s \in rest : Cardinality({t \in rest : ftpPool[t] < ftpPool[s]}) <= over}

\* Mutant: the parked session is not counted.
PoolPutUncounted(r) ==
  LET out == Evicted(want[r]) IN
  /\ place[r] = "put" /\ Proceed(r, "end")
  /\ data' = [data EXCEPT ![r] = "closed"]
  /\ ftpPool' = [Ranked(Parked \ out) EXCEPT ![sess[r]] = Cardinality(Parked \ out) + 1] /\ expired' = expired \ out
  /\ ftpPoolIdle' = ftpPoolIdle - Cardinality(out)
  /\ trash' = [trash EXCEPT ![r] = out]
  /\ UNCHANGED <<connVars, phase, hook, want, sess, cancelled>>

\* ftpPoolPut: the lease is dropped and the session parked as the newest.
PoolPut(r) ==
  LET out == Evicted(want[r]) IN
  /\ place[r] = "put" /\ Proceed(r, "end")
  /\ data' = [data EXCEPT ![r] = "closed"]
  /\ ftpPool' = [Ranked(Parked \ out) EXCEPT ![sess[r]] = Cardinality(Parked \ out) + 1] /\ expired' = expired \ out
  /\ ftpPoolIdle' = ftpPoolIdle - Cardinality(out) + 1
  /\ trash' = [trash EXCEPT ![r] = out]
  /\ UNCHANGED <<connVars, phase, hook, want, sess, cancelled>>

\* A session has been idle for ftpPoolTTL, the oldest first.
Expire ==
  /\ Parked \ expired # {} /\ expired' = expired \cup {Oldest(Parked \ expired)}
  /\ UNCHANGED <<ftpPool, ftpPoolIdle, connVars, leaseVars, want, sess, place, cancelled, trash>>

\* ftpPoolEvict on a tick of the janitor.
PoolEvict ==
  /\ trash[PoolJanitor] = {} /\ expired # {}
  /\ TakeOut(expired) /\ trash' = [trash EXCEPT ![PoolJanitor] = expired]
  /\ UNCHANGED <<connVars, leaseVars, want, sess, place, cancelled>>

\* discard of a session taken out of the pool, after the unlock.
DiscardPooled(u) ==
  /\ \E s \in trash[u] : ctl' = [ctl EXCEPT ![s] = "closed"] /\ trash' = [trash EXCEPT ![u] = @ \ {s}]
  /\ UNCHANGED <<poolVars, owed, leaseVars, want, sess, place, cancelled>>

\* discard of the session of a request: its lease goes with it.
DiscardOwn(r) ==
  /\ ctl' = [ctl EXCEPT ![sess[r]] = "closed"] /\ owed' = owed \ {sess[r]}
  /\ data' = [data EXCEPT ![r] = "closed"]

-----------------------------------------------------------------------------
(* openFTPAt and open *)

\* dialFresh: the host is refused up front, or there is a new session.
DialFresh(r) ==
  /\ place[r] = "dial" /\ trash[r] = {}
  /\ \/ Proceed(r, "end") /\ UNCHANGED <<leaseVars, sess>>
     \/ Bind(r, r)
  /\ UNCHANGED <<poolVars, connVars, want, cancelled, trash>>

Fresh(r) == sess[r] = r

\* connect: the dial fails, or the connection joins s.ctl, unless the hook has
\* closed that; the login may still fail.
Connect(r) ==
  /\ place[r] = "connect"
  /\ \/ Proceed(r, "fail") /\ UNCHANGED ctl
     \/ /\ ctl[r] = "none" /\ r \notin cancelled
        /\ ctl' = [ctl EXCEPT ![r] = "open"] /\ \E l \in {"retr", "fail"} : Proceed(r, l)
  /\ UNCHANGED <<poolVars, owed, leaseVars, want, sess, cancelled, trash>>

\* SIZE, then RETR: the transfer starts, with a data connection that joins the
\* lease; the server refuses it or the data connection cannot be dialled; or the
\* session turns out dead.
Retr(r) ==
  /\ place[r] = "retr"
  /\ \/ /\ ctl[sess[r]] = "open" /\ data[r] # "closed" /\ r \notin cancelled
        /\ data' = [data EXCEPT ![r] = "open"] /\ owed' = owed \cup {sess[r]} /\ Proceed(r, "opened")
     \/ ctl[sess[r]] = "open" /\ Proceed(r, "refused") /\ UNCHANGED <<data, owed>>
     \/ Proceed(r, "fail") /\ UNCHANGED <<data, owed>>
  /\ UNCHANGED <<poolVars, ctl, phase, hook, want, sess, cancelled, trash>>

\* The context is checked after RETR; the response is closed again.
CheckCtx(r) ==
  /\ place[r] = "opened"
  /\ Proceed(r, IF r \in cancelled THEN "fail" ELSE "begin")
  /\ data' = IF r \in cancelled THEN [data EXCEPT ![r] = "closed"] ELSE data
  /\ UNCHANGED <<poolVars, connVars, phase, hook, want, sess, cancelled, trash>>

\* Mutant: the phase is stored, not compared and swapped.
BeginTransferSet(r) ==
  /\ place[r] = "begin" /\ Proceed(r, "read") /\ phase' = [phase EXCEPT ![r] = "transferring"]
  /\ UNCHANGED <<poolVars, connVars, data, hook, want, sess, cancelled, trash>>

\* beginTransfer: from here the hook spares the control connection.
BeginTransfer(r) ==
  /\ place[r] = "begin"
  /\ IF phase[r] = "opening"
     THEN Proceed(r, "read") /\ phase' = [phase EXCEPT ![r] = "transferring"] /\ UNCHANGED data
     ELSE Proceed(r, "fail") /\ data' = [data EXCEPT ![r] = "closed"] /\ UNCHANGED phase
  /\ UNCHANGED <<poolVars, connVars, hook, want, sess, cancelled, trash>>

\* stop() detaches the hook, unless it has started.
StopHook(r) == hook' = [hook EXCEPT ![r] = IF @ = "armed" THEN "none" ELSE @]

\* fail: the session goes ...
Fail(r) ==
  /\ place[r] = "fail" /\ StopHook(r) /\ DiscardOwn(r)
  /\ Proceed(r, IF Fresh(r) THEN "end" ELSE "redial")
  /\ UNCHANGED <<poolVars, phase, want, sess, cancelled, trash>>

\* ... and one that came from the pool is replaced once, if the context is alive
\* and dialFresh does not refuse the host.
Redial(r) ==
  /\ place[r] = "redial"
  /\ \/ Proceed(r, "end") /\ UNCHANGED <<leaseVars, sess>>
     \/ r \notin cancelled /\ Bind(r, r)
  /\ UNCHANGED <<poolVars, connVars, want, cancelled, trash>>

\* refused: the session is kept if the hook has not started.
Refused(r) ==
  /\ place[r] = "refused" /\ StopHook(r)
  /\ IF hook[r] = "armed" THEN Proceed(r, "put") /\ UNCHANGED <<connVars, data>>
     ELSE DiscardOwn(r) /\ Proceed(r, "end")
  /\ UNCHANGED <<poolVars, phase, want, sess, cancelled, trash>>

-----------------------------------------------------------------------------
(* The transfer *)

\* The reader is closed: the player has what it wants, or a read failed.
CloseReader(r) ==
  /\ place[r] = "read" /\ Proceed(r, "reply") /\ StopHook(r)
  /\ UNCHANGED <<poolVars, connVars, phase, data, want, sess, cancelled, trash>>

\* resp.Close closes the data connection and reads the final reply, or gets none
\* in time; the session is parked with the reply read and goes without it.
Reply(r) ==
  /\ place[r] = "reply"
  /\ \/ /\ ctl[sess[r]] = "open" /\ owed' = owed \ {sess[r]} /\ Proceed(r, "put")
        /\ data' = [data EXCEPT ![r] = "closed"] /\ UNCHANGED ctl
     \/ DiscardOwn(r) /\ Proceed(r, "end")
  /\ UNCHANGED <<poolVars, phase, hook, want, sess, cancelled, trash>>

-----------------------------------------------------------------------------
(* The context and its hook *)

CancelRequest(r) ==
  /\ r \notin cancelled /\ place[r] \notin {"start", "end"} /\ Cardinality(cancelled) < MaxCancels
  /\ cancelled' = cancelled \cup {r}
  /\ UNCHANGED <<poolVars, connVars, leaseVars, want, sess, place, trash>>

HookStarts(r) ==
  /\ r \in cancelled /\ hook[r] = "armed" /\ hook' = [hook EXCEPT ![r] = "data"]
  /\ UNCHANGED <<poolVars, connVars, phase, data, want, sess, place, cancelled, trash>>

\* Mutant: the hook leaves the data connection of a transfer alone.
HookDataOpening(r) ==
  /\ hook[r] = "data" /\ hook' = [hook EXCEPT ![r] = "phase"]
  /\ data' = IF phase[r] = "opening" THEN [data EXCEPT ![r] = "closed"] ELSE data
  /\ UNCHANGED <<poolVars, connVars, phase, want, sess, place, cancelled, trash>>

HookData(r) ==
  /\ hook[r] = "data" /\ hook' = [hook EXCEPT ![r] = "phase"]
  /\ data' = [data EXCEPT ![r] = "closed"]
  /\ UNCHANGED <<poolVars, connVars, phase, want, sess, place, cancelled, trash>>

\* The compare-and-swap on the phase of the lease ...
HookPhase(r) ==
  /\ hook[r] = "phase"
  /\ IF phase[r] = "opening"
     THEN phase' = [phase EXCEPT ![r] = "aborted"] /\ hook' = [hook EXCEPT ![r] = "ctl"]
     ELSE hook' = [hook EXCEPT ![r] = "done"] /\ UNCHANGED phase
  /\ UNCHANGED <<poolVars, connVars, data, want, sess, place, cancelled, trash>>

\* ... and the control connection of the session that bind captured, whoever
\* has that session now.
HookCtl(r) ==
  /\ hook[r] = "ctl" /\ hook' = [hook EXCEPT ![r] = "done"]
  /\ ctl' = [ctl EXCEPT ![sess[r]] = "closed"]
  /\ UNCHANGED <<poolVars, owed, phase, data, want, sess, place, cancelled, trash>>

-----------------------------------------------------------------------------
OpenStep(r) ==
  \/ DialFresh(r) \/ Connect(r) \/ Retr(r) \/ CheckCtx(r) \/ BeginTransfer(r)
  \/ Fail(r) \/ Redial(r) \/ Refused(r)
EndStep(r)  == Reply(r) \/ PoolPut(r)
HookStep(r) == HookStarts(r) \/ HookData(r) \/ HookPhase(r) \/ HookCtl(r)

FTPNext ==
  \/ \E r \in Requests : \/ PoolGet(r) \/ OpenStep(r) \/ CloseReader(r) \/ EndStep(r)
                         \/ CancelRequest(r) \/ HookStep(r)
  \/ \E u \in Users : DiscardPooled(u)
  \/ Expire \/ PoolEvict

\* Goroutines run, and every dial, read and write has a deadline. A player may
\* keep a transfer for ever; only a closed data connection ends its read.
RequestRuns(r) ==
  OpenStep(r) \/ EndStep(r) \/ DiscardPooled(r) \/ (data[r] = "closed" /\ CloseReader(r))

FTPSpec == FTPInit /\ [][FTPNext]_ftpVars

FTPFairSpec ==
  FTPSpec /\ \A r \in Requests : WF_ftpVars(RequestRuns(r)) /\ WF_ftpVars(HookStep(r))

-----------------------------------------------------------------------------
(* Properties *)

\* Every variable has its type.
FTPTypeOK ==
  /\ ftpPool \in [Sessions -> 0 .. NumRequests] /\ expired \subseteq Parked /\ ftpPoolIdle \in Nat
  /\ ctl \in [Sessions -> {"none", "open", "closed"}] /\ owed \subseteq Sessions
  /\ want \in [Requests -> Keys] /\ sess \in [Requests -> Sessions \cup {NoSession}]
  /\ place \in [Requests -> {"start", "dial", "connect", "retr", "opened", "begin", "read", "reply",
                             "fail", "redial", "refused", "put", "end"}]
  /\ cancelled \subseteq Requests /\ trash \in [Users -> SUBSET Sessions]
  /\ phase \in [Requests -> {"opening", "transferring", "aborted"}]
  /\ data \in [Requests -> {"none", "open", "closed"}]
  /\ hook \in [Requests -> {"none", "armed", "data", "phase", "ctl", "done"}]

\* However requests park, reuse and expire sessions, the counter ftpPoolPut
\* decides by is the number of parked sessions, and neither limit is passed.
PoolBounded ==
  /\ ftpPoolIdle = Cardinality(Parked) /\ ftpPoolIdle <= MaxIdle
  /\ \A k \in Keys : Cardinality(Of(k)) <= MaxPerKey

Holds(r, s) == sess[r] = s /\ place[r] \notin {"dial", "redial", "end"}
Owners(s)   == {r \in Requests : Holds(r, s)} \cup {u \in Users : s \in trash[u]}

\* "It is owned by exactly one request at a time or sits idle in ftpPool": no
\* session is given to two, and none whose control connection is open is
\* forgotten; a server grants few of them.
SessionOwned ==
  \A s \in Sessions : LET n == Cardinality(Owners(s)) + (IF s \in Parked THEN 1 ELSE 0)
                      IN  n <= 1 /\ (ctl[s] = "open" => n = 1)

\* Every session of the pool has one owner, and the pool keeps its limits.
PoolExact == FTPTypeOK /\ PoolBounded /\ SessionOwned

\* A parked session is one the next request can talk to: its control connection
\* is open and every reply of an earlier transfer has been read from it. Nor does
\* the hook of a cancelled request close the control connection later, under
\* another request.
InSync ==
  /\ \A s \in Parked : ctl[s] = "open" /\ s \notin owed
  /\ \A r \in Requests \ cancelled : place[r] \in {"retr", "opened", "begin", "read", "reply", "put"}
                                    => ctl[sess[r]] = "open"

\* Cancelled requests end, in whatever read or write their goroutines are.
CancelEnds == []<>(\A r \in cancelled : place[r] = "end")

=============================================================================
