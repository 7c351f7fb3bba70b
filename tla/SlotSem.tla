------------------------------ MODULE SlotSem ------------------------------
(***************************************************************************)
(* The FIFO semaphore behind every transcode and subtitle extraction       *)
(* (internal/media/slotsem.go). Its limit is not part of it: each call     *)
(* reads the live setting before it takes the lock, so it may act on a     *)
(* value that has changed since (`seen').                                  *)
(***************************************************************************)
EXTENDS Integers, Sequences, FiniteSets

CONSTANTS
  Jobs,      \* goroutines that want a slot
  Limits     \* the values the concurrency setting may take

\* currentConcurrency never returns less than 1.
ASSUME SlotAssumption == Limits \subseteq Nat \ {0} /\ Limits # {} /\ IsFiniteSet(Jobs)

VARIABLES
  limit,     \* the live setting
  held,      \* slotSem.held
  waiters,   \* slotSem.waiters, oldest first
  granted,   \* waiters handed a slot that have not woken up yet
  job, seen   \* the jobs: where they are, and the limit they read last

semVars == <<held, waiters, granted>>
slotVars == <<limit, held, waiters, granted, job, seen>>

SlotInit ==
  /\ limit \in Limits
  /\ held = 0 /\ waiters = <<>> /\ granted = {}
  /\ job = [j \in Jobs |-> "idle"] /\ seen = [j \in Jobs |-> limit]

JobAt(j, l) == job' = [job EXCEPT ![j] = l]

\* Mutant: the limit counts from zero and is not clamped to 1.
ReadLimitRaw(j) == seen' = [seen EXCEPT ![j] = limit - 1]

\* limitFn, outside the lock.
ReadLimit(j) == seen' = [seen EXCEPT ![j] = limit]

\* POST /settings
SetLimit ==
  /\ limit' \in Limits \ {limit}
  /\ UNCHANGED <<semVars, job, seen>>

\* Mutant: one slot is always kept back.
HandedLess(h, q, l) == IF l - h <= 1 THEN 0 ELSE IF q <= l - h - 1 THEN q ELSE l - h - 1

\* grantLocked: how many of the q waiters get a slot when h slots are taken.
Handed(h, q, l) == IF l - h <= 0 THEN 0 ELSE IF q <= l - h THEN q ELSE l - h

First(n) == {waiters[k] : k \in 1 .. n}
Rest(n)  == SubSeq(waiters, n + 1, Len(waiters))

\* waiters.Remove(el): the queue without the waiter of job j.
Without(j) ==
  LET k == CHOOSE k \in 1 .. Len(waiters) : waiters[k] = j
  IN SubSeq(waiters, 1, k - 1) \o SubSeq(waiters, k + 1, Len(waiters))

-----------------------------------------------------------------------------
(* acquire *)

Acquire(j) ==
  /\ job[j] = "idle"
  /\ JobAt(j, "enter") /\ ReadLimit(j)
  /\ UNCHANGED <<limit, semVars>>

\* Mutant: a newcomer takes a free slot although others wait.
TakeBarging(j) ==
  LET n == Handed(held, Len(waiters), seen[j]) IN
  /\ job[j] = "enter"
  /\ IF held < seen[j]
     THEN JobAt(j, "hold") /\ held' = held + 1 /\ UNCHANGED <<waiters, granted>>
     ELSE /\ JobAt(j, "wait") /\ held' = held + n
          /\ granted' = granted \cup First(n) /\ waiters' = Append(Rest(n), j)
  /\ UNCHANGED <<limit, seen>>

\* Older waiters first; then a free slot, or a place at the end of the queue.
TakeOrQueue(j) ==
  LET n == Handed(held, Len(waiters), seen[j]) IN
  /\ job[j] = "enter"
  /\ granted' = granted \cup First(n)
  /\ IF held + n < seen[j] /\ Rest(n) = <<>>
     THEN JobAt(j, "hold") /\ held' = held + n + 1 /\ waiters' = Rest(n)
     ELSE JobAt(j, "wait") /\ held' = held + n /\ waiters' = Append(Rest(n), j)
  /\ UNCHANGED <<limit, seen>>

\* w.ready is closed.
Wake(j) ==
  /\ job[j] = "wait" /\ j \in granted
  /\ JobAt(j, "hold") /\ granted' = granted \ {j}
  /\ UNCHANGED <<limit, held, waiters, seen>>

\* Mutant: the tick goes by the limit read when the job queued.
TickStale(j) ==
  /\ job[j] = "wait"
  /\ JobAt(j, "tick") /\ UNCHANGED <<limit, semVars, seen>>

\* The slow tick re-reads the limit ...
Tick(j) ==
  /\ job[j] = "wait"
  /\ JobAt(j, "tick") /\ ReadLimit(j)
  /\ UNCHANGED <<limit, semVars>>

\* The ctx of a waiting job is done: the limit is read again ...
Cancel(j) ==
  /\ job[j] = "wait"
  /\ JobAt(j, "cancel") /\ ReadLimit(j)
  /\ UNCHANGED <<limit, semVars>>

\* Hand out what the job's limit allows, h slots being taken.
Grant(j, h) ==
  LET n == Handed(h, Len(waiters), seen[j]) IN
  /\ held' = h + n
  /\ granted' = (granted \cup First(n)) \ (IF job[j] = "cancel" THEN {j} ELSE {})
  /\ waiters' = Rest(n)

\* ... and hands out what it allows.
TickGrant(j) ==
  /\ job[j] = "tick"
  /\ Grant(j, held) /\ JobAt(j, "wait")
  /\ UNCHANGED <<limit, seen>>

\* Mutant: a slot handed over before the cancellation is forgotten.
GiveUpLeaks(j) ==
  /\ job[j] = "cancel" /\ JobAt(j, "idle")
  /\ granted' = granted \ {j}
  /\ waiters' = IF j \in granted THEN waiters ELSE Without(j)
  /\ UNCHANGED <<limit, held, seen>>

\* ... and a slot that was handed over meanwhile is given straight back.
GiveUp(j) ==
  /\ job[j] = "cancel" /\ JobAt(j, "idle")
  /\ IF j \in granted THEN Grant(j, held - 1)
     ELSE waiters' = Without(j) /\ UNCHANGED <<held, granted>>
  /\ UNCHANGED <<limit, seen>>

-----------------------------------------------------------------------------
(* release *)

\* The slot goes back; without waiters that is all.
Release(j) ==
  /\ job[j] = "hold"
  /\ held' = IF held > 0 THEN held - 1 ELSE held
  /\ JobAt(j, IF waiters = <<>> THEN "idle" ELSE "released")
  /\ UNCHANGED <<limit, waiters, granted, seen>>

ReleaseRead(j) ==
  /\ job[j] = "released"
  /\ JobAt(j, "grant") /\ ReadLimit(j)
  /\ UNCHANGED <<limit, semVars>>

ReleaseGrant(j) ==
  /\ job[j] = "grant" /\ JobAt(j, "idle")
  /\ Grant(j, held)
  /\ UNCHANGED <<limit, seen>>

-----------------------------------------------------------------------------
SlotStep(j) ==
  \/ Acquire(j) \/ TakeOrQueue(j) \/ Wake(j) \/ Tick(j) \/ TickGrant(j) \/ Cancel(j) \/ GiveUp(j)
  \/ Release(j) \/ ReleaseRead(j) \/ ReleaseGrant(j)

SlotNext == SetLimit \/ \E j \in Jobs : SlotStep(j)

SlotSpec == SlotInit /\ [][SlotNext]_slotVars

\* What a job does by itself.
JobRuns(j) == TakeOrQueue(j) \/ Tick(j) \/ TickGrant(j) \/ GiveUp(j) \/ ReleaseRead(j) \/ ReleaseGrant(j)

\* Goroutines run and tickers fire; a waiter whose channel is closed wakes up in
\* the end although its ticker also fires. Nothing makes a job want a slot or
\* give it back, a request go away or the setting change.
SlotFairness ==
  \A j \in Jobs : SF_slotVars(Wake(j)) /\ WF_slotVars(JobRuns(j))

SlotFairSpec == SlotSpec /\ SlotFairness

-----------------------------------------------------------------------------
(* Properties *)

Places == {"idle", "enter", "wait", "tick", "cancel", "hold", "released", "grant"}

\* Every variable has its type.
SlotTypeOK ==
  /\ limit \in Limits /\ held \in Nat
  /\ waiters \in Seq(Jobs) /\ granted \subseteq Jobs
  /\ job \in [Jobs -> Places] /\ seen \in [Jobs -> Limits]

\* Who has a slot: the jobs at work and those about to find out.
Owners == {j \in Jobs : job[j] = "hold"} \cup granted

\* No slot is lost and none is counted twice, however cancellations, hand-overs
\* and ticks cross: held is the number of jobs that have one.
SlotsExact == held = Cardinality(Owners)

\* Slots stay counted exactly, and it is first come, first served, within the limit: nobody gets a slot while a job that
\* queued before it goes on waiting, and whoever hands slots out, to waiters or to
\* itself, stays within the limit it read before it took the lock.
Admission ==
  [][/\ SlotTypeOK' /\ SlotsExact'
     /\ \A j \in Owners' \ Owners : \A k \in 1 .. Len(waiters) :
          (\A i \in 1 .. k : waiters[i] # j) => \A i \in 1 .. Len(waiters') : waiters'[i] # waiters[k]
     /\ held' > held => \E j \in Jobs : job'[j] # job[j] /\ held' <= seen[j]]_slotVars

\* As long as transcodes end, and each has a deadline, a waiting job gets its
\* slot or goes away, however often the setting changes.
Served ==
  (\A j \in Jobs : []<>(job[j] # "hold")) => \A j \in Jobs : []<>(job[j] \in {"hold", "idle"})

\* A limit that is raised while all slots are busy takes effect without a
\* release: once the setting is left alone, no free slot stays unused while
\* jobs wait.
RaiseTakesEffect ==
  <>[][limit' = limit]_limit => []<>(held >= limit \/ waiters = <<>>)

=============================================================================
