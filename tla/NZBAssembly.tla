----------------------------- MODULE NZBAssembly -----------------------------
(***************************************************************************)
(* The progressive assembly of one Usenet file (internal/nzb/assembly.go,  *)
(* yenc.go, nntp.go): workers, one NNTP connection each, fetch articles in *)
(* parallel and write them where their yEnc headers say, or append them in *)
(* order when the headers do not say; readers wait for the bytes they need *)
(* and steer the workers there.                                            *)
(*                                                                         *)
(* The news server is external: a connection may be refused or break at    *)
(* any moment, an article may be missing or damaged. What the poster wrote *)
(* into the headers is one of Posts. Articles are numbered from 1 and      *)
(* bytes from 0. The context of the assembly has ended exactly when its    *)
(* error is set, as every caller starts it with a context that never ends. *)
(* close(changed) wakes whoever sleeps on it at that moment.               *)
(***************************************************************************)
EXTENDS Integers, Sequences, FiniteSets

CONSTANTS
  Lens,         \* the decoded length of each article
  Posts,        \* what may be posted: [cap, head], head[i] = [size, part, begin, end]
  NumWorkers,   \* workerCount
  NumNzbReaders    \* readers of the file, one wait each

VARIABLES
  post,       \* the post, fixed
  segState, cursor, pending, remaining,   \* Assembly.state, next, pending, remaining
  layout, seqOwner, seqOff,
  total,      \* Assembly.total, or -1 while the size is not known
  partSize, covered, assembled, asmErr, alive,
  worker,     \* fetch loops: where, with which article and which extent, and which try
  nzbReader,     \* waits: where, for which byte
  asleep,     \* the workers and readers that sleep on Assembly.changed
  disk        \* ghost: what a byte of dst holds: nothing, its own value or something else

asmVars == <<post, segState, cursor, pending, remaining, layout, seqOwner, seqOff, total, partSize, covered,
             assembled, asmErr, alive, worker, nzbReader, asleep, disk>>
layoutVars == <<layout, seqOwner, total, partSize>>
doneVars == <<remaining, seqOff, covered, assembled>>

Articles == DOMAIN Lens
AsmWorkers == 1 .. NumWorkers
AsmReaders == 1 .. NumNzbReaders
First(S) == CHOOSE i \in S : \A j \in S : i <= j
Last(S) == CHOOSE i \in S : \A j \in S : j <= i
Smaller(a, b) == IF a <= b THEN a ELSE b
\* The lengths of the articles of S added up, byte by byte.
LensOf(S) == Cardinality(UNION {{j} \X (1 .. Lens[j]) : j \in S})
StartOf(i) == LensOf(1 .. i - 1)
FileSize == LensOf(Articles)
PostBytes == 0 .. FileSize + 1   \* room for a size declared too large

\* selfDescribing, of the first article's header.
SelfDescribing(h) ==
  /\ h.size > 0
  /\ IF Len(Lens) = 1 THEN ~h.part \/ (h.begin = 1 /\ h.end = h.size)
                      ELSE h.part /\ h.begin = 1 /\ h.end >= h.begin /\ h.end < h.size

\* Where the headers are to be relied on, a range begins where the article does: the
\* program has nothing to check that by. How far it goes, and the size, may be wrong.
ASSUME AssemblyAssumption ==
  /\ Lens \in Seq(Nat \ {0}) /\ Len(Lens) > 0 /\ NumWorkers \in Nat \ {0} /\ NumNzbReaders \in Nat \ {0}
  /\ \A p \in Posts :
       /\ p.cap \in Nat /\ DOMAIN p.head = Articles
       /\ \A i \in Articles : p.head[i] \in [size : Nat, part : BOOLEAN, begin : Nat, end : Nat]
       /\ SelfDescribing(p.head[1]) => \A i \in Articles : p.head[i].part => p.head[i].begin = StartOf(i) + 1

Resting(l) == [at |-> l, seg |-> 1, start |-> 0, end |-> 0, again |-> FALSE]

AsmInit ==
  /\ post \in Posts
  /\ segState = [i \in Articles |-> "pending"] /\ cursor = 1
  /\ pending = Len(Lens) /\ remaining = Len(Lens)
  /\ layout = "unknown" /\ seqOwner = 0 /\ seqOff = 0 /\ total = -1 /\ partSize = 0
  /\ covered = {} /\ assembled = FALSE /\ asmErr = "none" /\ alive = NumWorkers
  /\ worker = [w \in AsmWorkers |-> Resting("dial")]
  /\ nzbReader = [r \in AsmReaders |-> [at |-> "idle", off |-> 0]]
  /\ asleep = {} /\ disk = [b \in PostBytes |-> "none"]

-----------------------------------------------------------------------------
(* Shared helpers *)

Notify == asleep' = {}
Awake(who) == who \notin asleep
Sleep(who) == asleep' = asleep \cup {who}
FetchOf(w) == <<"worker", w>>
WaitOf(r) == <<"reader", r>>

WorkerGoes(w, l) == worker' = [worker EXCEPT ![w] = Resting(l)]
ByteRange(e) == e[1] .. e[2] - 1
CoveredBytes == UNION {ByteRange(e) : e \in covered}

\* Mutant: extents that only touch are not merged.
Overlapping(e, c) == c[2] > e[1] /\ c[1] < e[2]

\* Extents that overlap or touch.
Touching(e, c) == c[2] >= e[1] /\ c[1] <= e[2]

\* addCoveredLocked
AddCovered(e) ==
  LET near == {c \in covered : Touching(e, c)}
  IN (covered \ near) \cup {<<First({c[1] : c \in near \cup {e}}), Last({c[2] : c \in near \cup {e}})>>}

\* Writing k bytes of article i from off on: right where they belong, if they are
\* the article's own bytes.
Written(i, off, k, right) ==
  [b \in PostBytes |-> IF b \in off .. off + k - 1
                    THEN IF right /\ off = StartOf(i) THEN "good" ELSE "bad"
                    ELSE disk[b]]

\* failLocked, as the value and the wake-up it brings.
Failed(why) == IF asmErr = "none" /\ ~assembled THEN why ELSE asmErr
FailLocked(why) ==
  /\ asmErr' = Failed(why)
  /\ asleep' = IF asmErr' = asmErr THEN asleep ELSE {}

\* workerExit: the last worker to leave with work outstanding fails the assembly.
WorkerExit(w, why) ==
  /\ WorkerGoes(w, "out") /\ alive' = alive - 1
  /\ IF alive = 1 THEN FailLocked(why) ELSE UNCHANGED <<asmErr, asleep>>

-----------------------------------------------------------------------------
(* Workers *)

\* worker: the eager dial; a refused connection only costs parallelism.
Dial(w) ==
  /\ worker[w].at = "dial"
  /\ \/ WorkerGoes(w, "pick") /\ UNCHANGED <<alive, asmErr, asleep>>
     \/ WorkerExit(w, "refused")
  /\ UNCHANGED <<post, segState, cursor, pending, layoutVars, doneVars, nzbReader, disk>>

Claim(w, i) ==
  /\ segState' = [segState EXCEPT ![i] = "inflight"] /\ pending' = pending - 1
  /\ worker' = [worker EXCEPT ![w] = [Resting("ask") EXCEPT !.seg = i]]

PendingFrom(i) == {j \in Articles : j >= i /\ segState[j] = "pending"}

\* pickLocked: the first pending segment at or after the cursor, around the end.
Picked == IF PendingFrom(cursor) # {} THEN First(PendingFrom(cursor)) ELSE First(PendingFrom(1))

\* Mutant: every worker goes on in a sequential layout.
NobodyRetires(w) == FALSE

\* A sequential layout leaves only its owner at work.
Retires(w) == layout = "sequential" /\ seqOwner # w

\* nextSegment: leave, take a segment (before the layout is known only the first one),
\* or sleep until something changes.
NextSegment(w) ==
  /\ worker[w].at = "pick" /\ Awake(FetchOf(w))
  /\ IF asmErr # "none" \/ assembled \/ Retires(w)
     THEN WorkerExit(w, "stopped") /\ UNCHANGED <<segState, cursor, pending>>
     ELSE /\ \/ /\ layout = "unknown" /\ segState[1] = "pending"
                /\ Claim(w, 1) /\ UNCHANGED <<cursor, asleep>>
             \/ /\ layout # "unknown" /\ pending > 0
                /\ Claim(w, Picked) /\ cursor' = (Picked % Len(Lens)) + 1 /\ UNCHANGED asleep
             \/ /\ IF layout = "unknown" THEN segState[1] # "pending" ELSE pending = 0
                /\ Sleep(FetchOf(w)) /\ UNCHANGED <<segState, cursor, pending, worker>>
          /\ UNCHANGED <<alive, asmErr>>
  /\ UNCHANGED <<post, layoutVars, doneVars, nzbReader, disk>>

\* openSegment: the layout that an article's header finds or, as the first, fixes.
LayoutBy(h) == IF layout # "unknown" THEN layout ELSE IF SelfDescribing(h) THEN "parallel" ELSE "sequential"
TotalBy(h) == IF layout = "unknown" /\ SelfDescribing(h) THEN h.size ELSE total

\* The extent of an article in a parallel layout is acceptable.
Placed(h) ==
  IF h.part THEN h.size = TotalBy(h) /\ h.begin >= 1 /\ h.end >= h.begin /\ h.end <= TotalBy(h)
            ELSE Len(Lens) = 1 /\ h.size = TotalBy(h)

\* The header is refused: too large a file, or a range that does not fit.
Refused(h) == LayoutBy(h) = "parallel" /\ ((layout = "unknown" /\ h.size > post.cap) \/ ~Placed(h))

\* fetch, up to the header.
OpenSegment(w) ==
  LET h == post.head[worker[w].seg]
      start == IF LayoutBy(h) = "sequential" THEN seqOff ELSE IF h.part THEN h.begin - 1 ELSE 0
      end == IF LayoutBy(h) = "sequential" THEN post.cap ELSE IF h.part THEN h.end ELSE h.size
  IN
  /\ worker[w].at = "ask" /\ ~Refused(h)
  /\ worker' = [worker EXCEPT ![w] = [worker[w] EXCEPT !.at = "decode", !.start = start, !.end = end]]
  /\ layout' = LayoutBy(h) /\ total' = TotalBy(h)
  /\ seqOwner' = IF layout = "unknown" /\ layout' = "sequential" THEN w ELSE seqOwner
  /\ partSize' = IF layout = "unknown" /\ layout' = "parallel" THEN IF h.part THEN h.end - h.begin + 1 ELSE h.size
                                                              ELSE partSize
  /\ IF layout = "unknown" THEN Notify ELSE UNCHANGED asleep
  /\ UNCHANGED <<post, segState, cursor, pending, doneVars, asmErr, alive, nzbReader, disk>>

\* The article cannot be used: the assembly fails, and the worker leaves.
FetchFails(w) ==
  /\ WorkerGoes(w, "out") /\ alive' = alive - 1 /\ FailLocked("bad")
  /\ UNCHANGED <<post, segState, cursor, pending, layout, seqOwner, partSize, doneVars, nzbReader>>

\* The article is missing, or its header is refused (which leaves the layout as it is:
\* the header that fixes it is refused for the size of the file alone).
RefuseSegment(w) ==
  /\ worker[w].at = "ask" /\ FetchFails(w) /\ UNCHANGED <<total, disk>>

\* The connection breaks: one new connection and one more try, unless the assembly has
\* been stopped.
Broken(w) ==
  /\ IF asmErr # "none" THEN WorkerExit(w, "stopped")
     ELSE IF worker[w].again THEN WorkerGoes(w, "out") /\ alive' = alive - 1 /\ FailLocked("bad")
     ELSE worker' = [worker EXCEPT ![w] = [worker[w] EXCEPT !.at = "redial"]] /\ UNCHANGED <<alive, asmErr, asleep>>
  /\ UNCHANGED <<post, segState, cursor, pending, layoutVars, doneVars, nzbReader>>

AskBreaks(w) == worker[w].at = "ask" /\ Broken(w) /\ UNCHANGED disk

\* Mutant: nobody is told that there is a segment to fetch again.
RequeueQuietly(i) ==
  /\ segState' = [segState EXCEPT ![i] = "pending"] /\ pending' = pending + 1
  /\ cursor' = Smaller(cursor, i) /\ UNCHANGED asleep

Requeue(i) ==
  /\ segState' = [segState EXCEPT ![i] = "pending"] /\ pending' = pending + 1
  /\ cursor' = Smaller(cursor, i) /\ Notify

Redial(w) ==
  /\ worker[w].at = "redial"
  /\ \/ /\ worker' = [worker EXCEPT ![w] = [Resting("ask") EXCEPT !.seg = worker[w].seg, !.again = TRUE]]
        /\ UNCHANGED <<segState, pending, cursor, alive, asmErr, asleep>>
     \/ /\ Requeue(worker[w].seg) /\ WorkerGoes(w, "out") /\ alive' = alive - 1
        /\ asmErr' = IF alive = 1 THEN Failed("refused") ELSE asmErr
  /\ UNCHANGED <<post, layoutVars, doneVars, nzbReader, disk>>

\* decodeYenc: the connection breaks in the middle of the article...
DecodeBreaks(w) ==
  /\ worker[w].at = "decode"
  /\ \E k \in 0 .. Smaller(Lens[worker[w].seg], worker[w].end - worker[w].start) :
       disk' = Written(worker[w].seg, worker[w].start, k, TRUE)
  /\ Broken(w)

\* ... or its trailer shows that it is damaged, or it does not fit where it belongs ...
DecodeFails(w) ==
  LET n == Lens[worker[w].seg]
      room == worker[w].end - worker[w].start
  IN
  /\ worker[w].at = "decode"
  /\ \E right \in BOOLEAN :
       /\ right => IF layout = "parallel" THEN n # room ELSE n > room
       /\ disk' = Written(worker[w].seg, worker[w].start, Smaller(n, room), right)
  /\ FetchFails(w) /\ UNCHANGED total

\* ... or it is whole: completeSegment and, after the last one, finalizeLocked.
CompleteSegment(w) ==
  LET i == worker[w].seg
      n == Lens[i]
      e == <<worker[w].start, worker[w].start + n>>
      size == IF layout = "sequential" /\ remaining = 1 THEN e[2] ELSE total
  IN
  /\ worker[w].at = "decode"
  /\ IF layout = "parallel" THEN n = worker[w].end - worker[w].start ELSE n <= worker[w].end - worker[w].start
  /\ disk' = Written(i, worker[w].start, n, TRUE)
  /\ segState' = [segState EXCEPT ![i] = "done"] /\ remaining' = remaining - 1
  /\ covered' = AddCovered(e) /\ total' = size
  /\ seqOff' = IF layout = "sequential" THEN e[2] ELSE seqOff
  /\ assembled' = (assembled \/ (remaining = 1 /\ covered' = {<<0, size>>}))
  /\ asmErr' = IF remaining = 1 /\ covered' # {<<0, size>>} THEN Failed("untiled") ELSE asmErr
  /\ WorkerGoes(w, "pick") /\ Notify
  /\ UNCHANGED <<post, cursor, pending, layout, seqOwner, partSize, alive, nzbReader>>

-----------------------------------------------------------------------------
(* Readers *)

\* A request for the file from a byte on.
ReadFrom(r) ==
  /\ nzbReader[r].at = "idle"
  /\ \E b \in 0 .. FileSize : nzbReader' = [nzbReader EXCEPT ![r] = [at |-> "size", off |-> b]]
  /\ UNCHANGED <<post, segState, cursor, pending, layoutVars, doneVars, asmErr, alive, worker, asleep, disk>>

ReaderGoes(r, l) == nzbReader' = [nzbReader EXCEPT ![r] = [at |-> l, off |-> IF l = "run" THEN nzbReader[r].off ELSE 0]]

\* Size
AwaitSize(r) ==
  /\ nzbReader[r].at = "size" /\ Awake(WaitOf(r))
  /\ \/ total # -1 /\ ReaderGoes(r, "run") /\ UNCHANGED asleep
     \/ total = -1 /\ asmErr # "none" /\ ReaderGoes(r, "end") /\ UNCHANGED asleep
     \/ total = -1 /\ asmErr = "none" /\ Sleep(WaitOf(r)) /\ UNCHANGED nzbReader
  /\ UNCHANGED <<post, segState, cursor, pending, layoutVars, doneVars, asmErr, alive, worker, disk>>

\* hintLocked: the cursor goes to the segment that should hold the byte.
Hinted(pos) ==
  LET i == Smaller((pos \div partSize) + 1, Len(Lens))
  IN IF layout = "parallel" /\ partSize > 0 /\ PendingFrom(i) # {} THEN First(PendingFrom(i)) ELSE cursor

\* awaitRun, for WaitRange and WaitAvailable.
AwaitRun(r) ==
  /\ nzbReader[r].at = "run" /\ Awake(WaitOf(r))
  /\ IF nzbReader[r].off \in CoveredBytes \/ asmErr # "none" \/ nzbReader[r].off >= total
     THEN ReaderGoes(r, "end") /\ UNCHANGED <<cursor, asleep>>
     ELSE cursor' = Hinted(nzbReader[r].off) /\ Sleep(WaitOf(r)) /\ UNCHANGED nzbReader
  /\ UNCHANGED <<post, segState, pending, layoutVars, doneVars, asmErr, alive, worker, disk>>

\* The client of a waiting reader goes away; the download goes on.
ReaderLeaves(r) ==
  /\ WaitOf(r) \in asleep /\ asleep' = asleep \ {WaitOf(r)} /\ ReaderGoes(r, "end")
  /\ UNCHANGED <<post, segState, cursor, pending, layoutVars, doneVars, asmErr, alive, worker, disk>>

\* Cancel, by the session's eviction or replacement.
CancelAssembly ==
  /\ asmErr = "none" /\ ~assembled /\ FailLocked("cancelled")
  /\ UNCHANGED <<post, segState, cursor, pending, layoutVars, doneVars, alive, worker, nzbReader, disk>>

WorkerRuns(w) ==
  \/ Dial(w) \/ NextSegment(w) \/ OpenSegment(w) \/ RefuseSegment(w) \/ AskBreaks(w) \/ Redial(w)
  \/ DecodeBreaks(w) \/ DecodeFails(w) \/ CompleteSegment(w)

AsmNext ==
  \/ \E w \in AsmWorkers : WorkerRuns(w)
  \/ \E r \in AsmReaders : ReadFrom(r) \/ AwaitSize(r) \/ AwaitRun(r) \/ ReaderLeaves(r)
  \/ CancelAssembly

\* Every operation on a connection has a deadline (dialTimeout, opTimeout), the rest
\* is the program's own; that a client goes away is not assumed.
AsmFairness ==
  /\ \A w \in AsmWorkers : WF_asmVars(WorkerRuns(w))
  /\ \A r \in AsmReaders : WF_asmVars(AwaitSize(r) \/ AwaitRun(r))

AsmSpec == AsmInit /\ [][AsmNext]_asmVars /\ AsmFairness

-----------------------------------------------------------------------------
(* Properties *)

AsmTypeOK ==
  /\ post \in Posts /\ segState \in [Articles -> {"pending", "inflight", "done"}] /\ cursor \in Articles
  /\ layout \in {"unknown", "parallel", "sequential"} /\ seqOwner \in 0 .. NumWorkers /\ seqOff \in PostBytes
  /\ total \in Nat \cup {-1} /\ assembled \in BOOLEAN
  /\ asmErr \in {"none", "refused", "stopped", "bad", "untiled", "cancelled"}
  /\ \A w \in AsmWorkers : worker[w].at \in {"dial", "pick", "ask", "decode", "redial", "out"}
  /\ \A r \in AsmReaders : nzbReader[r].at \in {"idle", "size", "run", "end"}

\* Every byte that a reader may be given is the file's own byte at that place, whatever
\* order articles arrive in, whatever the headers say, and after every retry; and a
\* file that counts as complete is the whole file.
CoveredIsRight ==
  /\ \A b \in CoveredBytes : disk[b] = "good"
  /\ assembled => total = FileSize /\ CoveredBytes = 0 .. FileSize - 1

\* What the assembly counts is what there is, whatever connections broke and whoever
\* put a segment back: the pending and missing segments, the running workers; no
\* segment is lost, being fetched by exactly one worker while it is in flight and the
\* assembly goes on; the covered ranges are merged as far as they can be; and when the
\* last worker has left, the file is complete or there is an error to report; and what
\* is covered is right.
AssemblyExact ==
  /\ pending = Cardinality({i \in Articles : segState[i] = "pending"})
  /\ remaining = Cardinality({i \in Articles : segState[i] # "done"})
  /\ alive = Cardinality({w \in AsmWorkers : worker[w].at # "out"})
  /\ asmErr = "none" => \A i \in Articles : segState[i] = "inflight" =>
       Cardinality({w \in AsmWorkers : worker[w].at \in {"ask", "decode", "redial"} /\ worker[w].seg = i}) = 1
  /\ \A e, c \in covered : e # c => c[2] < e[1] \/ e[2] < c[1]
  /\ alive = 0 => assembled \/ asmErr # "none"
  /\ AsmTypeOK /\ CoveredIsRight

\* Reached and kept in the end: the assembly is over, and so is every wait; no worker
\* sleeps while there is a segment to fetch, no reader while nobody is left to bring its
\* bytes.
AsmSettled ==
  /\ \A w \in AsmWorkers : worker[w].at = "out"
  /\ \A r \in AsmReaders : nzbReader[r].at \in {"idle", "end"}

=============================================================================
