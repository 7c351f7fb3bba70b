--------------------------- MODULE EnginePriority ---------------------------
(***************************************************************************)
(* What a torrent downloads: the file and piece priorities an engine sets  *)
(* for the files being played (internal/engine/engine.go).                 *)
(*                                                                         *)
(* NewReader, Close, a per-file Stats poll, the one-shot priming of the    *)
(* guessed file and the tail pre-reads all read the engine's bookkeeping   *)
(* under e.mu and then change priorities in the torrent client without it. *)
(* A step is one section of e.mu, one section of boundaryMu or one call    *)
(* into the client. boundaryMu is held from releaseBoundary's look at the  *)
(* bookkeeping to its writes, so its holder is a variable.                 *)
(*                                                                         *)
(* A file is its range of pieces; neighbouring files may share a piece.    *)
(* Priorities are None < Normal < Now. What the client adds by itself for  *)
(* an open reader (its readahead window) is not part of this state.        *)
(***************************************************************************)
EXTENDS Integers, FiniteSets

CONSTANTS
  NumFiles,     \* the files are 0 .. NumFiles-1, all of them videos
  Begin, End,   \* file -> its first piece, and the piece after its last
  HeadPieces,   \* pieces that cover headWindowBytes
  TailPieces,   \* pieces that cover tailWindowBytes
  Ahead,        \* prefetchPieces
  GuessedFile,  \* what GuessFileIdx returns
  Threads,      \* goroutines serving readers and stats polls
  Guesser,      \* the goroutine of applyBoundaryPriorities
  Free,         \* boundaryMu is not held
  Overlap,      \* FALSE: one operation at a time, as a single client issues them
  MaxReads,     \* bound: readers of one file at a time
  MaxAbandoned  \* bound: failed tail pre-reads of one file about to demote it

Files == 0 .. NumFiles - 1
Procs == Threads \cup {Guesser}
None == 0
Normal == 1
Now == 2

ASSUME EnginePriorityAssumption ==
  /\ NumFiles \in Nat \ {0} /\ GuessedFile \in Files /\ Overlap \in BOOLEAN
  /\ \A f \in Files : Begin[f] \in Nat /\ End[f] \in Nat /\ Begin[f] < End[f]
  /\ HeadPieces \in Nat \ {0} /\ TailPieces \in Nat \ {0} /\ Ahead \in Nat \ {0}
  /\ Guesser \notin Threads /\ Free \notin Procs /\ MaxReads \in Nat \ {0}
  /\ MaxAbandoned \in Nat \ {0}

Pieces == UNION {Begin[f] .. End[f] - 1 : f \in Files}

VARIABLES
  selected, primed, prefetched, tailWarmed,  \* the engine's sets of file indices
  reading,      \* file -> open readers
  filePrio,     \* file -> the priority File.SetPriority or Download gave it
  bprio,        \* piece -> the priority Piece.SetPriority gave it
  bmu,          \* who holds boundaryMu between two steps
  warming,      \* file -> tail pre-reads under way
  abandoned,    \* file -> tail pre-reads that decided to demote the file and have not yet
  pc, kind, file, already, demote, keep      \* the procs' locals

books == <<selected, primed, prefetched, tailWarmed, reading>>
prios == <<filePrio, bprio>>
tails == <<warming, abandoned>>
locals == <<kind, file, already, demote, keep>>
prioVars == <<books, prios, tails, bmu, pc, locals>>

PriorityInit ==
  /\ selected = {} /\ primed = {} /\ prefetched = {} /\ tailWarmed = {}
  /\ reading = [f \in Files |-> 0]
  /\ filePrio = [f \in Files |-> None]
  /\ bprio = [i \in Pieces |-> None]
  /\ warming = [f \in Files |-> 0] /\ abandoned = [f \in Files |-> 0]
  /\ bmu = Free
  /\ pc = [p \in Procs |-> IF p = Guesser THEN "guess" ELSE "idle"]
  /\ kind = [p \in Procs |-> "none"]
  /\ file = [p \in Procs |-> GuessedFile]
  /\ already = [p \in Procs |-> FALSE]
  /\ demote = [p \in Procs |-> {}] /\ keep = [p \in Procs |-> {}]

-----------------------------------------------------------------------------
(* Piece spans *)

Lesser(a, b)  == IF a < b THEN a ELSE b
Greater(a, b) == IF a < b THEN b ELSE a

\* primeBoundaryRange and boundarySpans: the head and tail windows, clamped.
BoundarySpans(f) ==
  (Begin[f] .. Lesser(Begin[f] + HeadPieces, End[f]) - 1) \cup
  (Greater(End[f] - TailPieces, Begin[f]) .. End[f] - 1)

PrefetchSpans(f) ==
  (Begin[f] .. Lesser(Begin[f] + Ahead, End[f]) - 1) \cup
  (Greater(End[f] - Ahead, Begin[f]) .. End[f] - 1)

HasNext(f) == f + 1 \in Files

\* spansOf of releaseBoundary: a file's boundary and what it prefetched.
SpansOf(f) == BoundarySpans(f) \cup (IF HasNext(f) THEN PrefetchSpans(f + 1) ELSE {})
Spans(fs)  == UNION {SpansOf(f) : f \in fs}

\* raiseBoundary: never lowers a piece.
RaiseBoundary(is, prio) ==
  bprio' = [i \in Pieces |-> IF i \in is THEN Greater(bprio[i], prio) ELSE bprio[i]]

\* The files releaseBoundary must leave alone.
InUse == selected \cup primed \cup {f \in Files : reading[f] > 0}

\* Mutant: pieces shared with files in use are reset too.
KeptPiecesNone(fs) == {}

\* The pieces piecesToRelease keeps: those of the files still in use.
KeptPieces(fs) == Spans(fs)

-----------------------------------------------------------------------------
Goto(p, l) == pc' = [pc EXCEPT ![p] = l]
Proceed(p, l) == Goto(p, l) /\ UNCHANGED <<kind, file>>

\* The call returns and its locals are gone.
Return(t) ==
  /\ Goto(t, "idle")
  /\ kind' = [kind EXCEPT ![t] = "none"] /\ file' = [file EXCEPT ![t] = GuessedFile]

\* No operation is under way.
Quiet ==
  /\ \A p \in Procs : pc[p] \in {"idle", "reading", "guess", "done"}
  /\ \A f \in Files : abandoned[f] = 0

MayStart == Overlap \/ Quiet

\* NewReader counts itself in, then runs the steps below.
Open(t, f) ==
  /\ pc[t] = "idle" /\ MayStart /\ reading[f] < MaxReads
  /\ reading' = [reading EXCEPT ![f] = @ + 1]
  /\ kind' = [kind EXCEPT ![t] = "open"] /\ file' = [file EXCEPT ![t] = f]
  /\ Goto(t, "ensure")
  /\ UNCHANGED <<selected, primed, prefetched, tailWarmed, prios, tails, bmu, already, demote, keep>>

\* Stats of one file: ensureDownloading alone.
Poll(t, f) ==
  /\ pc[t] = "idle" /\ MayStart
  /\ kind' = [kind EXCEPT ![t] = "poll"] /\ file' = [file EXCEPT ![t] = f]
  /\ Goto(t, "ensure")
  /\ UNCHANGED <<books, prios, tails, bmu, already, demote, keep>>

\* Mutant: a file that is still read is demoted when another one is opened.
AbandonableRead(f) == {i \in selected \cup primed : i # f}

\* Files that nobody reads, selected before or primed by the guess only.
Abandonable(f) == {i \in selected \cup primed : i # f /\ reading[i] = 0}

\* ensureDownloading, the section of e.mu.
Ensure(t) ==
  LET f == file[t] IN
  /\ pc[t] = "ensure"
  /\ already' = [already EXCEPT ![t] = f \in selected]
  /\ demote' = [demote EXCEPT ![t] = Abandonable(f)]
  /\ selected' = (selected \ Abandonable(f)) \cup {f}
  /\ primed' = (primed \ Abandonable(f)) \ (IF f \in selected THEN {} ELSE {f})
  /\ prefetched' = prefetched \ Abandonable(f)
  /\ Goto(t, "demote")
  /\ UNCHANGED <<tailWarmed, reading, prios, tails, bmu, kind, file, keep>>

\* ... then SetPriority(None) on the files to demote.
Demote(t) ==
  /\ pc[t] = "demote"
  /\ filePrio' = [f \in Files |-> IF f \in demote[t] THEN None ELSE filePrio[f]]
  /\ Goto(t, "release")
  /\ UNCHANGED <<books, bprio, tails, bmu, locals>>

\* releaseBoundary looks at what is in use, holding boundaryMu ...
Release(t) ==
  /\ pc[t] = "release"
  /\ \/ /\ demote[t] = {}
        /\ Goto(t, "download") /\ UNCHANGED <<bmu, keep>>
     \/ /\ demote[t] # {} /\ bmu = Free
        /\ bmu' = t
        /\ keep' = [keep EXCEPT ![t] = InUse \ demote[t]]
        /\ Goto(t, "reset")
  /\ UNCHANGED <<books, prios, tails, kind, file, already, demote>>

\* Mutant: the pieces prefetched on behalf of the file stay raised.
ResetBoundaryOnly(t) ==
  LET own == UNION {BoundarySpans(f) : f \in demote[t]} IN
  /\ pc[t] = "reset"
  /\ bprio' = [i \in Pieces |-> IF i \in own \ KeptPieces(keep[t]) THEN None ELSE bprio[i]]
  /\ bmu' = Free
  /\ demote' = [demote EXCEPT ![t] = {}] /\ keep' = [keep EXCEPT ![t] = {}]
  /\ IF kind[t] = "close" THEN Return(t) ELSE Proceed(t, "download")
  /\ UNCHANGED <<books, filePrio, tails, already>>

\* ... and resets the pieces no kept file needs.
Reset(t) ==
  /\ pc[t] = "reset"
  /\ bprio' = [i \in Pieces |-> IF i \in Spans(demote[t]) \ KeptPieces(keep[t]) THEN None ELSE bprio[i]]
  /\ bmu' = Free
  /\ demote' = [demote EXCEPT ![t] = {}] /\ keep' = [keep EXCEPT ![t] = {}]
  /\ IF kind[t] = "close" THEN Return(t) ELSE Proceed(t, "download")
  /\ UNCHANGED <<books, filePrio, tails, already>>

\* File.Download, unless the file was selected already.
Download(t) ==
  /\ pc[t] = "download"
  /\ filePrio' = [filePrio EXCEPT ![file[t]] = IF already[t] THEN @ ELSE Normal]
  /\ IF kind[t] = "poll" THEN Return(t) ELSE Proceed(t, "prime")
  /\ already' = [already EXCEPT ![t] = FALSE]
  /\ UNCHANGED <<books, bprio, tails, bmu, demote, keep>>

AfterPrime(p) == IF p = Guesser THEN "done" ELSE "warm"

\* primeBoundary: mark once under e.mu, then raise.
Prime(p) ==
  /\ pc[p] = "prime" \/ (pc[p] = "guess" /\ MayStart)
  /\ primed' = primed \cup {file[p]}
  /\ Goto(p, IF file[p] \in primed THEN AfterPrime(p) ELSE "raise")
  /\ UNCHANGED <<selected, prefetched, tailWarmed, reading, prios, tails, bmu, locals>>

Raise(p) ==
  /\ pc[p] = "raise" /\ bmu = Free
  /\ RaiseBoundary(BoundarySpans(file[p]), Now)
  /\ Goto(p, AfterPrime(p))
  /\ UNCHANGED <<books, filePrio, tails, bmu, locals>>

\* warmMoov: once per file, a goroutine reads the tail of a file that needs it.
WarmMoov(t) ==
  /\ pc[t] = "warm"
  /\ tailWarmed' = tailWarmed \cup {file[t]}
  /\ \/ UNCHANGED warming
     \/ /\ file[t] \notin tailWarmed
        /\ warming' = [warming EXCEPT ![file[t]] = @ + 1]
  /\ Goto(t, "prefetch")
  /\ UNCHANGED <<selected, primed, prefetched, reading, prios, abandoned, bmu, locals>>

\* prefetchNext: mark once under e.mu, then raise the next file's ends to Normal.
PrefetchNext(t) ==
  /\ pc[t] = "prefetch"
  /\ prefetched' = prefetched \cup {file[t]}
  /\ Goto(t, IF file[t] \in prefetched \/ ~HasNext(file[t]) THEN "reading" ELSE "raiseNext")
  /\ UNCHANGED <<selected, primed, tailWarmed, reading, prios, tails, bmu, locals>>

RaiseNext(t) ==
  /\ pc[t] = "raiseNext" /\ bmu = Free
  /\ RaiseBoundary(PrefetchSpans(file[t] + 1), Normal)
  /\ Goto(t, "reading")
  /\ UNCHANGED <<books, filePrio, tails, bmu, locals>>

\* Mutant: Close counts down every time it is called, not once.
CloseNotOnce(t) ==
  /\ pc[t] = "reading" /\ MayStart
  /\ reading' = [reading EXCEPT ![file[t]] = @ - 1]
  /\ UNCHANGED <<selected, primed, prefetched, tailWarmed, prios, tails, bmu, pc, locals>>

\* pinnedReader.Close, first section: the last reader deselects the file.
Close(t) ==
  LET f == file[t] IN
  /\ pc[t] = "reading" /\ MayStart
  /\ reading' = [reading EXCEPT ![f] = @ - 1]
  /\ IF reading[f] = 1
     THEN /\ selected' = selected \ {f} /\ primed' = primed \ {f}
          /\ Proceed(t, "recheck")
     ELSE Return(t) /\ UNCHANGED <<selected, primed>>
  /\ UNCHANGED <<prefetched, tailWarmed, prios, tails, bmu, already, demote, keep>>

\* Mutant: the file keeps its download mark after its last reader left.
RecheckKeepsMark(t) ==
  /\ pc[t] = "recheck"
  /\ prefetched' = prefetched \ {file[t]}
  /\ kind' = [kind EXCEPT ![t] = "close"] /\ demote' = [demote EXCEPT ![t] = {file[t]}]
  /\ Goto(t, "release")
  /\ UNCHANGED <<selected, primed, tailWarmed, reading, prios, tails, bmu, file, already, keep>>

\* Second section: demote unless the file was reopened, then release its pieces.
Recheck(t) ==
  LET f == file[t]
      still == reading[f] = 0 /\ f \notin selected
  IN
  /\ pc[t] = "recheck"
  /\ IF still
     THEN /\ prefetched' = prefetched \ {f}
          /\ filePrio' = [filePrio EXCEPT ![f] = None]
          /\ kind' = [kind EXCEPT ![t] = "close"] /\ UNCHANGED file
          /\ demote' = [demote EXCEPT ![t] = {f}]
          /\ Goto(t, "release")
     ELSE Return(t) /\ UNCHANGED <<prefetched, filePrio, demote>>
  /\ UNCHANGED <<selected, primed, tailWarmed, reading, bprio, tails, bmu, already, keep>>

\* A tail pre-read delivers the tail.
TailDelivered(f) ==
  /\ warming[f] > 0
  /\ warming' = [warming EXCEPT ![f] = @ - 1]
  /\ UNCHANGED <<books, prios, abandoned, bmu, pc, locals>>

\* abandonTailWarm after a failed pre-read: decide under e.mu ...
AbandonTailWarm(f) ==
  /\ warming[f] > 0 /\ MayStart /\ abandoned[f] < MaxAbandoned
  /\ warming' = [warming EXCEPT ![f] = @ - 1]
  /\ tailWarmed' = tailWarmed \ {f}
  /\ abandoned' = IF reading[f] > 0 \/ f \in selected THEN abandoned
                  ELSE [abandoned EXCEPT ![f] = @ + 1]
  /\ UNCHANGED <<selected, primed, prefetched, reading, prios, bmu, pc, locals>>

\* ... and demote without it.
TailDemote(f) ==
  /\ abandoned[f] > 0
  /\ abandoned' = [abandoned EXCEPT ![f] = @ - 1]
  /\ filePrio' = [filePrio EXCEPT ![f] = None]
  /\ UNCHANGED <<books, bprio, warming, bmu, pc, locals>>

PriorityNext ==
  \/ \E t \in Threads :
       \/ \E f \in Files : Open(t, f) \/ Poll(t, f)
       \/ Ensure(t) \/ Demote(t) \/ Release(t) \/ Reset(t) \/ Download(t)
       \/ WarmMoov(t) \/ PrefetchNext(t) \/ RaiseNext(t) \/ Close(t) \/ Recheck(t)
  \/ \E p \in Procs : Prime(p) \/ Raise(p)
  \/ \E f \in Files : TailDelivered(f) \/ AbandonTailWarm(f) \/ TailDemote(f)

PrioritySpec == PriorityInit /\ [][PriorityNext]_prioVars

-----------------------------------------------------------------------------
(* Properties *)

\* Every variable has its type.
PriorityTypeOK ==
  /\ selected \subseteq Files /\ primed \subseteq Files
  /\ prefetched \subseteq Files /\ tailWarmed \subseteq Files
  /\ reading \in [Files -> 0 .. MaxReads]
  /\ filePrio \in [Files -> {None, Normal}] /\ bprio \in [Pieces -> {None, Normal, Now}]
  /\ warming \in [Files -> Nat] /\ abandoned \in [Files -> Nat]
  /\ bmu \in Procs \cup {Free}
  /\ file \in [Procs -> Files] /\ demote \in [Procs -> SUBSET Files] /\ keep \in [Procs -> SUBSET Files]

\* Whatever else opens, polls or closes meanwhile, a file stays selected from
\* the moment its reader's ensureDownloading ran until its last Close.
ReadersSelected ==
  \A t \in Threads :
    pc[t] \in {"demote", "release", "reset", "download", "prime", "raise", "warm",
               "prefetch", "raiseNext", "reading"} /\ kind[t] = "open" => file[t] \in selected

\* When calls do not overlap, a file with an open reader is marked for download
\* and its header and trailer pieces are at top priority, whichever files were
\* opened, polled, closed or guessed before it and whichever pieces they share.
Playable ==
  Quiet => \A f \in Files : reading[f] > 0 =>
    filePrio[f] = Normal /\ \A i \in BoundarySpans(f) : bprio[i] = Now

\* No piece keeps a raised priority that no file in use accounts for: the
\* pieces of abandoned files are released.
NoStrayPriority ==
  Quiet => \A i \in Pieces : bprio[i] # None => i \in Spans(InUse)

\* Only selected files download in the background: without it "every file the
\* user has ever clicked keeps downloading forever" (ensureDownloading).
NoStrayDownload ==
  Quiet => \A f \in Files : filePrio[f] = Normal => f \in selected

\* The files and pieces the torrent library is told to fetch are those that readers need:
\* whatever is read plays, and nothing that was left keeps a priority, after any sequence of
\* opens, polls, closes and failed tail reads (ensureDownloading, releaseBoundary).
PrioritiesMatch == PriorityTypeOK /\ ReadersSelected /\ Playable /\ NoStrayPriority /\ NoStrayDownload

\* "Files with a live reader are never demoted" (ensureDownloading).
ReadNeverDemoted ==
  [][\A f \in Files : filePrio[f] = Normal /\ filePrio'[f] = None => reading[f] = 0]_prioVars

=============================================================================
