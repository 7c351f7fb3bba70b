----------------------------- MODULE HLSSegments -----------------------------
(***************************************************************************)
(* The files of one HLS session (internal/media/hls.go, segcheck.go,       *)
(* segindex.go): segments transcoded on demand, the inspection that        *)
(* decides whether a segment may be cached, the capped segment cache, the  *)
(* subtitle tracks extracted on demand and the playlists.                  *)
(*                                                                         *)
(* ffmpeg is external: it may fail, or exit 0 with a segment whose video   *)
(* is missing, late or short, or whose input was cut off. Time on the      *)
(* media timeline is counted in ticks, SegTicks to a segment, and the      *)
(* timestamps in a segment wrap around at PtsWrap. A request takes the     *)
(* lock of its file, then a slot, as the code does; which transcode gets a *)
(* free slot is the subject of SlotSem.                                    *)
(***************************************************************************)
EXTENDS Integers, FiniteSets

CONSTANTS
  SegNumbers,   \* the segments requested: their numbers n
  SegTicks,     \* segDur, in ticks of the timestamps
  PtsWrap,      \* ptsWrap, 2^33 in the code
  CacheLimit,   \* segmentCacheBytes, in segments
  Encoders,     \* maximal concurrent transcodes
  NumAsks,      \* requests, numbered as they arrive
  MaxSegRestarts  \* bound: how often the process is restarted

ASSUME HLSSegAssumption ==
  /\ SegNumbers \subseteq Nat /\ IsFiniteSet(SegNumbers)
  /\ CacheLimit \in Nat \ {0} /\ Encoders \in Nat \ {0} /\ NumAsks \in Nat /\ MaxSegRestarts \in Nat
  /\ SegTicks \in Nat /\ PtsWrap \in Nat /\ 2 <= SegTicks /\ SegTicks < PtsWrap \div 2

VARIABLES
  onDisk,     \* what is under a file's final name: nothing, the whole thing, or a cut one
  fileLock,   \* lockFor: the request that holds a file's lock, or 0
  provisional, \* hlsSession.provisional: segments with a served-but-uncached copy
  indexed, indexTotal, loaded,   \* segIndex: the files it lists; their total size; scanned
  graced,     \* segments used within segServeGrace
  duration,   \* hlsSession.duration is known
  written,    \* hlsSession.playlistData: the subtitle playlist counts as rendered
  closing, cut,  \* BeginShutdown has run; the sources are gone
  ask,        \* requests
  segRestarts

hlsFileVars == <<onDisk, fileLock, provisional, indexed, indexTotal, loaded, graced, duration, written, closing, cut, ask, segRestarts>>
indexVars == <<indexed, indexTotal, loaded>>
sessionVars == <<duration, written, closing, cut, segRestarts>>

Asks == 1 .. NumAsks
SegFiles == {<<"seg", n>> : n \in SegNumbers}
SubFile == <<"sub", 0>>       \* sub<k>.vtt
SubList == <<"sublist", 0>>   \* sub<k>.m3u8
HLSFiles == SegFiles \cup {SubFile, SubList}

NoAsk(l) == [at |-> l, file |-> SubFile, fate |-> "none"]

HLSFilesInit ==
  /\ onDisk = [f \in HLSFiles |-> "none"] /\ fileLock = [f \in HLSFiles |-> 0]
  /\ provisional = {} /\ indexed = {} /\ indexTotal = 0 /\ loaded = FALSE /\ graced = {}
  /\ duration = FALSE /\ written = FALSE /\ closing = FALSE /\ cut = FALSE
  /\ ask = [a \in Asks |-> NoAsk("idle")] /\ segRestarts = 0

AskGoes(a, l) == ask' = [ask EXCEPT ![a] = IF l = "end" THEN NoAsk("end") ELSE [@ EXCEPT !.at = l]]
Unlocked(a) == fileLock' = [f \in HLSFiles |-> IF fileLock[f] = a THEN 0 ELSE fileLock[f]]
Encoding == {a \in Asks : ask[a].at \in {"encode", "software", "retry", "install", "note", "evict"}}

-----------------------------------------------------------------------------
(* Inspecting a segment *)

\* ptsDiff: the difference of two wrapped timestamps, around zero.
PtsDiff(a, b) ==
  LET d == (a - b) % PtsWrap IN IF d >= PtsWrap \div 2 THEN d - PtsWrap ELSE d

\* lateVideo, in ticks: half a segment.
LateVideo == SegTicks \div 2

\* What ffmpeg wrote for segment n: whether there is video and audio, the true times
\* of its first and last frame within the segment, and the input error it logged.
Outputs ==
  {o \in [video : BOOLEAN, first : 0 .. SegTicks, last : 0 .. SegTicks, audio : BOOLEAN, logged : BOOLEAN] :
     o.first <= o.last /\ (~o.video => o.first = 0 /\ o.last = 0)}

\* countTSPackets and judgeSegment, with the timestamps as the file carries them;
\* what ffmpeg logged about its input overrides the judgement.
Judge(n, o) ==
  LET pts == (n * SegTicks + o.first) % PtsWrap
      lastTicks == (pts + (o.last - o.first)) % PtsWrap
      late == PtsDiff(pts, (n * SegTicks) % PtsWrap)
      short == PtsDiff(((n + 1) * SegTicks) % PtsWrap, lastTicks)
  IN CASE o.logged -> "short"
       [] ~o.logged /\ ~o.video -> "missing"
       [] ~o.logged /\ o.video /\ late > LateVideo -> "missing"
       [] ~o.logged /\ o.video /\ late <= LateVideo /\ short > LateVideo -> "short"
       [] OTHER -> IF o.audio THEN "clean" ELSE "short"

\* What a viewer would say: audio, and video that neither starts nor ends too far in.
Complete(o) == o.video /\ o.audio /\ o.first <= LateVideo /\ SegTicks - o.last <= LateVideo

\* One ffmpeg run and its inspection. The input of a run may be cut off once the
\* sources are gone, which need not show.
Inspected ==
  [n \in SegNumbers |-> [gone \in BOOLEAN |->
     {[judged |-> Judge(n, o), fate |-> IF c \/ ~Complete(o) THEN "cut" ELSE "whole"] :
        o \in Outputs, c \in {gone, FALSE}}]]

-----------------------------------------------------------------------------
(* Requests *)

\* HLSFile: requests in the order of their numbers, for any file.
AskFor(a) ==
  /\ ask[a].at = "idle" /\ \A b \in 1 .. a - 1 : ask[b].at # "idle"
  /\ \E f \in HLSFiles :
       ask' = [ask EXCEPT ![a] = [NoAsk(IF f = SubList /\ written THEN "end" ELSE "lock") EXCEPT !.file = IF f = SubList /\ written THEN SubFile ELSE f]]
  /\ UNCHANGED <<onDisk, fileLock, provisional, indexVars, graced, sessionVars>>

\* loadLocked: the first use of the index reads the directory.
IndexFiles == IF loaded THEN indexed ELSE {f \in SegFiles : onDisk[f] # "none"}
IndexTotal == IF loaded THEN indexTotal ELSE Cardinality({f \in SegFiles : onDisk[f] # "none"})
SizeIn(f, fs) == IF f \in fs THEN 1 ELSE 0

\* Mutant: a segment that the directory scan has found is counted again.
NoteTwice(f) ==
  /\ indexed' = IndexFiles \cup {f} /\ indexTotal' = IndexTotal + 1 - SizeIn(f, indexed)
  /\ loaded' = TRUE /\ graced' = graced \cup {f}

\* noteSegment: the segment is listed, with its size in the total, and in use. The order of
\* use is left out: any unused segment may be the next to go (Evict).
NoteSegment(f) ==
  /\ indexed' = IndexFiles \cup {f} /\ indexTotal' = IndexTotal + 1 - SizeIn(f, IndexFiles)
  /\ loaded' = TRUE /\ graced' = graced \cup {f}

\* The lock of the file, and what is there already: a cached segment is used again, an
\* extracted subtitle and a rendered playlist are served, a transcode needs a slot.
LockFile(a) ==
  LET f == ask[a].file IN
  /\ ask[a].at = "lock" /\ fileLock[f] = 0
  /\ \/ /\ f \in SegFiles /\ onDisk[f] # "none"
        /\ NoteSegment(f) /\ AskGoes(a, "open") /\ UNCHANGED fileLock
     \/ /\ (f = SubFile /\ onDisk[f] # "none") \/ (f = SubList /\ written)
        /\ AskGoes(a, "end") /\ UNCHANGED <<indexVars, graced, fileLock>>
     \/ /\ IF f = SubList THEN ~written ELSE onDisk[f] = "none"
        /\ fileLock' = [fileLock EXCEPT ![f] = a]
        /\ AskGoes(a, CASE f = SubList -> "render" [] f = SubFile -> "extract" [] OTHER -> "slot")
        /\ UNCHANGED <<indexVars, graced>>
  /\ UNCHANGED <<onDisk, provisional, sessionVars>>

\* acquireTranscodeSlot, or the client is gone.
TakeSlot(a) ==
  /\ ask[a].at = "slot"
  /\ \/ Cardinality(Encoding) < Encoders /\ AskGoes(a, "encode") /\ UNCHANGED fileLock
     \/ AskGoes(a, "end") /\ Unlocked(a)
  /\ UNCHANGED <<onDisk, provisional, indexVars, graced, sessionVars>>

\* Mutant: the lock is not released on the way out with an error.
AbandonLocked(a) ==
  /\ AskGoes(a, "end")
  /\ UNCHANGED <<onDisk, fileLock, provisional, indexVars, graced, sessionVars>>

\* The segment cannot be made: the slot and the lock go.
Abandon(a) ==
  /\ AskGoes(a, "end") /\ Unlocked(a)
  /\ UNCHANGED <<onDisk, provisional, indexVars, graced, sessionVars>>

\* encode, with the hardware: an error leads to the software unless the client is gone
\* or a shutdown has begun.
EncodeFails(a) ==
  /\ ask[a].at = "encode"
  /\ \/ /\ ~closing /\ AskGoes(a, "software")
        /\ UNCHANGED <<onDisk, fileLock, provisional, indexVars, graced, sessionVars>>
     \/ Abandon(a)

SoftwareFails(a) == ask[a].at = "software" /\ Abandon(a)

\* transcodeChecked's first attempt: clean is for the cache, missing video is worth a
\* retry with a longer pre-roll (where the container has one), the rest is served.
FirstAttempt(a) ==
  /\ ask[a].at \in {"encode", "software"}
  /\ \E v \in Inspected[ask[a].file[2]][cut], hasRetry \in BOOLEAN :
       ask' = [ask EXCEPT ![a] =
         CASE v.judged = "clean" -> [@ EXCEPT !.at = "install", !.fate = v.fate]
           [] v.judged = "missing" /\ hasRetry -> [@ EXCEPT !.at = "retry"]
           [] OTHER -> [@ EXCEPT !.at = "install", !.fate = "suspicious"]]
  /\ UNCHANGED <<onDisk, fileLock, provisional, indexVars, graced, sessionVars>>

\* The retry: its output counts only if it is clean; otherwise, or once a shutdown has
\* begun, the first one is served.
Retry(a) ==
  /\ ask[a].at = "retry"
  /\ \/ ask' = [ask EXCEPT ![a] = [@ EXCEPT !.at = "install", !.fate = "suspicious"]]
     \/ /\ ~closing
        /\ \E v \in Inspected[ask[a].file[2]][cut] :
             /\ v.judged = "clean"
             /\ ask' = [ask EXCEPT ![a] = [@ EXCEPT !.at = "install", !.fate = v.fate]]
  /\ UNCHANGED <<onDisk, fileLock, provisional, indexVars, graced, sessionVars>>

\* Mutant: what was finished during a shutdown is trusted.
CacheableAlways(a) == ask[a].fate # "suspicious"

\* A clean segment that was finished before a shutdown began.
Cacheable(a) == ask[a].fate # "suspicious" /\ ~closing

\* installSegment: old provisional copies go; the segment gets its final name, or a
\* provisional one for this request alone. The rename may fail.
Install(a) ==
  LET f == ask[a].file IN
  /\ ask[a].at = "install"
  /\ \/ /\ Cacheable(a) /\ onDisk' = [onDisk EXCEPT ![f] = ask[a].fate] /\ provisional' = provisional \ {f}
        /\ AskGoes(a, "note") /\ UNCHANGED fileLock
     \/ /\ ~Cacheable(a) /\ provisional' = provisional \cup {f} /\ AskGoes(a, "end") /\ Unlocked(a) /\ UNCHANGED onDisk
     \/ /\ provisional' = provisional \ {f} /\ AskGoes(a, "end") /\ Unlocked(a) /\ UNCHANGED onDisk
  /\ UNCHANGED <<indexVars, graced, sessionVars>>

\* The fresh segment is accounted for.
NoteFresh(a) ==
  /\ ask[a].at = "note" /\ NoteSegment(ask[a].file) /\ AskGoes(a, "evict")
  /\ UNCHANGED <<onDisk, fileLock, provisional, sessionVars>>

\* Mutant: a segment whose lock is held may go too.
VictimsLocked(keep) == {f \in indexed : f # keep}

\* evictSegments: what may go is not the one just made, not used within the grace
\* period, and not locked; whoever holds a lock is skipped, never waited for.
Victims(keep) == {f \in indexed : f # keep /\ f \notin graced /\ fileLock[f] = 0}

\* As many of them go as the cap asks for and there are, the least recently used first;
\* one whose file cannot be removed is passed over, so that it may be any of them.
Evict(a) ==
  /\ ask[a].at = "evict"
  /\ \E gone \in SUBSET Victims(ask[a].file) :
       /\ Cardinality(gone) <= IF indexTotal > CacheLimit THEN indexTotal - CacheLimit ELSE 0
       /\ onDisk' = [f \in HLSFiles |-> IF f \in gone THEN "none" ELSE onDisk[f]]
       /\ indexed' = indexed \ gone /\ indexTotal' = indexTotal - Cardinality(gone)
  /\ AskGoes(a, "open") /\ Unlocked(a)
  /\ UNCHANGED <<provisional, loaded, graced, sessionVars>>

\* The HTTP layer opens the path it was given, within the grace period.
OpenFile(a) ==
  /\ ask[a].at = "open" /\ AskGoes(a, "end")
  /\ UNCHANGED <<onDisk, fileLock, provisional, indexVars, graced, sessionVars>>

\* The grace period of a segment ends: whoever was given it has opened it by then.
GraceEnds ==
  \E f \in graced :
    /\ ~ \E a \in Asks : ask[a].at \in {"evict", "open"} /\ ask[a].file = f
    /\ graced' = graced \ {f}
    /\ UNCHANGED <<onDisk, fileLock, provisional, indexVars, ask, sessionVars>>

\* extractSubtitle: ffmpeg fails or says that its input ended early, or its output gets
\* the final name, also when a shutdown has cut the input off without a word.
Extract(a) ==
  /\ ask[a].at = "extract"
  /\ \E got \in {"none", "whole"} \cup (IF cut THEN {"cut"} ELSE {}) : onDisk' = [onDisk EXCEPT ![SubFile] = got]
  /\ AskGoes(a, "end") /\ Unlocked(a)
  /\ UNCHANGED <<provisional, indexVars, graced, sessionVars>>

\* writeSubPlaylist: only one that has the duration counts as rendered.
Marks == duration

RenderList(a) ==
  /\ ask[a].at = "render"
  /\ \/ onDisk' = [onDisk EXCEPT ![SubList] = IF duration THEN "whole" ELSE "cut"] /\ written' = Marks
     \/ UNCHANGED <<onDisk, written>>
  /\ AskGoes(a, "end") /\ Unlocked(a)
  /\ UNCHANGED <<provisional, indexVars, graced, duration, closing, cut, segRestarts>>

-----------------------------------------------------------------------------
(* The session and the process *)

\* The probe of StartHLS has found the duration.
Probed ==
  /\ ~duration /\ duration' = TRUE
  /\ UNCHANGED <<onDisk, fileLock, provisional, indexVars, graced, written, closing, cut, ask, segRestarts>>

BeginShutdown ==
  /\ ~closing /\ closing' = TRUE
  /\ UNCHANGED <<onDisk, fileLock, provisional, indexVars, graced, duration, written, cut, ask, segRestarts>>

\* The servers that feed ffmpeg its input are drained, after BeginShutdown (app.go).
SourcesGo ==
  /\ closing /\ ~cut /\ cut' = TRUE
  /\ UNCHANGED <<onDisk, fileLock, provisional, indexVars, graced, duration, written, closing, ask, segRestarts>>

\* The process ends at any moment and the next one takes the directory over: files
\* with a final name stay, work files and provisional ones are removed (removeTmpFiles).
SegRestart ==
  /\ segRestarts < MaxSegRestarts /\ segRestarts' = segRestarts + 1
  /\ fileLock' = [f \in HLSFiles |-> 0] /\ provisional' = {}
  /\ indexed' = {} /\ indexTotal' = 0 /\ loaded' = FALSE /\ graced' = {}
  /\ written' = FALSE /\ closing' = FALSE /\ cut' = FALSE
  /\ ask' = [a \in Asks |-> IF ask[a].at = "idle" THEN ask[a] ELSE NoAsk("end")]
  /\ UNCHANGED <<onDisk, duration>>

AskRuns(a) ==
  \/ LockFile(a) \/ TakeSlot(a) \/ EncodeFails(a) \/ SoftwareFails(a) \/ FirstAttempt(a) \/ Retry(a)
  \/ Install(a) \/ NoteFresh(a) \/ Evict(a) \/ OpenFile(a) \/ Extract(a) \/ RenderList(a)

HLSFilesNext ==
  \/ \E a \in Asks : AskFor(a) \/ AskRuns(a)
  \/ GraceEnds \/ Probed \/ BeginShutdown \/ SourcesGo \/ SegRestart

\* Every run of ffmpeg is bounded by SegmentTimeout, every other step is the
\* program's own, and a free mutex is granted to somebody who asks for it.
HLSFilesFairness == \A a \in Asks : WF_hlsFileVars(AskRuns(a))

HLSFilesSpec == HLSFilesInit /\ [][HLSFilesNext]_hlsFileVars /\ HLSFilesFairness

-----------------------------------------------------------------------------
(* Properties *)

HLSFilesTypeOK ==
  /\ onDisk \in [HLSFiles -> {"none", "whole", "cut"}] /\ fileLock \in [HLSFiles -> 0 .. NumAsks]
  /\ provisional \subseteq SegFiles /\ indexed \subseteq SegFiles /\ graced \subseteq SegFiles
  /\ indexTotal \in 0 .. Cardinality(SegFiles) + 1 /\ loaded \in BOOLEAN
  /\ duration \in BOOLEAN /\ written \in BOOLEAN /\ closing \in BOOLEAN /\ cut \in BOOLEAN
  /\ \A a \in Asks : /\ ask[a].file \in HLSFiles
                     /\ ask[a].at \in {"idle", "lock", "slot", "encode", "software", "retry", "install", "note", "evict", "open", "extract", "render", "end"}

\* What is served from the cache again is whole: no segment whose video starts late or
\* stops early, or whose input a shutdown cut off under ffmpeg, gets a final name, in
\* whatever order the shutdown, the end of the sources and the requests come, and
\* wherever the timestamps wrap; and a playlist that counts as rendered is complete.
CachedIsWhole ==
  /\ \A f \in SegFiles : onDisk[f] # "cut"
  /\ written => onDisk[SubList] = "whole"

\* The index of the cache agrees with the directory, whoever has just installed, served
\* or evicted a segment and whenever the directory was scanned, and its total is the
\* size of what it lists.
IndexExact ==
  loaded =>
    /\ indexTotal = Cardinality(indexed)
    /\ \A f \in SegFiles : \/ (onDisk[f] # "none") = (f \in indexed)
                           \/ fileLock[f] # 0 /\ ask[fileLock[f]].at = "note"

\* A cached segment that a request has been given is still there when it is opened.
GivenIsThere == \A a \in Asks : ask[a].at = "open" => onDisk[ask[a].file] # "none"

\* What requests are given of the cache is whole, listed and there.
SegmentsSound == HLSFilesTypeOK /\ CachedIsWhole /\ IndexExact /\ GivenIsThere

\* Reached and kept in the end: every request is answered; nobody waits for ever for a lock
\* whose holder waits for a slot, or for a lock.
HLSFilesSettled == \A a \in Asks : ask[a].at \in {"idle", "end"}

=============================================================================
