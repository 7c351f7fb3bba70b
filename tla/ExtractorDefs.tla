--------------------------- MODULE ExtractorDefs ---------------------------
(***************************************************************************)
(* The extractor definitions of the stream proxy                           *)
(* (internal/streamproxy/extractload.go): a local file that is read again  *)
(* when it changes, and a signed remote list that is fetched, verified,    *)
(* published and cached on disk. A request uses the pair published last.   *)
(*                                                                         *)
(* A document is its version, 0 where there is none and -1 where it does   *)
(* not parse. A remote document verifies with the signature of the same    *)
(* version.                                                                *)
(***************************************************************************)
EXTENDS Integers

CONSTANTS
  MaxEdits,        \* bound: edits of the local file
  MaxReleases,     \* bound: versions of the remote list
  MaxDefRestarts   \* bound: how often the process is restarted

ASSUME DefsAssumption == {MaxEdits, MaxReleases, MaxDefRestarts} \subseteq Nat

VARIABLES
  file,        \* the local file: version, modification time
  server,      \* the remote list: version of the document, of its signature
  diskCache,   \* the cached remote list, likewise
  boot,        \* "cache" and "local" while newDefRegistry runs, then "up"
  local, localMod, remote,    \* defRegistry
  snap,        \* the published pair
  loader,      \* the request that holds the lock to read the file again
  fetch,       \* the refresh loop
  lost,        \* history: the read of the present file has failed
  edits, defRestarts

diskVars == <<file, server, diskCache, edits>>
regVars == <<local, localMod, remote, snap>>
defVars == <<diskVars, regVars, boot, loader, fetch, lost, defRestarts>>

Idle == [at |-> "idle", doc |-> 0, sig |-> 0]

DefInit ==
  /\ file = [ver |-> 0, mod |-> 0] /\ server = [doc |-> 0, sig |-> 0] /\ diskCache = server
  /\ boot = "cache" /\ local = 0 /\ localMod = 0 /\ remote = 0 /\ snap = [local |-> 0, remote |-> 0]
  /\ loader = "idle" /\ fetch = Idle
  /\ lost = FALSE /\ edits = 0 /\ defRestarts = 0

-----------------------------------------------------------------------------
(* The outside *)

\* The operator writes, breaks or removes the local file (or makes it unreadable to
\* os.Stat, which counts the same); each time it has a new modification time.
EditFile ==
  /\ edits < MaxEdits /\ edits' = edits + 1 /\ lost' = FALSE
  /\ \/ \E v \in {edits + 1, -1} : file' = [ver |-> v, mod |-> edits + 1]
     \/ file.ver # 0 /\ file' = [ver |-> 0, mod |-> 0]
  /\ UNCHANGED <<server, diskCache, regVars, boot, loader, fetch, defRestarts>>

\* The remote document and its signature are two files.
UploadDoc ==
  /\ server.doc = server.sig /\ server.doc < MaxReleases /\ server' = [server EXCEPT !.doc = @ + 1]
  /\ UNCHANGED <<file, diskCache, edits, regVars, boot, loader, fetch, lost, defRestarts>>
UploadSig ==
  /\ server.sig < server.doc /\ server' = [server EXCEPT !.sig = server.doc]
  /\ UNCHANGED <<file, diskCache, edits, regVars, boot, loader, fetch, lost, defRestarts>>

\* A crash, or the end of the process: the files stay.
DefRestart ==
  /\ defRestarts < MaxDefRestarts /\ defRestarts' = defRestarts + 1
  /\ boot' = "cache" /\ local' = 0 /\ localMod' = 0 /\ remote' = 0 /\ snap' = [local |-> 0, remote |-> 0]
  /\ loader' = "idle" /\ fetch' = Idle /\ lost' = FALSE
  /\ UNCHANGED diskVars

-----------------------------------------------------------------------------
(* The registry *)

\* defRegistry.verify: the signature is of this document, and it parses.
Verified(doc, sig) == doc # 0 /\ doc = sig

\* publishLocked
Publish(l, r) == local' = l /\ remote' = r /\ snap' = [local |-> l, remote |-> r]

\* newDefRegistry: loadRemoteCache, before the refresh loop is started.
LoadRemoteCache ==
  /\ boot = "cache" /\ boot' = "local"
  /\ IF Verified(diskCache.doc, diskCache.sig) THEN Publish(local, diskCache.doc) ELSE UNCHANGED <<local, remote, snap>>
  /\ UNCHANGED <<diskVars, localMod, loader, fetch, lost, defRestarts>>

\* reloadLocalLocked, up to the decision to read: the file is gone, has not changed, or
\* is to be read. The lock is held by the constructor, or by the one request that got it
\* after the interval; the others use what is published.
StatLocal ==
  /\ boot # "cache" /\ loader = "idle"
  /\ \/ /\ file.ver = 0
        /\ IF local # 0 THEN Publish(0, remote) /\ localMod' = 0 ELSE UNCHANGED regVars
        /\ loader' = loader /\ boot' = "up"
     \/ /\ file.ver # 0 /\ file.mod = localMod /\ UNCHANGED <<regVars, loader>> /\ boot' = "up"
     \/ /\ file.ver # 0 /\ file.mod # localMod /\ localMod' = file.mod
        /\ loader' = "read" /\ UNCHANGED <<local, remote, snap, boot>>
  /\ UNCHANGED <<diskVars, fetch, lost, defRestarts>>

\* Mutant: a document that does not parse replaces the good one.
BadReplaces(old) == IF file.ver > 0 THEN file.ver ELSE IF file.ver = -1 THEN 0 ELSE old

\* ParseDefSet: the previous good set is kept when the new one does not parse, and when
\* the file has gone since.
Parsed(old) == IF file.ver > 0 THEN file.ver ELSE old

\* readCapped and what follows. The file may have changed again since it was looked at.
ReadLocal ==
  /\ loader = "read" /\ loader' = "idle" /\ boot' = "up"
  /\ Publish(Parsed(local), remote)
  /\ UNCHANGED <<diskVars, localMod, fetch, lost, defRestarts>>
\* The read fails: the modification time has been noted all the same.
ReadLocalFails ==
  /\ loader = "read" /\ loader' = "idle" /\ boot' = "up"
  /\ lost' = (file.mod = localMod)
  /\ UNCHANGED <<diskVars, regVars, fetch, defRestarts>>

-----------------------------------------------------------------------------
(* The refresh loop *)

\* fetchRemote gets the document, then the signature; either may fail until the next round.
GetDoc ==
  /\ boot # "cache" /\ fetch.at = "idle"
  /\ IF server.doc = 0 THEN UNCHANGED fetch ELSE fetch' = [at |-> "sig", doc |-> server.doc, sig |-> 0]
  /\ UNCHANGED <<diskVars, regVars, boot, loader, lost, defRestarts>>
GetSig ==
  /\ fetch.at = "sig"
  /\ fetch' = IF Verified(fetch.doc, server.sig) THEN [fetch EXCEPT !.at = "publish", !.sig = server.sig] ELSE Idle
  /\ UNCHANGED <<diskVars, regVars, boot, loader, lost, defRestarts>>
GetFails ==
  /\ fetch.at = "sig" /\ fetch' = Idle
  /\ UNCHANGED <<diskVars, regVars, boot, loader, lost, defRestarts>>

\* Mutant: the new list is kept and not published.
PublishQuietly ==
  /\ fetch.at = "publish" /\ loader = "idle" /\ remote' = fetch.doc /\ fetch' = [fetch EXCEPT !.at = "doc"]
  /\ UNCHANGED <<diskVars, local, snap, localMod, boot, loader, lost, defRestarts>>

\* It waits for the lock, publishes, and writes the cache file by file; a write may fail,
\* and without the document the signature is not written.
PublishRemote ==
  /\ fetch.at = "publish" /\ loader = "idle" /\ Publish(local, fetch.doc) /\ fetch' = [fetch EXCEPT !.at = "doc"]
  /\ UNCHANGED <<diskVars, localMod, boot, loader, lost, defRestarts>>
CacheDoc ==
  /\ fetch.at = "doc"
  /\ \/ diskCache' = [diskCache EXCEPT !.doc = fetch.doc] /\ fetch' = [fetch EXCEPT !.at = "sign"]
     \/ fetch' = Idle /\ UNCHANGED diskCache
  /\ UNCHANGED <<file, server, edits, regVars, boot, loader, lost, defRestarts>>
CacheSig ==
  /\ fetch.at = "sign" /\ fetch' = Idle
  /\ diskCache' \in {[diskCache EXCEPT !.sig = fetch.sig], diskCache}
  /\ UNCHANGED <<file, server, edits, regVars, boot, loader, lost, defRestarts>>

-----------------------------------------------------------------------------
DefNext ==
  \/ EditFile \/ UploadDoc \/ UploadSig \/ DefRestart
  \/ LoadRemoteCache \/ StatLocal \/ ReadLocal \/ ReadLocalFails
  \/ GetDoc \/ GetSig \/ GetFails \/ PublishRemote \/ CacheDoc \/ CacheSig

Reloads == StatLocal \/ ReadLocal
Refreshes == GetDoc \/ PublishRemote \/ CacheDoc \/ CacheSig

\* Requests keep coming, so that the file is looked at again; the loop runs as long as the
\* process, and a fetch that is repeated for ever succeeds at last.
DefFairness ==
  WF_defVars(LoadRemoteCache) /\ WF_defVars(Reloads) /\ WF_defVars(Refreshes) /\ SF_defVars(GetSig)

DefSpec == DefInit /\ [][DefNext]_defVars /\ DefFairness

DefTypeOK ==
  /\ file \in [ver : -1 .. MaxEdits, mod : 0 .. MaxEdits]
  /\ {server, diskCache} \subseteq [doc : 0 .. MaxReleases, sig : 0 .. MaxReleases]
  /\ boot \in {"cache", "local", "up"} /\ lost \in BOOLEAN
  /\ {local, localMod, snap.local} \subseteq 0 .. MaxEdits /\ {remote, snap.remote} \subseteq 0 .. MaxReleases
  /\ loader \in {"idle", "read"}
  /\ fetch \in [at : {"idle", "sig", "publish", "doc", "sign"}, doc : 0 .. MaxReleases, sig : 0 .. MaxReleases]
  /\ edits \in 0 .. MaxEdits /\ defRestarts \in 0 .. MaxDefRestarts

\* Between two starts of the process requests never see an older remote list than before,
\* and the local set they see changes only to what is in the file, so that a broken edit
\* leaves the previous good set in use (reloadLocalLocked, loadRemoteCache, fetchRemote).
DefsForward ==
  [][/\ DefTypeOK'
     /\ defRestarts' = defRestarts =>
          /\ snap'.remote >= snap.remote
          /\ snap'.local # snap.local => snap'.local = file.ver]_defVars

\* Reached and kept in the end: what the operator last put into a good local file, and what
\* was last released and signed, is what requests see, whatever restarts, failed fetches and cached files came
\* before (snapshot, refreshLoop); except a local file whose one read failed: its time was
\* noted before (reloadLocalLocked).
DefsSettled ==
  /\ file.ver >= 0 /\ ~lost => snap.local = file.ver
  /\ server.doc = server.sig => snap.remote = server.doc

=============================================================================
