------------------------------- MODULE Relay -------------------------------
(***************************************************************************)
(* The media relay (internal/media/relay.go): ffmpeg is never given the    *)
(* URL of a remote source but a token of the relay, which fetches the URL  *)
(* itself and looks at what comes back. A playlist is rewritten so that    *)
(* what it names becomes tokens again, a redirect of the server's own      *)
(* routes is registered again, a DASH manifest is refused, anything else   *)
(* is passed through.                                                      *)
(*                                                                         *)
(* A run of ffmpeg has the relay register its input, asks for a token,     *)
(* follows what the answer names, and, when it fails, the transcoder asks  *)
(* the relay whether the source was to blame. Many runs share the tokens.  *)
(* A URL is a remote one or one of the server's own origin, of which only  *)
(* the answer of classifySelfPath matters. A body is what the relay's and  *)
(* ffmpeg's tests of it tell apart. ffmpeg is external.                    *)
(***************************************************************************)
EXTENDS Integers, Sequences, FiniteSets

CONSTANTS
  Remotes,     \* URLs of other servers
  NumRuns,     \* runs of ffmpeg, numbered as they start
  RelayMax,    \* relayMaxTokens
  RelayTTL,    \* relayTokenTTL
  MaxRelayClock, MaxMinted, MaxFetched, MaxRefs  \* bounds

ASSUME RelayAssumption ==
  /\ {NumRuns, RelayMax, RelayTTL, MaxRelayClock, MaxMinted, MaxFetched, MaxRefs} \subseteq Nat
  /\ 0 < RelayMax /\ 0 < MaxRefs

VARIABLES
  order,       \* mediaRelay.order: the live entries, least recently registered first
  byURL,       \* mediaRelay.byURL: the token of a key, or 0
  minted,      \* tokens handed out so far; a random token is a fresh number
  relayClock,  \* the time
  run          \* runs of ffmpeg

relayVars == <<order, byURL, minted, relayClock, run>>

Runs == 1 .. NumRuns

\* The server's own URLs by what classifySelfPath says of them.
OwnURLs == {"local", "relayed", "refused"}
RelayURLs == Remotes \cup OwnURLs

\* What a redirect or a playlist may name; below an entry "local" is as "relayed".
NamedURLs == RelayURLs \ {"local"}

\* relayEntryKey: a URL as an entry of the server's own origin, and as any other.
RelayKeys == RelayURLs \X BOOLEAN
Never == -1

\* A run that has not begun or is over. `top' is the token of its input, `toks' are
\* the tokens it may ask for next, `left' the references of a playlist still to be
\* registered, `now' the time its registration read. `hurt' (of the model) says that
\* the source of its input has failed at or after the time the run began.
Over(l) ==
  [at |-> l, url |-> "refused", own |-> FALSE, now |-> 0, since |-> 0, top |-> 0, topURL |-> "refused",
   tok |-> 0, toks |-> {}, left |-> 0, fetched |-> 0, hurt |-> FALSE]

RelayInit ==
  /\ order = <<>> /\ byURL = [k \in RelayKeys |-> 0] /\ minted = 0
  /\ relayClock = 0
  /\ run = [i \in Runs |-> Over("idle")]

-----------------------------------------------------------------------------
(* The tokens *)

EntryKey(e) == <<e.url, e.own>>
LiveTokens == {order[i].tok : i \in 1 .. Len(order)}
PlaceOf(t) == CHOOSE i \in 1 .. Len(order) : order[i].tok = t
EntryOf(t) == order[PlaceOf(t)]

\* deleteElemLocked, of the first n entries: off every index.
OrderWithout(n) == SubSeq(order, n + 1, Len(order))
ByURLWithout(n) ==
  [k \in RelayKeys |-> IF \E i \in 1 .. n : EntryKey(order[i]) = k /\ order[i].tok = byURL[k] THEN 0 ELSE byURL[k]]

\* sweepLocked: the expired prefix, at time now.
ExpiredPrefix(now) ==
  CHOOSE n \in 0 .. Len(order) :
    /\ \A i \in 1 .. n : now > order[i].exp
    /\ n < Len(order) => now <= order[n + 1].exp

\* evictLocked: how many entries go to make room for one more.
Evicted(now) ==
  IF Len(order) < RelayMax THEN 0
  ELSE IF Len(order) - ExpiredPrefix(now) >= RelayMax THEN Len(order) - RelayMax + 1 ELSE ExpiredPrefix(now)

\* The entry at p goes to the back, as e.
MoveToBack(p, e) == Append(SubSeq(order, 1, p - 1) \o SubSeq(order, p + 1, Len(order)), e)

\* Mutant: a refreshed entry leaves its old index behind.
RefreshAppends(k, now) ==
  order' = Append(order, [EntryOf(byURL[k]) EXCEPT !.exp = now + RelayTTL]) /\ UNCHANGED <<byURL, minted>>

\* registerAs of a key that has a live token: it is refreshed and moved to the back.
Refresh(k, now) ==
  /\ order' = MoveToBack(PlaceOf(byURL[k]), [EntryOf(byURL[k]) EXCEPT !.exp = now + RelayTTL])
  /\ UNCHANGED <<byURL, minted>>

\* registerAs of any other key: room is made and a fresh token minted.
Mint(k, now) ==
  /\ minted < MaxMinted /\ minted' = minted + 1
  /\ order' = Append(OrderWithout(Evicted(now)),
                     [tok |-> minted + 1, url |-> k[1], own |-> k[2], exp |-> now + RelayTTL, fail |-> Never])
  /\ byURL' = [ByURLWithout(Evicted(now)) EXCEPT ![k] = minted + 1]

TokenOf(k) == IF byURL[k] # 0 THEN byURL[k] ELSE minted + 1

RegisterAs(k, now) == IF byURL[k] # 0 THEN Refresh(k, now) ELSE Mint(k, now)

\* The janitor.
RelaySweep ==
  /\ ExpiredPrefix(relayClock) > 0
  /\ order' = OrderWithout(ExpiredPrefix(relayClock))
  /\ byURL' = ByURLWithout(ExpiredPrefix(relayClock))
  /\ UNCHANGED <<minted, relayClock, run>>

Passes == relayClock < MaxRelayClock /\ relayClock' = relayClock + 1 /\ UNCHANGED <<order, byURL, minted, run>>

-----------------------------------------------------------------------------
(* What may be fetched *)

\* Mutant: any URL of the server's own origin stays its own under one that is.
NestedAny(u, own) == [ok |-> TRUE, own |-> own /\ u \in OwnURLs]

\* registerNested: what a redirect or playlist of an entry names. A URL of the own
\* origin keeps that standing under an own entry only, and only as a media route.
Nested(u, own) == [ok |-> ~(own /\ u = "refused"), own |-> own /\ u \in OwnURLs]

\* Of the model: a source that has failed at this very time has failed "since" now.
FailedNow(u) == \E j \in 1 .. Len(order) : order[j].url = u /\ order[j].fail = relayClock

\* relayInput: a route of local content is read directly, one that passes a remote
\* body is an own entry, any other own route is an error.
Input(i) ==
  /\ run[i].at = "idle" /\ \A j \in 1 .. i - 1 : run[j].at # "idle"
  /\ \E u \in RelayURLs :
       run' = [run EXCEPT ![i] =
         CASE u = "local"   -> [Over("direct") EXCEPT !.url = u]
           [] u = "refused" -> Over("end")
           [] OTHER         -> [Over("register") EXCEPT !.url = u, !.topURL = u, !.own = (u = "relayed"),
                                                       !.now = relayClock, !.since = relayClock,
                                                       !.hurt = FailedNow(u)]]
  /\ UNCHANGED <<order, byURL, minted, relayClock>>

\* registerAs under the lock, the time having been read before it. References of a
\* playlist are registered one by one; the refused ones become a dead URL.
Registers(i) ==
  LET r == run[i]  t == TokenOf(<<r.url, r.own>>)
      top == IF r.top = 0 THEN t ELSE r.top
  IN
  /\ r.at = "register"
  /\ RegisterAs(<<r.url, r.own>>, r.now)
  /\ \/ /\ r.left = 0
        /\ run' = [run EXCEPT ![i] = [r EXCEPT !.at = "pull", !.top = top, !.toks = @ \cup {t}, !.url = "refused", !.own = FALSE, !.now = 0]]
     \/ /\ r.left > 0
        /\ \E u \in NamedURLs : LET n == Nested(u, r.own) IN
             /\ n.ok
             /\ run' = [run EXCEPT ![i] = [r EXCEPT !.top = top, !.toks = @ \cup {t}, !.url = u, !.own = n.own,
                                                    !.left = @ - 1, !.now = relayClock]]
  /\ UNCHANGED relayClock

-----------------------------------------------------------------------------
(* What a body is *)

\* A body, after any inflating: what it starts with; where in it "<MPD" is: within
\* the 512 bytes the relay peeks at, within the 16 KiB of the deeper look, beyond, or
\* nowhere; whether a NUL is in the deeper look; whether the root element is within
\* it and is MPD; and whether the prolog can be read the way libxml2 reads it.
RelayBodies ==
  [lead : {"binary", "xml", "m3u"}, mpd : {"head", "deep", "far", "none"}, nul : BOOLEAN,
   rootSeen : BOOLEAN, rootMPD : BOOLEAN, plain : BOOLEAN, label : {"none", "m3u", "mpd"}]

\* A body is consistent: an MPD root is an "<MPD"; a root of the deeper look is not
\* beyond it; only XML has a root; only XML has a prolog that may be unreadable.
BodyOK(b) ==
  /\ b.rootMPD => b.mpd # "none" /\ b.lead = "xml"
  /\ b.rootMPD => b.rootSeen = (b.mpd \in {"head", "deep"})
  /\ b.lead # "xml" => ~b.rootSeen /\ b.plain

\* What of the bodies the runs enumerate: the consistent ones.
SentBodies == {b \in RelayBodies : BodyOK(b)}

\* ffmpeg (external) opens a body as a manifest whose URLs it fetches itself: a
\* playlist by its magic, a DASH manifest by "<MPD" before any NUL and an MPD root.
FollowedByFfmpeg(b) == b.lead = "m3u" \/ (b.rootMPD /\ ~b.nul)

\* xmlRootIsMPDOrUnknown: the root is MPD, or is not to be found in what is looked at.
RootIsMPDOrUnknown(b) == ~b.plain \/ ~b.rootSeen \/ b.rootMPD

\* xmlBodyMayBeDASH: "<MPD" in sight settles it, a NUL without one rules it out.
MayBeDASH(b) == b.mpd \in {"head", "deep"} \/ (~b.nul /\ RootIsMPDOrUnknown(b))

\* proxy's tests of a GET's body, in their order.
LooksLikeDASH(b) == (b.lead = "xml" /\ MayBeDASH(b)) \/ b.label = "mpd" \/ b.mpd = "head"
LooksLikePlaylist(b) == b.label = "m3u" \/ b.lead = "m3u"

\* What becomes of a body, and whether ffmpeg would follow it.
Verdict(b) ==
  [what |-> IF LooksLikeDASH(b) THEN "refuse" ELSE IF LooksLikePlaylist(b) THEN "rewrite" ELSE "pass",
   followed |-> FollowedByFfmpeg(b)]
Verdicts == {Verdict(b) : b \in SentBodies}

-----------------------------------------------------------------------------
(* One fetch *)

\* The run is over for ffmpeg, not yet for the transcode.
Stopped(r, l) == [Over(l) EXCEPT !.top = r.top, !.topURL = r.topURL, !.since = r.since, !.hurt = r.hurt]

\* A token that is not known, or has expired, is a 404 and the run fails.
Handle(i) ==
  LET r == run[i] IN
  /\ r.at = "pull"
  /\ \E t \in r.toks :
       run' = [run EXCEPT ![i] =
         IF t \in LiveTokens /\ relayClock <= EntryOf(t).exp /\ r.fetched < MaxFetched
         THEN [r EXCEPT !.at = "fetch", !.tok = t, !.url = EntryOf(t).url, !.own = EntryOf(t).own, !.fetched = @ + 1]
         ELSE Stopped(r, "failed")]
  /\ UNCHANGED <<order, byURL, minted, relayClock>>

\* storeFailure: on the token's entry, if it is still there.
StoreFailure(t) ==
  order' = [n \in 1 .. Len(order) |-> IF order[n].tok = t THEN [order[n] EXCEPT !.fail = relayClock] ELSE order[n]]

\* Mutant: a request that ffmpeg dropped counts as a failure of the source.
RecordAnyFailure(i, dropped) == StoreFailure(run[i].tok)

\* recordFailure: not when ffmpeg itself dropped the request.
RecordFailure(i, dropped) == IF dropped THEN UNCHANGED order ELSE StoreFailure(run[i].tok)

\* Of the model: the source of u fails, for every run that has u as its input.
Hurt(rs, u) == [j \in Runs |-> IF rs[j].at \notin {"idle", "end"} /\ rs[j].topURL = u THEN [rs[j] EXCEPT !.hurt = TRUE] ELSE rs[j]]

\* The dial, the handshake or the headers fail: by the source, or because ffmpeg is gone.
FetchBreaks(i) ==
  /\ run[i].at = "fetch"
  /\ \E dropped \in BOOLEAN :
       /\ RecordFailure(i, dropped)
       /\ run' = IF dropped THEN [run EXCEPT ![i] = Over("end")]
                 ELSE Hurt([run EXCEPT ![i] = Stopped(run[i], "failed")], run[i].url)
  /\ UNCHANGED <<byURL, minted, relayClock>>

\* A redirect of an own entry is not followed: ffmpeg is sent to a token of it.
RedirectsOwn(i) ==
  LET r == run[i] IN
  /\ r.at = "fetch" /\ r.own
  /\ \E u \in NamedURLs : LET n == Nested(u, TRUE) IN
       run' = [run EXCEPT ![i] = IF n.ok THEN [r EXCEPT !.at = "register", !.tok = 0, !.toks = {}, !.url = u, !.own = n.own, !.now = relayClock]
                                 ELSE Stopped(r, "failed")]
  /\ UNCHANGED <<order, byURL, minted, relayClock>>

\* An error status, passed on with its body, which ffmpeg does not read; or a body
\* sent compressed that cannot be inflated or is a slice out of the middle, refused.
ErrorStatus(i) ==
  /\ run[i].at = "fetch"
  /\ RecordFailure(i, FALSE)
  /\ run' = Hurt([run EXCEPT ![i] = Stopped(run[i], "failed")], run[i].url)
  /\ UNCHANGED <<byURL, minted, relayClock>>

\* A body, inflated if ffmpeg would: refused, taken for a playlist and rewritten
\* reference by reference (unless it is too large or breaks off), or passed through.
Answered(i) ==
  LET r == run[i] IN
  /\ r.at = "fetch"
  /\ \E v \in Verdicts :
       \/ v.what \in {"refuse", "rewrite"} /\ run' = [run EXCEPT ![i] = Stopped(r, "failed")]
       \/ /\ v.what = "rewrite"
          /\ \E u \in NamedURLs, n \in 0 .. MaxRefs - 1 :
               /\ Nested(u, r.own).ok
               /\ run' = [run EXCEPT ![i] = [r EXCEPT !.at = "register", !.tok = 0, !.toks = {}, !.url = u, !.own = Nested(u, r.own).own,
                                                      !.left = n, !.now = relayClock]]
       \/ v.what = "pass" /\ run' = [run EXCEPT ![i] = [r EXCEPT !.at = IF v.followed THEN "followed" ELSE "copy"]]
  /\ UNCHANGED <<order, byURL, minted, relayClock>>

\* The copy of a body: it ends, ffmpeg drops it, or the source breaks off, which is
\* stored even if ffmpeg has gone meanwhile and ends the connection with an abort.
CopyEnds(i) ==
  /\ run[i].at = "copy"
  /\ \/ run' = [run EXCEPT ![i] = Over("end")] /\ UNCHANGED order
     \/ /\ StoreFailure(run[i].tok)
        /\ run' = Hurt([run EXCEPT ![i] = Stopped(run[i], "failed")], run[i].url)
  /\ UNCHANGED <<byURL, minted, relayClock>>

\* failureSince of the run's input: the source failed while the run was under way.
FailureSince(t, since) == t \in LiveTokens /\ EntryOf(t).fail # Never /\ EntryOf(t).fail >= since

\* The transcode has failed and asks why.
AskRelay(i) ==
  /\ run[i].at = "failed"
  /\ run' = [run EXCEPT ![i] = IF FailureSince(@.top, @.since) THEN [@ EXCEPT !.at = "blamed"] ELSE Over("end")]
  /\ UNCHANGED <<order, byURL, minted, relayClock>>

\* The answer has been sent.
Reported(i) ==
  /\ run[i].at \in {"blamed", "direct"}
  /\ run' = [run EXCEPT ![i] = Over("end")]
  /\ UNCHANGED <<order, byURL, minted, relayClock>>

RelayNext ==
  \/ \E i \in Runs :
       \/ Input(i) \/ Registers(i) \/ Handle(i)
       \/ FetchBreaks(i) \/ RedirectsOwn(i) \/ ErrorStatus(i) \/ Answered(i)
       \/ CopyEnds(i) \/ AskRelay(i) \/ Reported(i)
  \/ RelaySweep \/ Passes

RelaySpec == RelayInit /\ [][RelayNext]_relayVars

-----------------------------------------------------------------------------
(* Properties *)

RelayTypeOK ==
  /\ \A i \in 1 .. Len(order) : /\ order[i].tok \in 1 .. minted /\ EntryKey(order[i]) \in RelayKeys
                                /\ order[i].exp \in 0 .. MaxRelayClock + RelayTTL /\ order[i].fail \in Never .. relayClock
  /\ byURL \in [RelayKeys -> 0 .. minted] /\ minted \in 0 .. MaxMinted /\ relayClock \in 0 .. MaxRelayClock
  /\ \A i \in Runs : run[i].at \in {"idle", "register", "pull", "fetch", "copy", "followed", "failed", "blamed", "direct", "end"}

\* The three indexes of the token table agree and stay bounded, whatever the order in
\* which concurrent registrations, evictions and sweeps take the lock: one entry per
\* token and per key, byURL leads to it, and there are at most relayMaxTokens.
RelayIndex ==
  /\ Len(order) <= RelayMax
  /\ \A i, j \in 1 .. Len(order) : i # j => order[i].tok # order[j].tok /\ EntryKey(order[i]) # EntryKey(order[j])
  /\ \A k \in RelayKeys : byURL[k] # 0 <=> \E i \in 1 .. Len(order) : EntryKey(order[i]) = k /\ order[i].tok = byURL[k]

\* ffmpeg is only ever led to what the relay checks: what it reads directly is a route
\* of local content, no token stands for a control route of the server as its own, a
\* remote URL is never one's own, and no body passed through unchanged is one whose
\* URLs ffmpeg would fetch by itself. All of it rests on the table being exact.
RelayConfines ==
  /\ RelayTypeOK /\ RelayIndex
  /\ \A i \in 1 .. Len(order) : order[i].own => order[i].url \in {"local", "relayed"}
  /\ \A i \in Runs : /\ run[i].at = "direct" => run[i].url = "local"
                     /\ run[i].at \in {"register", "fetch"} /\ run[i].own => run[i].url \in {"local", "relayed"}
                     /\ run[i].at # "followed"

\* A source is blamed for a failed transcode only if it did fail while that transcode
\* was running; a request that ffmpeg dropped and a failure of an earlier run do not count.
BlameIsDeserved == \A i \in Runs : run[i].at = "blamed" => run[i].hurt

=============================================================================
