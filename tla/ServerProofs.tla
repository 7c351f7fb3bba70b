---------------------------- MODULE ServerProofs ----------------------------
(***************************************************************************)
(* Proofs about the signed URLs of the stream proxy (ProxyTokens), the     *)
(* media relay (Relay), the priorities of an engine's files and pieces     *)
(* (EnginePriority), the janitor's memo of the disk scan (DiskScan) and    *)
(* the rewriting of manifests (ManifestRewrite).                           *)
(*                                                                         *)
(* Tokens, for any destinations, whatever the manifests and pages refer    *)
(* to, any clients and any expiry: a token that the proxy mints carries    *)
(* the expiry and the address of the grant, and what it opens has been     *)
(* shown.                                                                  *)
(*                                                                         *)
(* The relay, for any number of runs, tokens and references: every entry   *)
(* of its table is found under its key and has a token of its own, which   *)
(* no later entry gets; so a run that knows an entry by its token knows    *)
(* whose failures are noted there.                                         *)
(*                                                                         *)
(* Priorities, for any files and shared pieces and any goroutines: the     *)
(* count of a file's readers is exact however calls overlap. When they do  *)
(* not, a call in the middle of its sections knows what it has still to    *)
(* mark, to unmark, to raise and to release; all else is right already.    *)
(*                                                                         *)
(* The memo, for any engines, bytes and budgets: bytes are counted, then   *)
(* on their way, then on disk, and what was on its way at one walk is on   *)
(* disk at the next; so of two walks that read the same counters the       *)
(* second has added up every byte, until another one comes.                *)
(*                                                                         *)
(* Manifests, of any length and depth: the frames of the stack are the     *)
(* elements that are open, by their depth, and the base in each is made of *)
(* the first BaseURLs around it, from the last absolute one on; what is    *)
(* said of the tokens read stays true of them when another one is read.    *)
(***************************************************************************)
EXTENDS ProxyTokens, Relay, EnginePriority, DiskScan, ManifestRewrite,
        FiniteSetTheorems, NaturalsInduction, WellFoundedInduction, TLAPS

\* Without a secret there is no grant, and before the grant no token is minted.
SecretFirst ==
  /\ ~HasSecret => grant = NoToken
  /\ grant = NoToken => issued = {}
  /\ grant # NoToken => grant.ep \in ProxyEndpoints /\ grant.exp >= 1

\* A minted token has the expiry and the address of the grant.
Descends == \A t \in issued : t.ep \in ProxyEndpoints /\ t.exp = grant.exp /\ t.ip = grant.ip

\* What a token opens is among the destinations shown.
Covers(t) ==
  /\ t.bind = "exact" => t.d[2] \in shown
  /\ t.bind = "prefix" => Under[t.d[2]] \subseteq shown
  /\ t.bind = "free" => shown = Dests
ShownCovers == \A t \in (issued \cup {grant}) \ {NoToken} : Covers(t)

\* A URL with a token has the expiry and address of the credential c it was handed out
\* for, and is within the token.
Derived(u, c) ==
  u.tok # NoToken => /\ u.tok.ep \in ProxyEndpoints /\ Bound(u.tok, u)
                     /\ c # NoToken /\ u.tok.exp = c.exp /\ u.tok.ip = c.ip

\* A URL without a token needs none, or the client's credential was not good.
Excused(u, by, pw, to, now) ==
  u.tok = NoToken => \/ ~HasPassword \/ u.pw = "right" \/ pw = "wrong"
                     \/ by # NoToken /\ ~Valid(by, to, now)

GivenWork ==
  \A u \in given.urls : /\ u.tok \in issued \cup {grant, NoToken}
                        /\ Derived(u, given.by) /\ Excused(u, given.by, given.pw, given.to, clock)

TInv == TokenTypeOK /\ SecretFirst /\ Descends /\ ShownCovers /\ GivenWork

\* What the URLs handed out together lead to: all that the token opens.
LeadsTo(t, urls) ==
  /\ t.bind = "exact" => \E y \in urls : y.d[2] = t.d[2]
  /\ t.bind = "prefix" => \A d \in Under[t.d[2]] : \E y \in urls : y.d[2] = d
  /\ t.bind = "free" => \A d \in Dests : \E y \in urls : y.d[2] = d

\* What the handlers see to for every URL they hand out.
Sound(x, u, c, urls, now) ==
  /\ Derived(x, u.tok) /\ Excused(x, u.tok, u.pw, c, now)
  /\ x.tok \in {grant, NoToken} \/ x.tok \in issued \/ LeadsTo(x.tok, urls)

\* The credential of a request: one that is known.
Known(u) == u.tok \in issued \cup {grant, NoToken} /\ u.pw \in Passwords

-----------------------------------------------------------------------------
\* What tokens known have in common.
LEMMA KnownToken ==
  ASSUME TInv, NEW t \in issued \cup {grant}, t # NoToken
  PROVE  /\ t \in Tokens /\ t.exp = grant.exp /\ t.ip = grant.ip /\ t.exp \in Nat /\ t.exp >= 1
         /\ t.ep \in ProxyEndpoints /\ grant # NoToken /\ HasSecret /\ Covers(t)
<1>1. t \in Tokens  BY DEF TInv, TokenTypeOK
<1>2. t.exp \in Nat  BY <1>1, TokensAssumption DEF Tokens
<1>3. HasSecret \in BOOLEAN  BY TokensAssumption
<1>4. grant # NoToken  BY DEF TInv, SecretFirst
<1>5. QED
  BY <1>1, <1>2, <1>3, <1>4 DEF TInv, SecretFirst, Descends, ShownCovers

\* Handing out sound URLs for a known credential keeps the invariant.
LEMMA HandOutKeeps ==
  ASSUME TInv, NEW c \in Clients, NEW u, Known(u), NEW urls \in SUBSET URLs,
         NEW now \in clock .. MaxProxyClock, HandOut(c, u, urls, now),
         \A x \in urls : Sound(x, u, c, urls, now)
  PROVE  TInv'
<1> DEFINE tokens == {x.tok : x \in urls} \ {NoToken}
<1>1. /\ clock' = now /\ given' = [to |-> c, by |-> u.tok, pw |-> u.pw, urls |-> urls]
      /\ issued' = issued \cup tokens /\ grant' = grant
      /\ shown' = IF tokens = {} THEN shown ELSE shown \cup {x.d[2] : x \in urls}
  BY DEF HandOut
<1>2. \A x \in urls : x.tok \in Tokens /\ x.d \in Encoded  BY DEF URLs
<1>3. NoToken \in Tokens
  BY TokensAssumption DEF NoToken, Token, Tokens, Anywhere
<1>4. u.tok \in Tokens /\ u.pw \in Passwords
  BY <1>3 DEF Known, TInv, TokenTypeOK
<1>5. \A x \in urls : x.d[2] \in Dests  BY <1>2 DEF Encoded
<1>6. shown \subseteq shown' /\ shown' \subseteq Dests
  BY <1>1, <1>5 DEF TInv, TokenTypeOK
<1>7. TokenTypeOK'
  <2>1. now \in 0 .. MaxProxyClock  BY TokensAssumption DEF TInv, TokenTypeOK
  <2>2. grant' \in Tokens /\ issued' \subseteq Tokens  BY <1>1, <1>2 DEF TInv, TokenTypeOK
  <2>3. QED  BY <1>1, <1>4, <1>6, <2>1, <2>2 DEF TokenTypeOK
<1>8. \A t \in tokens : u.tok # NoToken /\ t.ep \in ProxyEndpoints /\ t.exp = u.tok.exp /\ t.ip = u.tok.ip
  BY DEF Sound, Derived
<1>9. \A t \in tokens : /\ t.ep \in ProxyEndpoints /\ t.exp = grant.exp /\ t.ip = grant.ip
                        /\ grant # NoToken
  BY <1>8, KnownToken DEF Known
<1>10. SecretFirst'
  BY <1>1, <1>9 DEF TInv, SecretFirst
<1>11. Descends'
  BY <1>1, <1>9 DEF TInv, Descends
<1>12. ShownCovers'
  <2> SUFFICES ASSUME NEW t \in (issued \cup tokens \cup {grant}) \ {NoToken} PROVE Covers(t)'
    BY <1>1 DEF ShownCovers
  <2>1. CASE t \in issued \cup {grant}
    <3>1. Covers(t)  BY <2>1 DEF TInv, ShownCovers
    <3>2. QED  BY <3>1, <1>6 DEF Covers
  <2>2. CASE t \in tokens /\ t \notin issued \cup {grant}
    <3>1. LeadsTo(t, urls)  BY <2>2 DEF Sound
    <3>2. \A y \in urls : y.d[2] \in shown'  BY <1>1, <2>2
    <3>3. QED  BY <3>1, <3>2, <1>6 DEF LeadsTo, Covers
  <2>3. QED  BY <2>1, <2>2
<1>13. GivenWork'
  <2>1. \A x \in urls : x.tok \in issued' \cup {grant', NoToken}  BY <1>1
  <2>2. /\ given'.urls = urls /\ given'.by = u.tok /\ given'.pw = u.pw /\ given'.to = c
    BY <1>1
  <2>3. \A x \in urls : Derived(x, u.tok) /\ Excused(x, u.tok, u.pw, c, now)  BY DEF Sound
  <2>4. QED  BY <1>1, <2>1, <2>2, <2>3 DEF GivenWork, Derived, Excused
<1>14. QED  BY <1>7, <1>10, <1>11, <1>12, <1>13 DEF TInv

-----------------------------------------------------------------------------
\* The credential of the sub-URLs is that of the request, or none that would be missed.
LEMMA SubTokenIs ==
  ASSUME TInv, NEW c \in Clients, NEW u, Known(u), NEW now \in Nat,
         ~HasPassword \/ u.pw # "none" \/ u.tok # NoToken,
         NEW ep \in ProxyEndpoints, NEW bind, NEW d,
         NEW opts, opts = ParseOptions(u, c, now), NEW tok, tok = SubToken(opts, ep, bind, d)
  PROVE  /\ opts.pw \in Passwords
         /\ \/ tok = NoToken /\ \A x : x.pw = opts.pw => Excused(x, u.tok, u.pw, c, now)
            \/ /\ tok = [ep |-> ep, bind |-> bind, d |-> d, exp |-> u.tok.exp, ip |-> u.tok.ip]
               /\ tok # NoToken /\ u.tok # NoToken
<1>1. CASE u.pw = "none" /\ HasPassword /\ HasSecret /\ u.tok # NoToken /\ Valid(u.tok, c, now)
  <2>1. opts = [pw |-> "none", exp |-> u.tok.exp, ip |-> u.tok.ip]
    BY <1>1 DEF ParseOptions
  <2>2. u.tok.exp # 0  BY <1>1, KnownToken DEF Known
  <2>3. tok = [ep |-> ep, bind |-> bind, d |-> d, exp |-> u.tok.exp, ip |-> u.tok.ip]
    BY <2>1, <2>2 DEF SubToken, Token
  <2>4. tok # NoToken  BY <2>3 DEF NoToken, Token, ProxyEndpoints
  <2>5. QED  BY <2>1, <2>3, <2>4, <1>1 DEF Passwords
<1>2. CASE ~(u.pw = "none" /\ HasPassword /\ HasSecret /\ u.tok # NoToken /\ Valid(u.tok, c, now))
  <2>1. opts = [pw |-> u.pw, exp |-> 0, ip |-> "any"]
    BY <1>2 DEF ParseOptions
  <2>2. tok = NoToken  BY <2>1 DEF SubToken
  <2>3. u.tok # NoToken => HasSecret  BY KnownToken DEF Known
  <2>4. u.pw = "none" \/ u.pw = "right" \/ u.pw = "wrong"  BY DEF Known, Passwords
  <2>5. \A x : x.pw = u.pw => Excused(x, u.tok, u.pw, c, now)
    BY <1>2, <2>3, <2>4 DEF Excused
  <2>6. QED  BY <2>1, <2>2, <2>5 DEF Known
<1>3. QED  BY <1>1, <1>2

\* buildProxyURL seals the destination as it writes it.
LEMMA BuildFits ==
  ASSUME TInv, NEW c \in Clients, NEW u, Known(u), NEW now \in Nat,
         ~HasPassword \/ u.pw # "none" \/ u.tok # NoToken,
         NEW ep \in ProxyEndpoints, NEW d \in Dests, NEW urls,
         NEW x, x = BuildProxyURL(ParseOptions(u, c, now), ep, d), x \in urls
  PROVE  x \in URLs /\ Sound(x, u, c, urls, now)
<1>1. PICK opts : opts = ParseOptions(u, c, now)  OBVIOUS
<1>2. PICK tok : tok = SubToken(opts, ep, "exact", <<"base64", d>>)  OBVIOUS
<1>3. x = [ep |-> ep, d |-> <<"base64", d>>, tok |-> tok, pw |-> opts.pw]
  BY <1>1, <1>2 DEF BuildProxyURL, URL
<1>4. x.ep = ep /\ x.d = <<"base64", d>> /\ x.tok = tok /\ x.pw = opts.pw  BY <1>3
<1>5. <<"base64", d>> \in Encoded  BY DEF Encoded
<1>6. /\ opts.pw \in Passwords
      /\ \/ tok = NoToken /\ \A y : y.pw = opts.pw => Excused(y, u.tok, u.pw, c, now)
         \/ /\ tok = [ep |-> ep, bind |-> "exact", d |-> <<"base64", d>>, exp |-> u.tok.exp, ip |-> u.tok.ip]
            /\ tok # NoToken /\ u.tok # NoToken
  BY <1>1, <1>2, SubTokenIs
<1>7. CASE tok = NoToken
  <2>1. NoToken \in Tokens  BY TokensAssumption DEF NoToken, Token, Tokens, Anywhere
  <2>2. x \in URLs  BY <1>3, <1>5, <1>6, <1>7, <2>1 DEF URLs
  <2>3. Excused(x, u.tok, u.pw, c, now)  BY <1>4, <1>6, <1>7
  <2>4. Derived(x, u.tok)  BY <1>4, <1>7 DEF Derived
  <2>5. QED  BY <2>2, <2>3, <2>4, <1>4, <1>7 DEF Sound
<1>8. CASE tok # NoToken
  <2>1. /\ tok = [ep |-> ep, bind |-> "exact", d |-> <<"base64", d>>, exp |-> u.tok.exp, ip |-> u.tok.ip]
        /\ u.tok # NoToken
    BY <1>6, <1>8
  <2>2. u.tok \in Tokens  BY <2>1, KnownToken DEF Known
  <2>3. tok \in Tokens  BY <1>5, <2>1, <2>2 DEF Tokens
  <2>4. x \in URLs  BY <1>3, <1>5, <1>6, <2>3 DEF URLs
  <2>5. Derived(x, u.tok)  BY <1>4, <2>1 DEF Derived, Bound
  <2>6. LeadsTo(x.tok, urls)  BY <1>4, <2>1 DEF LeadsTo
  <2>7. Excused(x, u.tok, u.pw, c, now)  BY <1>4, <1>8 DEF Excused
  <2>8. QED  BY <2>4, <2>5, <2>6, <2>7 DEF Sound
<1>9. QED  BY <1>7, <1>8

\* dashBuildTemplateURL seals the prefix of all that the player makes of the template.
LEMMA TemplateFits ==
  ASSUME TInv, NEW c \in Clients, NEW u, Known(u), NEW now \in Nat,
         ~HasPassword \/ u.pw # "none" \/ u.tok # NoToken,
         NEW t \in DOMAIN Under, NEW urls, BuildTemplateURLs(ParseOptions(u, c, now), t) \subseteq urls,
         NEW x \in BuildTemplateURLs(ParseOptions(u, c, now), t)
  PROVE  x \in URLs /\ Sound(x, u, c, urls, now)
<1>1. PICK opts : opts = ParseOptions(u, c, now)  OBVIOUS
<1>2. PICK bind : bind = IF Under[t] = Dests THEN "free" ELSE "prefix"  OBVIOUS
<1>3. PICK tok : tok = SubToken(opts, "stream", bind, <<"prefix", t>>)  OBVIOUS
<1> DEFINE to(d) == [ep |-> "stream", d |-> <<"plain", d>>, tok |-> tok, pw |-> opts.pw]
<1>4. BuildTemplateURLs(opts, t) = {to(d) : d \in Under[t]}
  BY <1>2, <1>3 DEF BuildTemplateURLs, URL
<1>5. PICK d \in Under[t] : x = to(d)  BY <1>1, <1>4
<1>6. x.ep = "stream" /\ x.d = <<"plain", d>> /\ x.tok = tok /\ x.pw = opts.pw  BY <1>5
<1>7. \A e \in Under[t] : \E y \in urls : y.d[2] = e
  <2>1. TAKE e \in Under[t]
  <2>2. to(e) \in urls  BY <1>1, <1>4
  <2>3. to(e).d[2] = e  OBVIOUS
  <2>4. QED  BY <2>2, <2>3
<1>8. d \in Dests  BY TokensAssumption
<1>9. <<"plain", d>> \in Encoded  BY <1>8 DEF Encoded
<1>10. "stream" \in ProxyEndpoints  BY DEF ProxyEndpoints
<1>11. /\ opts.pw \in Passwords
       /\ \/ tok = NoToken /\ \A y : y.pw = opts.pw => Excused(y, u.tok, u.pw, c, now)
          \/ /\ tok = [ep |-> "stream", bind |-> bind, d |-> <<"prefix", t>>, exp |-> u.tok.exp, ip |-> u.tok.ip]
             /\ tok # NoToken /\ u.tok # NoToken
  BY <1>1, <1>3, <1>10, SubTokenIs
<1> HIDE DEF to
<1>12. x = [ep |-> "stream", d |-> <<"plain", d>>, tok |-> tok, pw |-> opts.pw]  BY <1>5 DEF to
<1>13. CASE tok = NoToken
  <2>1. NoToken \in Tokens  BY TokensAssumption DEF NoToken, Token, Tokens, Anywhere
  <2>2. x \in URLs  BY <1>9, <1>10, <1>11, <1>12, <1>13, <2>1 DEF URLs
  <2>3. Excused(x, u.tok, u.pw, c, now)  BY <1>6, <1>11, <1>13
  <2>4. Derived(x, u.tok)  BY <1>6, <1>13 DEF Derived
  <2>5. QED  BY <2>2, <2>3, <2>4, <1>6, <1>13 DEF Sound
<1>14. CASE tok # NoToken
  <2>1. /\ tok = [ep |-> "stream", bind |-> bind, d |-> <<"prefix", t>>, exp |-> u.tok.exp, ip |-> u.tok.ip]
        /\ u.tok # NoToken
    BY <1>11, <1>14
  <2>2. u.tok \in Tokens  BY <2>1, KnownToken DEF Known
  <2>3. tok \in Tokens
    <3>1. <<"prefix", t>> \in {"prefix"} \X DOMAIN Under  OBVIOUS
    <3>2. bind \in {"free", "prefix"}  BY <1>2
    <3>3. QED  BY <1>10, <2>1, <2>2, <3>1, <3>2 DEF Tokens
  <2>4. x \in URLs  BY <1>9, <1>10, <1>11, <1>12, <2>3 DEF URLs
  <2>5. Derived(x, u.tok)
    <3>1. Bound(tok, x)
      <4>1. tok.ep = "stream" /\ tok.bind = bind /\ tok.d[2] = t  BY <2>1
      <4>2. x.d[2] \in Under[tok.d[2]]  BY <1>6, <4>1
      <4>3. bind # "exact"  BY <1>2
      <4>4. QED  BY <1>6, <4>1, <4>2, <4>3 DEF Bound
    <3>2. QED  BY <3>1, <1>6, <1>10, <2>1 DEF Derived
  <2>6. LeadsTo(x.tok, urls)
    <3>1. tok.bind = bind /\ tok.d[2] = t  BY <2>1
    <3>2. bind = "free" => Under[t] = Dests  BY <1>2
    <3>3. bind # "exact"  BY <1>2
    <3>4. QED  BY <1>6, <1>7, <3>1, <3>2, <3>3 DEF LeadsTo
  <2>7. Excused(x, u.tok, u.pw, c, now)  BY <1>6, <1>14 DEF Excused
  <2>8. QED  BY <2>4, <2>5, <2>6, <2>7 DEF Sound
<1>15. QED  BY <1>13, <1>14

-----------------------------------------------------------------------------
(* The handlers *)

\* A request that is authorised without a token has the password, if there is one.
LEMMA Admitted ==
  ASSUME TInv, NEW u, Known(u), NEW c, Authorize(u, c, clock)
  PROVE  ~HasPassword \/ u.pw # "none" \/ u.tok # NoToken
BY DEF Authorize

\* The manifest or the page that is asked for is known.
LEMMA FinalKnown ==
  ASSUME NEW u, u.d \in Encoded
  PROVE  /\ u.d[2] \in Dests /\ Final(u) \in Dests
         /\ Content[u.d[2]] = "page" => Resolved[u.d[2]].ep \in ProxyEndpoints /\ Resolved[u.d[2]].d \in Dests
<1>1. u.d[2] \in Dests  BY DEF Encoded
<1>2. Content[u.d[2]] = "page" => Resolved[u.d[2]].ep \in ProxyEndpoints /\ Resolved[u.d[2]].d \in Dests
  BY <1>1, TokensAssumption DEF Targets
<1>3. QED  BY <1>1, <1>2 DEF Final

\* A request is answered with sound URLs.
LEMMA ServeKeeps ==
  ASSUME TInv, NEW c \in Clients, NEW u, Known(u), u.d \in Encoded, Serve(c, u)
  PROVE  TInv'
<1>1. PICK now \in clock .. MaxProxyClock :
        ResolveEmbed(c, u, now) \/ HlsServe(c, u, now) \/ DashServe(c, u, now)
  BY DEF Serve
<1>2. now \in Nat  BY TokensAssumption DEF TInv, TokenTypeOK
<1>3. ~HasPassword \/ u.pw # "none" \/ u.tok # NoToken  BY Admitted DEF Serve
<1>4. PICK opts : opts = ParseOptions(u, c, now)  OBVIOUS
<1>5. CASE ResolveEmbed(c, u, now)
  <2>1. PICK x : x = BuildProxyURL(ParseOptions(u, c, now), Resolved[u.d[2]].ep, Resolved[u.d[2]].d)  OBVIOUS
  <2>2. Resolved[u.d[2]].ep \in ProxyEndpoints /\ Resolved[u.d[2]].d \in Dests
    BY <1>5, FinalKnown DEF ResolveEmbed, Elsewhere
  <2>3. x \in URLs /\ Sound(x, u, c, {x}, now)  BY <1>2, <1>3, <2>1, <2>2, BuildFits
  <2>4. HandOut(c, u, {x}, now)  BY <1>5, <2>1 DEF ResolveEmbed
  <2>5. QED  BY <2>3, <2>4, HandOutKeeps
<1>6. CASE HlsServe(c, u, now)
  <2>1. PICK urls : urls = {BuildProxyURL(opts, r.ep, r.d) : r \in Refs[Final(u)]}  OBVIOUS
  <2>2. HandOut(c, u, urls, now)  BY <1>4, <1>6, <2>1 DEF HlsServe
  <2>3. \A r \in Refs[Final(u)] : r.ep \in ProxyEndpoints /\ r.d \in Dests
    BY <1>6, FinalKnown, TokensAssumption DEF HlsServe, Targets
  <2>4. ASSUME NEW x \in urls PROVE x \in URLs /\ Sound(x, u, c, urls, now)
    <3>1. PICK r \in Refs[Final(u)] : x = BuildProxyURL(opts, r.ep, r.d)  BY <2>1
    <3>2. QED  BY <1>2, <1>3, <1>4, <2>3, <3>1, BuildFits
  <2>5. QED  BY <2>2, <2>4, HandOutKeeps
<1>7. CASE DashServe(c, u, now)
  <2>1. PICK urls : urls = {BuildProxyURL(opts, r.ep, r.d) : r \in Refs[Final(u)]}
                            \cup UNION {BuildTemplateURLs(opts, t) : t \in Templates[Final(u)]}  OBVIOUS
  <2>2. HandOut(c, u, urls, now)  BY <1>4, <1>7, <2>1 DEF DashServe
  <2>3. \A r \in Refs[Final(u)] : r.ep \in ProxyEndpoints /\ r.d \in Dests
    BY <1>7, FinalKnown, TokensAssumption DEF DashServe, Targets
  <2>4. Templates[Final(u)] \subseteq DOMAIN Under
    BY <1>7, FinalKnown, TokensAssumption DEF DashServe
  <2>5. ASSUME NEW x \in urls PROVE x \in URLs /\ Sound(x, u, c, urls, now)
    <3>1. CASE \E r \in Refs[Final(u)] : x = BuildProxyURL(opts, r.ep, r.d)
      BY <1>2, <1>3, <1>4, <2>3, <3>1, BuildFits
    <3>2. CASE \E t \in Templates[Final(u)] : x \in BuildTemplateURLs(opts, t)
      <4>1. PICK t \in Templates[Final(u)] : x \in BuildTemplateURLs(opts, t)  BY <3>2
      <4>2. BuildTemplateURLs(opts, t) \subseteq urls  BY <2>1
      <4>3. QED  BY <1>2, <1>3, <1>4, <2>4, <4>1, <4>2, TemplateFits
    <3>3. QED  BY <2>1, <3>1, <3>2
  <2>6. QED  BY <2>2, <2>5, HandOutKeeps
<1>8. QED  BY <1>1, <1>5, <1>6, <1>7

\* An extractor's redirect.
LEMMA ExtractorKeeps ==
  ASSUME TInv, NEW c \in Clients, NEW d \in Dests, NEW pw \in {"none", "right"},
         HandleExtractor(c, URL("extractor", <<"plain", d>>, NoToken, pw))
  PROVE  TInv'
<1>1. PICK u : u = URL("extractor", <<"plain", d>>, NoToken, pw)  OBVIOUS
<1>2. u.d = <<"plain", d>> /\ u.tok = NoToken /\ u.pw = pw  BY <1>1 DEF URL
<1>3. Known(u) /\ u.d \in Encoded  BY <1>2 DEF Known, Passwords, Encoded
<1>4. ~HasPassword \/ u.pw # "none" \/ u.tok # NoToken
  BY <1>1, <1>3, Admitted DEF HandleExtractor
<1>5. PICK x : x = BuildProxyURL(ParseOptions(u, c, clock), Resolved[u.d[2]].ep, Resolved[u.d[2]].d)  OBVIOUS
<1>6. Resolved[u.d[2]].ep \in ProxyEndpoints /\ Resolved[u.d[2]].d \in Dests
  BY <1>1, <1>3, FinalKnown DEF HandleExtractor
<1>7. clock \in Nat /\ clock \in clock .. MaxProxyClock  BY TokensAssumption DEF TInv, TokenTypeOK
<1>8. x \in URLs /\ Sound(x, u, c, {x}, clock)  BY <1>3, <1>4, <1>5, <1>6, <1>7, BuildFits
<1>9. HandOut(c, u, {x}, clock)  BY <1>1, <1>5 DEF HandleExtractor
<1>10. QED  BY <1>3, <1>7, <1>8, <1>9, HandOutKeeps

\* The recorder is given the configured password.
LEMMA RecordSourceKeeps ==
  ASSUME TInv, NEW d \in Dests, RecordSource(d)
  PROVE  TInv'
<1>1. PICK u : u = URL("record", <<"plain", d>>, NoToken, "none")  OBVIOUS
<1>2. u.d = <<"plain", d>> /\ u.d[2] = d /\ u.tok = NoToken /\ u.pw = "none"  BY <1>1 DEF URL
<1>3. Known(u) /\ u.d \in Encoded  BY <1>2 DEF Known, Passwords, Encoded
<1>4. PICK ep \in IF Content[d] = "page" THEN {Resolved[d].ep} ELSE RecordEndpoints(d) :
        HandOut(Recorder, u, {Own(ep, Final(u))}, clock)
  BY <1>1 DEF RecordSource
<1>5. ep \in ProxyEndpoints
  <2>1. Content[d] = "page" => Resolved[d].ep \in ProxyEndpoints  BY <1>2, <1>3, FinalKnown
  <2>2. Content[d] \in {"page", "hls", "mpd", "media"}  BY TokensAssumption
  <2>3. QED  BY <1>4, <2>1, <2>2 DEF RecordEndpoints, ProxyEndpoints
<1>6. PICK x : x = Own(ep, Final(u))  OBVIOUS
<1>7. PICK pw : pw = IF HasPassword THEN "right" ELSE "none"  OBVIOUS
<1>8. x = [ep |-> ep, d |-> <<"base64", Final(u)>>, tok |-> NoToken, pw |-> pw]
  BY <1>6, <1>7 DEF Own, URL
<1>9. x \in URLs
  <2>1. <<"base64", Final(u)>> \in Encoded  BY <1>3, FinalKnown DEF Encoded
  <2>2. NoToken \in Tokens  BY TokensAssumption DEF NoToken, Token, Tokens, Anywhere
  <2>3. pw \in Passwords  BY <1>7 DEF Passwords
  <2>4. QED  BY <1>5, <1>8, <2>1, <2>2, <2>3 DEF URLs
<1>10. Sound(x, u, Recorder, {x}, clock)
  <2>1. x.tok = NoToken /\ x.pw = pw  BY <1>8
  <2>2. QED  BY <1>7, <2>1 DEF Sound, Derived, Excused
<1>11. clock \in clock .. MaxProxyClock /\ Recorder \in Clients
  BY TokensAssumption DEF TInv, TokenTypeOK
<1>12. QED  BY <1>3, <1>4, <1>6, <1>9, <1>10, <1>11, HandOutKeeps

\* A URL of the proxy itself is passed on to the recorder.
LEMMA RecordSelfKeeps ==
  ASSUME TInv, NEW u \in given.urls, RecordSelf(u)
  PROVE  TInv'
<1>1. u \in URLs  BY DEF TInv, TokenTypeOK
<1>2. PICK v : v = IF HasPassword /\ u.pw = "none" /\ u.tok = NoToken THEN [u EXCEPT !.pw = "right"] ELSE u  OBVIOUS
<1>3. HandOut(Recorder, v, {v}, clock)  BY <1>2 DEF RecordSelf
<1>4. v \in URLs  BY <1>1, <1>2 DEF URLs, Passwords
<1>5. v.tok = u.tok /\ v.ep = u.ep /\ v.d = u.d  BY <1>1, <1>2 DEF URLs
<1>6. HasPassword /\ v.tok = NoToken => v.pw # "none"  BY <1>1, <1>2 DEF URLs
<1>7. u.tok \in issued \cup {grant, NoToken} /\ Derived(u, given.by)  BY DEF TInv, GivenWork
<1>8. v.pw \in Passwords  BY <1>4 DEF URLs
<1>9. Known(v)  BY <1>5, <1>7, <1>8 DEF Known
<1>10. Derived(v, v.tok)  BY <1>5, <1>7 DEF Derived, Bound
<1>11. Excused(v, v.tok, v.pw, Recorder, clock)  BY <1>6, <1>8 DEF Excused, Passwords
<1>12. Sound(v, v, Recorder, {v}, clock)  BY <1>5, <1>7, <1>10, <1>11 DEF Sound
<1>13. clock \in clock .. MaxProxyClock /\ Recorder \in Clients
  BY TokensAssumption DEF TInv, TokenTypeOK
<1>14. QED  BY <1>3, <1>4, <1>9, <1>12, <1>13, HandOutKeeps

\* /generate_url: the one grant, and what it opens is shown.
LEMMA GenerateKeeps ==
  ASSUME TInv, NEW c \in Clients, NEW pw, NEW ep \in ProxyEndpoints, NEW d \in Encoded \cup {Anywhere},
         NEW secs \in 1 .. MaxSeconds, NEW ip \in Clients \cup {"any"}, Generate(c, pw, ep, d, secs, ip)
  PROVE  TInv'
<1>1. grant = NoToken /\ HasSecret /\ UNCHANGED <<clock, issued, given>>  BY DEF Generate
<1>2. PICK bind : bind = IF d = Anywhere THEN "free" ELSE "exact"  OBVIOUS
<1>3. grant' = [ep |-> ep, bind |-> bind, d |-> d, exp |-> clock + secs, ip |-> ip]
  BY <1>2 DEF Generate, Token
<1>4. /\ bind = "free" => shown' = Dests
      /\ bind # "free" => bind = "exact" /\ shown' = {d[2]} /\ d \in Encoded
  BY <1>2 DEF Generate
<1>5. issued = {}  BY <1>1 DEF TInv, SecretFirst
<1>6. clock + secs \in 1 .. MaxProxyClock + MaxSeconds  BY TokensAssumption DEF TInv, TokenTypeOK
<1>7. grant' \in Tokens  BY <1>2, <1>3, <1>6 DEF Tokens
<1>8. grant' # NoToken  BY <1>3 DEF NoToken, Token, ProxyEndpoints
<1>9. TokenTypeOK'
  <2>1. shown' \subseteq Dests  BY <1>4 DEF Encoded
  <2>2. QED  BY <1>1, <1>7, <2>1 DEF TInv, TokenTypeOK
<1>10. SecretFirst'  BY <1>1, <1>3, <1>6, <1>8 DEF SecretFirst
<1>11. Descends'  BY <1>1, <1>5 DEF Descends
<1>12. ShownCovers'
  <2>1. Covers(grant)'
    <3>1. grant'.bind = bind /\ grant'.d = d  BY <1>3
    <3>2. bind = "free" \/ bind = "exact"  BY <1>2
    <3>3. QED  BY <1>4, <3>1, <3>2 DEF Covers
  <2>2. QED  BY <1>1, <1>5, <2>1 DEF ShownCovers
<1>13. GivenWork'
  <2>1. \A u \in given.urls : u.tok = NoToken  BY <1>1, <1>5 DEF TInv, GivenWork
  <2>2. QED  BY <1>1, <2>1 DEF TInv, GivenWork, Derived, Excused, Valid
<1>14. QED  BY <1>9, <1>10, <1>11, <1>12, <1>13 DEF TInv

\* A credential that was not good does not become so with time.
LEMMA TickKeeps ==
  ASSUME TInv, TokenTick
  PROVE  TInv'
<1>1. /\ clock < MaxProxyClock /\ clock' = clock + 1 /\ UNCHANGED <<grant, issued, shown, given>>
  BY DEF TokenTick
<1>2. TokenTypeOK'  BY <1>1, TokensAssumption DEF TInv, TokenTypeOK
<1>3. SecretFirst' /\ Descends'  BY <1>1 DEF TInv, SecretFirst, Descends
<1>4. ShownCovers'  BY <1>1 DEF TInv, ShownCovers, Covers
<1>5. GivenWork'
  <2>1. ASSUME NEW u \in given.urls, ~Valid(given.by, given.to, clock)
        PROVE  ~Valid(given.by, given.to, clock + 1)
    <3>1. given.by \in Tokens /\ clock \in Nat  BY DEF TInv, TokenTypeOK
    <3>2. given.by.exp \in Nat  BY <3>1, TokensAssumption DEF Tokens
    <3>3. QED  BY <2>1, <3>1, <3>2 DEF Valid
  <2>2. \A u \in given.urls : Excused(u, given.by, given.pw, given.to, clock + 1)
    BY <2>1 DEF TInv, GivenWork, Excused
  <2>3. QED  BY <1>1, <2>2 DEF TInv, GivenWork, Derived, Excused
<1>6. QED  BY <1>2, <1>3, <1>4, <1>5 DEF TInv

-----------------------------------------------------------------------------
\* The invariant holds at first.
LEMMA InitKeeps == TokenInit => TInv
<1> SUFFICES ASSUME TokenInit PROVE TInv  OBVIOUS
<1>1. NoToken \in Tokens  BY TokensAssumption DEF NoToken, Token, Tokens, Anywhere
<1>2. TokenTypeOK  BY <1>1, TokensAssumption DEF TokenInit, TokenTypeOK, Passwords
<1>3. SecretFirst /\ Descends /\ ShownCovers /\ GivenWork
  BY DEF TokenInit, SecretFirst, Descends, ShownCovers, GivenWork
<1>4. QED  BY <1>2, <1>3 DEF TInv

\* Every step keeps it.
LEMMA NextKeeps == TInv /\ [TokenNext]_tokenVars => TInv'
<1> SUFFICES ASSUME TInv, [TokenNext]_tokenVars PROVE TInv'  OBVIOUS
<1>1. CASE TokenTick  BY <1>1, TickKeeps
<1>2. CASE \E c \in Clients, pw \in {"none", "right"}, ep \in ProxyEndpoints, d \in Encoded \cup {Anywhere},
              secs \in 1 .. MaxSeconds, ip \in Clients \cup {"any"} : Generate(c, pw, ep, d, secs, ip)
  BY <1>2, GenerateKeeps
<1>3. CASE \E c \in Clients, u \in given.urls : Serve(c, u)
  <2>1. PICK c \in Clients, u \in given.urls : Serve(c, u)  BY <1>3
  <2>2. u \in URLs /\ u.tok \in issued \cup {grant, NoToken}  BY DEF TInv, TokenTypeOK, GivenWork
  <2>3. Known(u) /\ u.d \in Encoded  BY <2>2 DEF Known, URLs
  <2>4. QED  BY <2>1, <2>3, ServeKeeps
<1>4. CASE \E c \in Clients, ep \in ProxyEndpoints, d \in Encoded, pw \in {"none", "right", "wrong"},
              tok \in issued \cup {grant, NoToken} : Serve(c, URL(ep, d, tok, pw))
  <2>1. PICK c \in Clients, ep \in ProxyEndpoints, d \in Encoded, pw \in {"none", "right", "wrong"},
             tok \in issued \cup {grant, NoToken} : Serve(c, URL(ep, d, tok, pw))
    BY <1>4
  <2>2. PICK u : u = URL(ep, d, tok, pw)  OBVIOUS
  <2>3. u.d = d /\ u.tok = tok /\ u.pw = pw  BY <2>2 DEF URL
  <2>4. Known(u) /\ u.d \in Encoded  BY <2>3 DEF Known, Passwords
  <2>5. QED  BY <2>1, <2>2, <2>4, ServeKeeps
<1>5. CASE \E c \in Clients, d \in Dests, pw \in {"none", "right"} :
             HandleExtractor(c, URL("extractor", <<"plain", d>>, NoToken, pw))
  BY <1>5, ExtractorKeeps
<1>6. CASE \E d \in Dests : RecordSource(d)  BY <1>6, RecordSourceKeeps
<1>7. CASE \E u \in given.urls : RecordSelf(u)  BY <1>7, RecordSelfKeeps
<1>8. CASE UNCHANGED tokenVars
  <2>1. UNCHANGED <<clock, grant, issued, shown, given>>  BY <1>8 DEF tokenVars
  <2>2. TokenTypeOK' /\ SecretFirst' /\ Descends'
    BY <2>1 DEF TInv, TokenTypeOK, SecretFirst, Descends
  <2>3. ShownCovers' /\ GivenWork'
    BY <2>1 DEF TInv, ShownCovers, Covers, GivenWork, Derived, Excused, Valid
  <2>4. QED  BY <2>2, <2>3 DEF TInv
<1>9. QED
  BY <1>1, <1>2, <1>3, <1>4, <1>5, <1>6, <1>7, <1>8 DEF TokenNext

\* The inductive invariant of the tokens holds throughout.
THEOREM TokenInvariant == TokenSpec => []TInv
<1>1. QED  BY InitKeeps, NextKeeps, PTL DEF TokenSpec

\* Every token gives access only within the bounds of the grant it descends from.
THEOREM TokensWithinGrant == TokenSpec => []GrantBounds
<1>1. TInv => GrantBounds
  <2> SUFFICES ASSUME TInv PROVE GrantBounds  OBVIOUS
  <2> SUFFICES ASSUME NEW t \in (issued \cup {grant}) \ {NoToken}, NEW c \in Clients, NEW ep \in ProxyEndpoints,
                      NEW d \in Encoded, Authorize(URL(ep, d, t, "none"), c, clock)
               PROVE  clock <= grant.exp /\ grant.ip \in {"any", c} /\ d[2] \in shown
    BY DEF GrantBounds, TInv
  <2>1. /\ t \in Tokens /\ t.exp = grant.exp /\ t.ip = grant.ip
        /\ HasSecret /\ Covers(t)
    BY KnownToken
  <2>2. PICK u : u = URL(ep, d, t, "none")  OBVIOUS
  <2>3. u.tok = t /\ u.d = d  BY <2>2 DEF URL
  <2>4. Valid(t, c, clock) /\ Bound(t, u)  BY <2>1, <2>2, <2>3 DEF Authorize
  <2>5. d[2] \in Dests  BY DEF Encoded
  <2>6. t.bind \in {"exact", "prefix", "free"}  BY <2>1 DEF Tokens
  <2>7. d[2] \in shown  BY <2>1, <2>3, <2>4, <2>5, <2>6 DEF Bound, Covers
  <2>8. QED  BY <2>1, <2>4, <2>7 DEF Valid
<1>2. QED  BY <1>1, TokenInvariant, PTL

\* What the proxy hands out it accepts.
THEOREM HandedOutWork == TokenSpec => []UrlsWork
<1>1. TInv => UrlsWork
  <2> SUFFICES ASSUME TInv, NEW u \in given.urls, Acl = {} \/ given.to \in Acl, given.pw # "wrong",
                      given.by = NoToken \/ Valid(given.by, given.to, clock)
               PROVE  Authorize(u, given.to, clock)
    BY DEF UrlsWork
  <2>1. /\ u.tok \in issued \cup {grant, NoToken} /\ Derived(u, given.by)
        /\ Excused(u, given.by, given.pw, given.to, clock)
    BY DEF TInv, GivenWork
  <2>2. CASE u.tok = NoToken  BY <2>1, <2>2 DEF Excused, Authorize
  <2>3. CASE u.tok # NoToken
    <3>1. HasSecret  BY <2>1, <2>3, KnownToken
    <3>2. Bound(u.tok, u) /\ Valid(u.tok, given.to, clock)  BY <2>1, <2>3 DEF Derived, Valid
    <3>3. QED  BY <2>3, <3>1, <3>2 DEF Authorize
  <2>4. QED  BY <2>2, <2>3
<1>2. QED  BY <1>1, TokenInvariant, PTL

-----------------------------------------------------------------------------
(* The media relay (Relay) *)

RelayPlaces == {"idle", "register", "pull", "fetch", "copy", "followed", "failed", "blamed", "direct", "end"}
Entries == [tok : Nat, url : RelayURLs, own : BOOLEAN, exp : Int, fail : Int]
RunRecords ==
  [at : RelayPlaces, url : RelayURLs, own : BOOLEAN, now : Nat, since : Nat, top : Nat, topURL : RelayURLs,
   tok : Nat, toks : SUBSET Nat, left : Nat, fetched : Nat, hurt : BOOLEAN]

\* Times and tokens of the table are of the past.
EntriesPast ==
  \A i \in 1 .. Len(order) : /\ order[i].tok \in 1 .. minted /\ order[i].exp \in 0 .. MaxRelayClock + RelayTTL
                             /\ order[i].fail \in Never .. relayClock

\* The indexes agree: an entry is found under its key, a token is that of one entry.
Indexed ==
  /\ Len(order) <= RelayMax
  /\ \A i \in 1 .. Len(order) : byURL[EntryKey(order[i])] = order[i].tok
  /\ \A i, j \in 1 .. Len(order) : order[i].tok = order[j].tok => i = j
  /\ \A k \in RelayKeys : byURL[k] # 0 => \E i \in 1 .. Len(order) : EntryKey(order[i]) = k

\* The table of the relay. No entry is of the server's own standing but a media route.
TableSound ==
  /\ order \in Seq(Entries) /\ byURL \in [RelayKeys -> 0 .. minted]
  /\ minted \in 0 .. MaxMinted /\ relayClock \in 0 .. MaxRelayClock
  /\ EntriesPast /\ Indexed
  /\ \A i \in 1 .. Len(order) : order[i].own => order[i].url \in {"local", "relayed"}

\* A run under way, for which the relay has an input.
UnderWay(r) == r.at \notin {"idle", "end", "direct"}

\* What is so of a run r: what it may be led to; the entries of its input and of the
\* fetch it is at, which it knows by their tokens; and that a failure noted since it
\* began, of the source of its input, has hurt it.
RunSound(r) ==
  /\ r.now <= relayClock /\ r.since <= relayClock /\ r.tok <= minted /\ r.top <= minted
  /\ r.at = "direct" => r.url = "local"
  /\ r.at \in {"register", "fetch"} /\ r.own => r.url \in {"local", "relayed"}
  /\ r.at # "followed"
  /\ UnderWay(r) /\ r.top = 0 => r.at = "register" /\ r.url = r.topURL
  /\ UnderWay(r) /\ r.top # 0 => \A j \in 1 .. Len(order) : order[j].tok = r.top => order[j].url = r.topURL
  /\ r.at \in {"fetch", "copy"} => \A j \in 1 .. Len(order) : order[j].tok = r.tok => order[j].url = r.url
  /\ UnderWay(r) => \A j \in 1 .. Len(order) : order[j].url = r.topURL /\ order[j].fail >= r.since => r.hurt
  /\ r.at = "blamed" => r.hurt

\* The inductive invariant of the relay.
RInv == TableSound /\ run \in [Runs -> RunRecords] /\ \A i \in Runs : RunSound(run[i])

\* What is left of a sequence without its first n members, and what it is with one more.
LEMMA DroppedSeq ==
  ASSUME NEW E, NEW s \in Seq(E), NEW n \in 0 .. Len(s)
  PROVE  LET t == SubSeq(s, n + 1, Len(s)) IN
         t \in Seq(E) /\ Len(t) = Len(s) - n /\ \A i \in 1 .. Len(t) : i + n \in 1 .. Len(s) /\ t[i] = s[i + n]
<1>1. QED  OBVIOUS

LEMMA AppendedSeq ==
  ASSUME NEW E, NEW s \in Seq(E), NEW e \in E
  PROVE  LET t == Append(s, e) IN
         t \in Seq(E) /\ Len(t) = Len(s) + 1 /\ \A i \in 1 .. Len(t) : t[i] = IF i <= Len(s) THEN s[i] ELSE e
<1>1. QED  OBVIOUS

LEMMA EntryTypes ==
  ASSUME TableSound
  PROVE  Len(order) \in Nat /\ \A i \in 1 .. Len(order) :
           /\ order[i] \in Entries /\ order[i].tok \in Nat /\ order[i].url \in RelayURLs /\ order[i].own \in BOOLEAN
           /\ order[i].exp \in Int /\ order[i].fail \in Int /\ EntryKey(order[i]) \in RelayKeys
<1>1. order \in Seq(Entries)  BY DEF TableSound
<1>2. Len(order) \in Nat /\ \A i \in 1 .. Len(order) : order[i] \in Entries  BY <1>1
<1>3. ASSUME NEW e \in Entries
      PROVE  /\ e.tok \in Nat /\ e.url \in RelayURLs /\ e.own \in BOOLEAN /\ e.exp \in Int /\ e.fail \in Int
             /\ EntryKey(e) \in RelayKeys
  BY DEF Entries, EntryKey, RelayKeys
<1>4. QED  BY <1>2, <1>3

\* What OrderWithout and MoveToBack make of the table.
LEMMA Shortened ==
  ASSUME TableSound, NEW n \in 0 .. Len(order)
  PROVE  /\ OrderWithout(n) \in Seq(Entries) /\ Len(OrderWithout(n)) = Len(order) - n
         /\ \A i \in 1 .. Len(OrderWithout(n)) : i + n \in 1 .. Len(order) /\ OrderWithout(n)[i] = order[i + n]
<1>1. order \in Seq(Entries)  BY DEF TableSound
<1>2. QED  BY ONLY <1>1, n \in 0 .. Len(order), DroppedSeq DEF OrderWithout

LEMMA Moved ==
  ASSUME TableSound, NEW p \in 1 .. Len(order), NEW e \in Entries
  PROVE  /\ MoveToBack(p, e) \in Seq(Entries) /\ Len(MoveToBack(p, e)) = Len(order)
         /\ \A i \in 1 .. Len(order) : MoveToBack(p, e)[i] = IF i < p THEN order[i] ELSE IF i < Len(order) THEN order[i + 1] ELSE e
<1>0. PICK s : s = order  OBVIOUS
<1>a. s \in Seq(Entries) /\ p \in 1 .. Len(s) /\ Len(s) \in Nat  BY <1>0 DEF TableSound
<1>1. PICK a, b : a = SubSeq(s, 1, p - 1) /\ b = SubSeq(s, p + 1, Len(s))  OBVIOUS
<1>2. a \in Seq(Entries) /\ Len(a) = p - 1 /\ \A i \in 1 .. p - 1 : a[i] = s[i]  BY <1>a, <1>1
<1>3. b \in Seq(Entries) /\ Len(b) = Len(s) - p /\ \A i \in 1 .. Len(s) - p : b[i] = s[i + p]  BY <1>a, <1>1
<1>4. PICK c : c = a \o b  OBVIOUS
<1>5. c \in Seq(Entries) /\ Len(c) = Len(s) - 1
  <2>0. a \in Seq(Entries) /\ b \in Seq(Entries)  BY <1>2, <1>3
  <2>1. c \in Seq(Entries) /\ Len(c) = Len(a) + Len(b)  BY ONLY <2>0, <1>4
  <2>2. QED  BY <1>a, <1>2, <1>3, <2>1
<1>6. ASSUME NEW i \in 1 .. Len(s) - 1 PROVE c[i] = IF i < p THEN s[i] ELSE s[i + 1]
  <2>1. CASE i < p  BY <1>a, <1>2, <1>3, <1>4, <2>1
  <2>2. CASE i >= p
    <3>1. c[i] = b[i - Len(a)]  BY <1>a, <1>2, <1>3, <1>4, <2>2
    <3>2. i - (p - 1) \in 1 .. Len(s) - p  BY <1>a, <2>2
    <3>3. b[i - (p - 1)] = s[i - (p - 1) + p] /\ i - (p - 1) + p = i + 1  BY <1>a, <1>3, <3>2
    <3>4. QED  BY <1>a, <1>2, <2>2, <3>1, <3>3
  <2>3. QED  BY <1>a, <2>1, <2>2
<1>7. PICK t : t = Append(c, e)  OBVIOUS
<1>8. t \in Seq(Entries) /\ Len(t) = Len(c) + 1 /\ \A i \in 1 .. Len(t) : t[i] = IF i <= Len(c) THEN c[i] ELSE e
  BY ONLY <1>5, <1>7, e \in Entries, AppendedSeq
<1>9. ASSUME NEW i \in 1 .. Len(t) PROVE t[i] = IF i < p THEN s[i] ELSE IF i < Len(s) THEN s[i + 1] ELSE e
  BY <1>a, <1>5, <1>6, <1>8
<1>10. Len(t) = Len(s)  BY <1>a, <1>5, <1>8
<1>11. t = MoveToBack(p, e)  BY <1>0, <1>1, <1>4, <1>7 DEF MoveToBack
<1>12. QED  BY ONLY <1>0, <1>8, <1>9, <1>10, <1>11

\* The entry of a live token.
LEMMA EntryFound ==
  ASSUME NEW t \in LiveTokens
  PROVE  PlaceOf(t) \in 1 .. Len(order) /\ order[PlaceOf(t)].tok = t /\ EntryOf(t) = order[PlaceOf(t)]
<1>1. \E i \in 1 .. Len(order) : order[i].tok = t  BY DEF LiveTokens
<1>2. QED  BY <1>1 DEF PlaceOf, EntryOf

\* A set of numbers has a least one.
LEMMA LeastOf == ASSUME NEW T \in SUBSET Nat, T # {} PROVE \E n \in T : \A m \in T : n <= m
<1>1. PICK R : R = {x \in Nat \X Nat : x[1] < x[2]}  OBVIOUS
<1>2. IsWellFoundedOn(R, Nat)
  <2>1. OpToRel(<, Nat) = R  BY <1>1 DEF OpToRel
  <2>2. QED  BY <2>1, NatLessThanWellFounded
<1>3. PICK n \in T : \A m \in T : ~(<<m, n>> \in R)  BY <1>2, WFMin
<1>4. ASSUME NEW m \in T PROVE n <= m
  <2>1. m \in Nat /\ n \in Nat /\ <<m, n>> \notin R  BY <1>3
  <2>2. <<m, n>> \in Nat \X Nat /\ <<m, n>>[1] = m /\ <<m, n>>[2] = n  BY <2>1
  <2>3. ~(m < n)  BY <1>1, <2>1, <2>2
  <2>4. QED  BY <2>1, <2>3
<1>5. QED  BY <1>4

\* There is an expired prefix, and room is made for one more entry.
LEMMA PrefixThere ==
  ASSUME TableSound, NEW now \in Int
  PROVE  ExpiredPrefix(now) \in 0 .. Len(order)
<1>1. PICK T : T = {n \in 0 .. Len(order) : n < Len(order) => now <= order[n + 1].exp}  OBVIOUS
<1>2. Len(order) \in Nat /\ \A i \in 1 .. Len(order) : order[i].exp \in Int  BY EntryTypes
<1>3. Len(order) \in T /\ T \in SUBSET Nat  BY <1>1, <1>2
<1>4. PICK n \in T : \A m \in T : n <= m  BY <1>3, LeastOf
<1>5. n \in 0 .. Len(order) /\ (n < Len(order) => now <= order[n + 1].exp)  BY <1>1, <1>4
<1>6. ASSUME NEW i \in 1 .. n PROVE now > order[i].exp
  <2>1. i - 1 \in 0 .. Len(order) /\ i - 1 < Len(order) /\ i - 1 < n /\ i - 1 + 1 = i  BY <1>2, <1>5
  <2>2. i - 1 \notin T  BY <1>3, <1>4, <2>1
  <2>3. ~(now <= order[i].exp)  BY <1>1, <2>1, <2>2
  <2>4. QED  BY <1>2, <1>5, <2>3
<1>7. \E m \in 0 .. Len(order) : (\A i \in 1 .. m : now > order[i].exp) /\ (m < Len(order) => now <= order[m + 1].exp)
  BY <1>5, <1>6
<1>8. QED  BY <1>7 DEF ExpiredPrefix

LEMMA RoomMade ==
  ASSUME TableSound, NEW now \in Int
  PROVE  Evicted(now) \in 0 .. Len(order) /\ Len(order) - Evicted(now) < RelayMax
<1>1. Len(order) \in Nat /\ RelayMax \in Nat \ {0} /\ Len(order) <= RelayMax
  BY RelayAssumption DEF TableSound, Indexed
<1>2. QED  BY <1>1, PrefixThere DEF Evicted

\* A body that is passed through is none that ffmpeg would follow.
LEMMA PassedIsPlain == ASSUME NEW v \in Verdicts, v.what = "pass" PROVE v.followed = FALSE
<1>1. PICK b \in SentBodies : v = Verdict(b)  BY DEF Verdicts
<1>2. b \in RelayBodies /\ BodyOK(b)  BY DEF SentBodies
<1>3. ~LooksLikeDASH(b) /\ ~LooksLikePlaylist(b)  BY <1>1 DEF Verdict
<1>4. b.lead # "m3u"  BY <1>3 DEF LooksLikePlaylist
<1>5. ~(b.rootMPD /\ ~b.nul)  BY <1>2, <1>3 DEF LooksLikeDASH, MayBeDASH, RootIsMPDOrUnknown, BodyOK
<1>6. FollowedByFfmpeg(b) = FALSE  BY <1>4, <1>5 DEF FollowedByFfmpeg
<1>7. QED  BY <1>1, <1>6 DEF Verdict

\* A run that is over, or that has failed, is sound.
LEMMA OverSound ==
  ASSUME RInv, NEW l \in RelayPlaces
  PROVE  /\ Over(l) \in RunRecords
         /\ l \in {"idle", "end"} => RunSound(Over(l))
<1>1. "refused" \in RelayURLs  BY DEF RelayURLs, OwnURLs
<1>2. Over(l) \in RunRecords  BY <1>1 DEF Over, RunRecords
<1>3. relayClock \in Nat /\ minted \in Nat  BY DEF RInv, TableSound
<1>4. l \in {"idle", "end"} => RunSound(Over(l))  BY <1>3 DEF RunSound, Over, UnderWay
<1>5. QED  BY <1>2, <1>4

LEMMA StoppedSound ==
  ASSUME RInv, NEW i \in Runs, UnderWay(run[i]), run[i].at # "register" \/ run[i].top # 0
  PROVE  Stopped(run[i], "failed") \in RunRecords /\ RunSound(Stopped(run[i], "failed"))
<1>1. PICK r : r = run[i]  OBVIOUS
<1>2. r \in RunRecords /\ RunSound(r)  BY <1>1 DEF RInv
<1>3. PICK q : q = Stopped(r, "failed")  OBVIOUS
<1>4. "refused" \in RelayURLs  BY DEF RelayURLs, OwnURLs
<1>5. /\ q.at = "failed" /\ q.url = "refused" /\ q.own = FALSE /\ q.now = 0 /\ q.since = r.since /\ q.top = r.top /\ q.topURL = r.topURL
      /\ q.tok = 0 /\ q.toks = {} /\ q.left = 0 /\ q.fetched = 0 /\ q.hurt = r.hurt
  BY <1>3 DEF Stopped, Over
<1>6. q \in RunRecords
  BY <1>2, <1>3, <1>4 DEF RunRecords, RelayPlaces, Stopped, Over
<1>7. relayClock \in Nat /\ minted \in Nat  BY DEF RInv, TableSound
<1>8. RunSound(q)  BY <1>1, <1>2, <1>5, <1>7 DEF RunSound, UnderWay
<1>9. QED  BY <1>1, <1>3, <1>6, <1>8

\* A step that leaves the table alone and takes one run to a sound record.
LEMMA RunStep ==
  ASSUME RInv, NEW i \in Runs, NEW r \in RunRecords, RunSound(r), run' = [run EXCEPT ![i] = r],
         UNCHANGED <<order, byURL, minted, relayClock>>
  PROVE  RInv'
<1>1. TableSound'  BY DEF RInv, TableSound, EntriesPast, Indexed, EntryKey
<1>2. run' \in [Runs -> RunRecords]  BY DEF RInv
<1>3. ASSUME NEW j \in Runs PROVE RunSound(run[j])'
  <2>1. run'[j] = IF j = i THEN r ELSE run[j]  BY DEF RInv
  <2>2. PICK q : q = run'[j]  OBVIOUS
  <2>3. RunSound(q)  BY <2>1, <2>2 DEF RInv
  <2>4. QED  BY <2>2, <2>3 DEF RunSound, UnderWay
<1>4. QED  BY <1>1, <1>2, <1>3 DEF RInv

LEMMA InputKeeps == ASSUME RInv, NEW i \in Runs, Input(i) PROVE RInv'
<1>1. PICK u \in RelayURLs :
        run' = [run EXCEPT ![i] =
         CASE u = "local"   -> [Over("direct") EXCEPT !.url = u]
           [] u = "refused" -> Over("end")
           [] OTHER         -> [Over("register") EXCEPT !.url = u, !.topURL = u, !.own = (u = "relayed"),
                                                       !.now = relayClock, !.since = relayClock,
                                                       !.hurt = FailedNow(u)]]
  BY DEF Input
<1>2. UNCHANGED <<order, byURL, minted, relayClock>>  BY DEF Input
<1>3. relayClock \in Nat /\ minted \in Nat  BY DEF RInv, TableSound
<1>4. "refused" \in RelayURLs  BY DEF RelayURLs, OwnURLs
<1>5. CASE u = "local"
  <2>1. PICK q : q = [Over("direct") EXCEPT !.url = u]  OBVIOUS
  <2>2. q \in RunRecords  BY <1>4, <2>1 DEF Over, RunRecords, RelayPlaces
  <2>3. RunSound(q)  BY <1>3, <1>5, <2>1 DEF RunSound, Over, UnderWay
  <2>4. run' = [run EXCEPT ![i] = q]  BY <1>1, <1>5, <2>1
  <2>5. QED  BY <1>2, <2>2, <2>3, <2>4, RunStep
<1>6. CASE u = "refused"
  <2>1. run' = [run EXCEPT ![i] = Over("end")]  BY <1>1, <1>6
  <2>2. QED  BY <1>2, <2>1, OverSound, RunStep DEF RelayPlaces
<1>7. CASE u # "local" /\ u # "refused"
  <2>1. PICK w, h, c : w = (u = "relayed") /\ h = FailedNow(u) /\ c = relayClock  OBVIOUS
  <2>2. PICK q : /\ q = [Over("register") EXCEPT !.url = u, !.topURL = u, !.own = w, !.now = c, !.since = c, !.hurt = h]
                 /\ run' = [run EXCEPT ![i] = q]
    <3>1. run' = [run EXCEPT ![i] = [Over("register") EXCEPT !.url = u, !.topURL = u, !.own = (u = "relayed"),
                                                       !.now = relayClock, !.since = relayClock, !.hurt = FailedNow(u)]]
      BY <1>1, <1>7
    <3>2. QED  BY <2>1, <3>1
  <2>3. FailedNow(u) \in BOOLEAN  BY DEF FailedNow
  <2>4. /\ q \in RunRecords
        /\ q.at = "register" /\ q.url = u /\ q.own = w /\ q.now = c /\ q.since = c /\ q.top = 0 /\ q.topURL = u /\ q.tok = 0
        /\ q.hurt = h
    <3>1. w \in BOOLEAN /\ h \in BOOLEAN /\ c \in Nat  BY <1>3, <2>1, <2>3
    <3>2. QED  BY <2>2, <3>1 DEF Over, RunRecords, RelayPlaces
  <2>5. ASSUME NEW j \in 1 .. Len(order), order[j].url = u, order[j].fail >= relayClock PROVE FailedNow(u)
    <3>1. order[j].fail = relayClock  BY <1>3, <2>5, EntryTypes DEF RInv, TableSound, EntriesPast, Never
    <3>2. QED  BY <2>5, <3>1 DEF FailedNow
  <2>6. RunSound(q)
    <3>1. \A j \in 1 .. Len(order) : order[j].url = q.topURL /\ order[j].fail >= q.since => q.hurt  BY <2>1, <2>4, <2>5
    <3>2. q.own => q.url \in {"local", "relayed"}  BY <2>1, <2>4
    <3>3. QED  BY <1>3, <2>1, <2>4, <3>1, <3>2 DEF RunSound, UnderWay
  <2>7. QED  BY <1>2, <2>2, <2>4, <2>6, RunStep
<1>8. QED  BY <1>5, <1>6, <1>7

\* What registerAs makes of the table: every entry of the new one was there, but for its
\* expiry, or is the new one, and the token it answers with is that of the key.
FromOld(e, f) == e.tok = f.tok /\ e.url = f.url /\ e.own = f.own /\ e.fail = f.fail
Registered(k, now) ==
  /\ TableSound' /\ minted' \in Nat /\ minted <= minted' /\ TokenOf(k) \in 1 .. minted'
  /\ \A j \in 1 .. Len(order)' :
       \/ \E i \in 1 .. Len(order) : FromOld(order'[j], order[i])
       \/ order'[j].tok = minted + 1 /\ order'[j].url = k[1] /\ order'[j].fail = Never
  /\ \A j \in 1 .. Len(order)' : order'[j].tok = TokenOf(k) => order'[j].url = k[1]

LEMMA RefreshKeeps ==
  ASSUME TableSound, NEW k \in RelayKeys, byURL[k] # 0, NEW now \in 0 .. relayClock, Refresh(k, now), UNCHANGED relayClock
  PROVE  Registered(k, now)
<1>1. PICK p, e : /\ p = PlaceOf(byURL[k]) /\ e = [order[p] EXCEPT !.exp = now + RelayTTL] /\ order' = MoveToBack(p, e)
                  /\ UNCHANGED <<byURL, minted>>
  BY DEF Refresh, EntryOf
<1>2. PICK n : n = Len(order)  OBVIOUS
<1>3. n \in Nat /\ relayClock \in Nat /\ relayClock <= MaxRelayClock /\ RelayTTL \in Nat /\ MaxRelayClock \in Nat /\ minted \in Nat
  BY <1>2, EntryTypes, RelayAssumption DEF TableSound
<1>4. p \in 1 .. n /\ order[p].tok = byURL[k] /\ EntryKey(order[p]) = k
  <2>1. PICK i \in 1 .. n : EntryKey(order[i]) = k  BY <1>2 DEF TableSound, Indexed
  <2>2. order[i].tok = byURL[k]  BY <1>2, <2>1 DEF TableSound, Indexed
  <2>3. p \in 1 .. n /\ order[p].tok = byURL[k]  BY <1>1, <1>2, <2>2, EntryFound DEF LiveTokens
  <2>4. p = i  BY <1>2, <2>2, <2>3 DEF TableSound, Indexed
  <2>5. QED  BY <2>1, <2>3, <2>4
<1>5. e \in Entries /\ FromOld(e, order[p]) /\ e.exp = now + RelayTTL /\ EntryKey(e) = k
  <2>1. order[p] \in Entries  BY <1>2, <1>4, EntryTypes
  <2>2. PICK x : x = now + RelayTTL  OBVIOUS
  <2>3. x \in Int  BY <1>3, <2>2
  <2>4. QED  BY <1>1, <1>4, <2>1, <2>2, <2>3 DEF Entries, FromOld, EntryKey
<1>6. /\ order' \in Seq(Entries) /\ Len(order') = n
      /\ \A i \in 1 .. n : order'[i] = IF i < p THEN order[i] ELSE IF i < n THEN order[i + 1] ELSE e
  <2>2. p \in 1 .. Len(order)  BY <1>2, <1>4
  <2>3. /\ MoveToBack(p, e) \in Seq(Entries) /\ Len(MoveToBack(p, e)) = Len(order)
        /\ \A i \in 1 .. Len(order) : MoveToBack(p, e)[i] = IF i < p THEN order[i] ELSE IF i < Len(order) THEN order[i + 1] ELSE e
    BY <1>5, <2>2, Moved
  <2>4. order' = MoveToBack(p, e)  BY <1>1
  <2>5. QED  BY <1>2, <2>3, <2>4
<1>7. PICK at : at = [i \in 1 .. n |-> IF i < p THEN i ELSE IF i < n THEN i + 1 ELSE p]  OBVIOUS
<1>8. ASSUME NEW i \in 1 .. n
      PROVE  /\ at[i] \in 1 .. n /\ FromOld(order'[i], order[at[i]]) /\ order'[i].exp \in {order[at[i]].exp, now + RelayTTL}
             /\ EntryKey(order'[i]) = EntryKey(order[at[i]])
  <2>1. at[i] = IF i < p THEN i ELSE IF i < n THEN i + 1 ELSE p  BY <1>7
  <2>2. at[i] \in 1 .. n  BY <1>3, <1>4, <2>1
  <2>3. order'[i] = order[at[i]] \/ (order'[i] = e /\ at[i] = p)  BY <1>3, <1>4, <1>6, <2>1
  <2>4. QED  BY <1>5, <2>2, <2>3 DEF FromOld, EntryKey
<1>9. \A i, j \in 1 .. n : at[i] = at[j] => i = j  BY <1>3, <1>4, <1>7
<1>10. \A j \in 1 .. n : \E i \in 1 .. n : at[i] = j
  <2> SUFFICES ASSUME NEW j \in 1 .. n PROVE \E i \in 1 .. n : at[i] = j  OBVIOUS
  <2>1. CASE j < p  BY <1>3, <1>4, <1>7, <2>1
  <2>2. CASE j = p
    <3>1. n \in 1 .. n  BY <1>3, <1>4
    <3>2. at[n] = p  BY <1>3, <1>4, <1>7, <3>1
    <3>3. QED  BY <2>2, <3>1, <3>2
  <2>3. CASE j > p
    <3>1. j - 1 \in 1 .. n /\ ~(j - 1 < p) /\ j - 1 < n /\ j - 1 + 1 = j  BY <1>3, <1>4, <2>3
    <3>2. at[j - 1] = j  BY <1>7, <3>1
    <3>3. QED  BY <3>1, <3>2
  <2>4. QED  BY <1>3, <1>4, <2>1, <2>2, <2>3
<1>11. Indexed'
  <2>1. Len(order') <= RelayMax  BY <1>2, <1>6 DEF TableSound, Indexed
  <2>2. \A i \in 1 .. n : byURL'[EntryKey(order'[i])] = order'[i].tok
    <3> SUFFICES ASSUME NEW i \in 1 .. n PROVE byURL'[EntryKey(order'[i])] = order'[i].tok  OBVIOUS
    <3>1. byURL[EntryKey(order[at[i]])] = order[at[i]].tok  BY <1>2, <1>8 DEF TableSound, Indexed
    <3>2. QED  BY <1>1, <1>8, <3>1 DEF FromOld
  <2>3. ASSUME NEW i \in 1 .. n, NEW j \in 1 .. n, order'[i].tok = order'[j].tok PROVE i = j
    <3>1. order[at[i]].tok = order[at[j]].tok /\ at[i] \in 1 .. n /\ at[j] \in 1 .. n  BY <1>8, <2>3 DEF FromOld
    <3>2. at[i] = at[j]  BY <1>2, <3>1 DEF TableSound, Indexed
    <3>3. QED  BY <1>9, <3>2
  <2>4. \A x \in RelayKeys : byURL'[x] # 0 => \E i \in 1 .. n : EntryKey(order'[i]) = x
    <3> SUFFICES ASSUME NEW x \in RelayKeys, byURL'[x] # 0 PROVE \E i \in 1 .. n : EntryKey(order'[i]) = x  OBVIOUS
    <3>1. PICK j \in 1 .. n : EntryKey(order[j]) = x  BY <1>1, <1>2 DEF TableSound, Indexed
    <3>2. PICK i \in 1 .. n : at[i] = j  BY <1>10, <3>1
    <3>3. QED  BY <1>8, <3>1, <3>2
  <2>5. QED  BY <1>6, <2>1, <2>2, <2>3, <2>4 DEF Indexed, EntryKey
<1>12. EntriesPast'
  <2>1. now + RelayTTL \in 0 .. MaxRelayClock + RelayTTL  BY <1>3
  <2>2. \A i \in 1 .. n : order'[i].exp \in 0 .. MaxRelayClock + RelayTTL  BY <1>2, <1>8, <2>1 DEF TableSound, EntriesPast
  <2>3. \A i \in 1 .. n : order'[i].tok \in 1 .. minted /\ order'[i].fail \in Never .. relayClock
    BY <1>2, <1>8 DEF TableSound, EntriesPast, FromOld
  <2>4. minted' = minted /\ relayClock' = relayClock  BY <1>1
  <2>5. QED  BY <1>6, <2>2, <2>3, <2>4 DEF EntriesPast
<1>13. \A i \in 1 .. n : order'[i].own => order'[i].url \in {"local", "relayed"}  BY <1>2, <1>8 DEF TableSound, FromOld
<1>14. TableSound'  BY <1>1, <1>6, <1>11, <1>12, <1>13 DEF TableSound
<1>15. TokenOf(k) = byURL[k] /\ TokenOf(k) \in 1 .. minted  BY <1>3 DEF TokenOf, TableSound
<1>16. ASSUME NEW j \in 1 .. n, order'[j].tok = byURL[k] PROVE order'[j].url = k[1]
  <2>1. at[j] = p  BY <1>2, <1>4, <1>8, <1>16 DEF TableSound, Indexed, FromOld
  <2>2. QED  BY <1>4, <1>8, <2>1 DEF FromOld, EntryKey
<1>17. \A j \in 1 .. Len(order)' : \E i \in 1 .. Len(order) : FromOld(order'[j], order[i])  BY <1>2, <1>6, <1>8
<1>18. \A j \in 1 .. Len(order)' : order'[j].tok = TokenOf(k) => order'[j].url = k[1]  BY <1>6, <1>15, <1>16
<1>19. minted' = minted  BY <1>1
<1>20. QED  BY <1>3, <1>14, <1>15, <1>17, <1>18, <1>19 DEF Registered

\* Without its first n entries the table is as sound.
Dropped(n, s, b) ==
  /\ s \in Seq(Entries) /\ Len(s) = Len(order) - n /\ b \in [RelayKeys -> 0 .. minted]
  /\ \A i \in 1 .. Len(s) : i + n \in 1 .. Len(order) /\ s[i] = order[i + n] /\ b[EntryKey(s[i])] = s[i].tok
  /\ \A k \in RelayKeys : b[k] # 0 => b[k] = byURL[k] /\ \E i \in 1 .. Len(s) : EntryKey(s[i]) = k

LEMMA DropKeeps ==
  ASSUME TableSound, NEW n \in 0 .. Len(order)
  PROVE  \E s, b : Dropped(n, s, b) /\ s = OrderWithout(n) /\ b = ByURLWithout(n)
<1>1. PICK s, b : s = OrderWithout(n) /\ b = ByURLWithout(n)  OBVIOUS
<1>3. s \in Seq(Entries) /\ Len(s) = Len(order) - n /\ \A i \in 1 .. Len(s) : i + n \in 1 .. Len(order) /\ s[i] = order[i + n]
  BY <1>1, Shortened
<1>4. \A k \in RelayKeys : b[k] = IF \E i \in 1 .. n : EntryKey(order[i]) = k /\ order[i].tok = byURL[k] THEN 0 ELSE byURL[k]
  BY <1>1 DEF ByURLWithout
<1>5. b \in [RelayKeys -> 0 .. minted]  BY <1>1 DEF ByURLWithout, TableSound
<1>6. Len(order) \in Nat  BY EntryTypes
<1>7. ASSUME NEW i \in 1 .. Len(s) PROVE b[EntryKey(s[i])] = s[i].tok
  <2>1. PICK k : k = EntryKey(s[i])  OBVIOUS
  <2>2. i + n \in 1 .. Len(order) /\ s[i] = order[i + n]  BY <1>3
  <2>3. k \in RelayKeys /\ byURL[k] = order[i + n].tok  BY <2>1, <2>2, EntryTypes DEF TableSound, Indexed
  <2>4. ASSUME NEW j \in 1 .. n, order[j].tok = byURL[k] PROVE FALSE
    <3>1. j \in 1 .. Len(order)  BY <1>6
    <3>2. j = i + n  BY <2>2, <2>3, <2>4, <3>1 DEF TableSound, Indexed
    <3>3. Len(s) \in Nat  BY <1>3, <1>6
    <3>4. QED  BY <1>6, <3>2, <3>3
  <2>5. QED  BY <1>4, <2>1, <2>2, <2>3, <2>4
<1>8. ASSUME NEW k \in RelayKeys, b[k] # 0 PROVE b[k] = byURL[k] /\ \E i \in 1 .. Len(s) : EntryKey(s[i]) = k
  <2>1. b[k] = byURL[k] /\ ~\E i \in 1 .. n : EntryKey(order[i]) = k /\ order[i].tok = byURL[k]  BY <1>4, <1>8
  <2>2. PICK j \in 1 .. Len(order) : EntryKey(order[j]) = k  BY <1>8, <2>1 DEF TableSound, Indexed
  <2>3. order[j].tok = byURL[k]  BY <2>2 DEF TableSound, Indexed
  <2>4. ~(j <= n)  BY <1>6, <2>1, <2>2, <2>3
  <2>5. j - n \in 1 .. Len(s) /\ j - n + n = j  BY <1>3, <1>6, <2>4
  <2>6. s[j - n] = order[j]  BY <1>3, <2>5
  <2>7. QED  BY <2>1, <2>2, <2>5, <2>6
<1>9. Dropped(n, s, b)  BY <1>3, <1>5, <1>7, <1>8 DEF Dropped
<1>10. QED  BY <1>1, <1>9

LEMMA MintKeeps ==
  ASSUME TableSound, NEW k \in RelayKeys, byURL[k] = 0, NEW now \in 0 .. relayClock, Mint(k, now), UNCHANGED relayClock,
         k[2] => k[1] \in {"local", "relayed"}
  PROVE  Registered(k, now)
<1>1. PICK n, s, b, e, m :
        /\ n = Evicted(now) /\ s = OrderWithout(n) /\ b = ByURLWithout(n) /\ m = minted + 1
        /\ e = [tok |-> m, url |-> k[1], own |-> k[2], exp |-> now + RelayTTL, fail |-> Never]
        /\ order' = Append(s, e) /\ byURL' = [b EXCEPT ![k] = m] /\ minted' = m /\ minted < MaxMinted
  BY DEF Mint
<1>a. byURL' = [b EXCEPT ![k] = m]  BY <1>1
<1>2. /\ relayClock \in Nat /\ relayClock <= MaxRelayClock /\ RelayTTL \in Nat /\ MaxRelayClock \in Nat
      /\ minted \in Nat /\ MaxMinted \in Nat /\ RelayMax \in Nat /\ now \in Int /\ now >= 0 /\ now <= relayClock
      /\ m = minted + 1 /\ m \in Nat /\ m <= MaxMinted /\ minted' = m /\ relayClock' = relayClock
  BY <1>1, RelayAssumption DEF TableSound
<1>3. Len(order) \in Nat /\ n \in 0 .. Len(order) /\ Len(order) - n < RelayMax  BY <1>1, <1>2, RoomMade, EntryTypes
<1>4. /\ s \in Seq(Entries) /\ Len(s) = Len(order) - n /\ b \in [RelayKeys -> 0 .. minted]
      /\ \A i \in 1 .. Len(s) : i + n \in 1 .. Len(order) /\ s[i] = order[i + n] /\ b[EntryKey(s[i])] = s[i].tok
      /\ \A x \in RelayKeys : b[x] # 0 => b[x] = byURL[x] /\ \E i \in 1 .. Len(s) : EntryKey(s[i]) = x
  <2>1. Dropped(n, s, b)  BY <1>1, <1>3, DropKeeps
  <2>2. QED  BY <2>1 DEF Dropped
<1>5. /\ e \in Entries /\ e.tok = m /\ e.url = k[1] /\ e.own = k[2] /\ e.fail = Never /\ EntryKey(e) = k
      /\ e.exp \in 0 .. MaxRelayClock + RelayTTL
  <2>1. k[1] \in RelayURLs /\ k[2] \in BOOLEAN /\ k = <<k[1], k[2]>>  BY DEF RelayKeys
  <2>2. m \in Nat /\ now + RelayTTL \in Int /\ Never \in Int /\ now + RelayTTL \in 0 .. MaxRelayClock + RelayTTL
    BY <1>2 DEF Never
  <2>3. QED  BY <1>1, <2>1, <2>2 DEF Entries, EntryKey
<1>6. PICK l : l = Len(s) + 1  OBVIOUS
<1>7. /\ order' \in Seq(Entries) /\ Len(order') = l /\ l \in Nat /\ l <= RelayMax
      /\ \A i \in 1 .. l : order'[i] = IF i < l THEN s[i] ELSE e
  <2>1. PICK t : t = order'  OBVIOUS
  <2>2. t \in Seq(Entries) /\ Len(t) = Len(s) + 1 /\ \A i \in 1 .. Len(t) : t[i] = IF i <= Len(s) THEN s[i] ELSE e
    <3>1. s \in Seq(Entries) /\ e \in Entries /\ t = Append(s, e)  BY <1>1, <1>4, <1>5, <2>1
    <3>2. QED  BY ONLY <3>1, AppendedSeq
  <2>3. Len(s) \in Nat  BY <1>3, <1>4
  <2>4. QED  BY <1>2, <1>3, <1>4, <1>6, <2>1, <2>2, <2>3
<1>b. Len(s) \in Nat /\ l = Len(s) + 1 /\ l \in Nat /\ n \in Nat  BY <1>3, <1>4, <1>6
<1>8. b[k] = 0  BY <1>4
<1>9. \A i \in 1 .. l : \/ i < l /\ i \in 1 .. Len(s) /\ i + n \in 1 .. Len(order) /\ order'[i] = s[i] /\ s[i] = order[i + n]
                        \/ i = l /\ order'[i] = e
  <2> SUFFICES ASSUME NEW i \in 1 .. l
               PROVE  \/ i < l /\ i \in 1 .. Len(s) /\ i + n \in 1 .. Len(order) /\ order'[i] = s[i] /\ s[i] = order[i + n]
                      \/ i = l /\ order'[i] = e
    OBVIOUS
  <2>1. (i < l /\ i \in 1 .. Len(s)) \/ i = l  BY <1>b
  <2>2. order'[i] = IF i < l THEN s[i] ELSE e  BY <1>7
  <2>3. i \in 1 .. Len(s) => i + n \in 1 .. Len(order) /\ s[i] = order[i + n]  BY <1>4
  <2>4. QED  BY <1>b, <2>1, <2>2, <2>3
<1>10. \A i \in 1 .. Len(s) : s[i].tok \in 1 .. minted /\ EntryKey(s[i]) \in RelayKeys /\ EntryKey(s[i]) # k
  <2> SUFFICES ASSUME NEW i \in 1 .. Len(s) PROVE s[i].tok \in 1 .. minted /\ EntryKey(s[i]) \in RelayKeys /\ EntryKey(s[i]) # k
    OBVIOUS
  <2>1. s[i].tok \in 1 .. minted /\ EntryKey(s[i]) \in RelayKeys  BY <1>4, EntryTypes DEF TableSound, EntriesPast
  <2>2. b[EntryKey(s[i])] # 0  BY <1>2, <1>4, <2>1
  <2>3. QED  BY <1>8, <2>1, <2>2
<1>11. Indexed'
  <2>1. ASSUME NEW i \in 1 .. l PROVE byURL'[EntryKey(order'[i])] = order'[i].tok
    <3>1. CASE i < l  BY <1>a, <1>4, <1>9, <1>10, <3>1
    <3>2. CASE i = l  BY <1>a, <1>4, <1>5, <1>7, <1>9, <3>2
    <3>3. QED  BY <1>7, <3>1, <3>2
  <2>2. ASSUME NEW i \in 1 .. l, NEW j \in 1 .. l, order'[i].tok = order'[j].tok PROVE i = j
    <3>1. CASE i < l /\ j < l
      <4>1. i + n = j + n  BY <1>9, <2>2, <3>1 DEF TableSound, Indexed
      <4>2. QED  BY <1>b, <4>1
    <3>2. CASE i < l /\ j = l
      <4>1. order'[i].tok \in 1 .. minted /\ order'[j].tok = m  BY <1>5, <1>9, <1>10, <3>2
      <4>2. QED  BY <1>2, <2>2, <4>1
    <3>3. CASE i = l /\ j < l
      <4>1. order'[j].tok \in 1 .. minted  BY <1>9, <1>10, <3>3
      <4>3. order'[i].tok = m  BY <1>5, <1>9, <3>3
      <4>4. QED  BY <1>2, <2>2, <4>1, <4>3
    <3>4. QED  BY <1>7, <3>1, <3>2, <3>3
  <2>3. ASSUME NEW x \in RelayKeys, byURL'[x] # 0 PROVE \E i \in 1 .. l : EntryKey(order'[i]) = x
    <3>1. CASE x = k
      <4>1. l \in 1 .. l /\ order'[l] = e  BY <1>3, <1>4, <1>6, <1>7
      <4>2. QED  BY <1>5, <3>1, <4>1
    <3>2. CASE x # k
      <4>1. b[x] # 0  BY <1>a, <1>4, <2>3, <3>2
      <4>2. PICK i \in 1 .. Len(s) : EntryKey(s[i]) = x  BY <1>4, <4>1
      <4>3. i \in 1 .. l /\ order'[i] = s[i]  BY <1>3, <1>4, <1>6, <1>7
      <4>4. QED  BY <4>2, <4>3
    <3>3. QED  BY <3>1, <3>2
  <2>4. QED  BY <1>7, <2>1, <2>2, <2>3 DEF Indexed, EntryKey
<1>12. ASSUME NEW i \in 1 .. l
       PROVE  /\ order'[i].tok \in 1 .. m /\ order'[i].exp \in 0 .. MaxRelayClock + RelayTTL /\ order'[i].fail \in Never .. relayClock
              /\ order'[i].own => order'[i].url \in {"local", "relayed"}
              /\ \/ \E j \in 1 .. Len(order) : FromOld(order'[i], order[j])
                 \/ order'[i].tok = m /\ order'[i].url = k[1] /\ order'[i].fail = Never
  <2>1. CASE i < l
    <3>1. i + n \in 1 .. Len(order) /\ order'[i] = order[i + n]  BY <1>9, <2>1
    <3>2. /\ order'[i].tok \in 1 .. minted /\ order'[i].exp \in 0 .. MaxRelayClock + RelayTTL /\ order'[i].fail \in Never .. relayClock
          /\ order'[i].own => order'[i].url \in {"local", "relayed"}
      BY <3>1 DEF TableSound, EntriesPast
    <3>3. order'[i].tok \in 1 .. m  BY <1>a, <1>2, <3>2
    <3>4. \E j \in 1 .. Len(order) : FromOld(order'[i], order[j])  BY <3>1 DEF FromOld
    <3>5. QED  BY <3>2, <3>3, <3>4
  <2>2. CASE i = l
    <3>1. order'[i] = e  BY <1>7, <2>2
    <3>2. m \in 1 .. m /\ Never \in Never .. relayClock  BY <1>a, <1>2 DEF Never
    <3>3. QED  BY <1>5, <3>1, <3>2
  <2>3. QED  BY <1>7, <2>1, <2>2
<1>13. EntriesPast'
  <2>1. minted' = m /\ relayClock' = relayClock  BY <1>1
  <2>2. QED  BY <1>7, <1>12, <2>1 DEF EntriesPast
<1>14. TableSound'
  <2>1. byURL' \in [RelayKeys -> 0 .. m] /\ m \in 0 .. MaxMinted /\ m \in Nat
    <3>1. m \in 0 .. m /\ m \in 0 .. MaxMinted /\ \A x \in 0 .. minted : x \in 0 .. m  BY <1>a, <1>2
    <3>2. b \in [RelayKeys -> 0 .. m]  BY <1>4, <3>1
    <3>3. QED  BY <1>a, <1>2, <3>1, <3>2
  <2>2. \A i \in 1 .. l : order'[i].own => order'[i].url \in {"local", "relayed"}  BY <1>12
  <2>3. minted' = m /\ relayClock' \in 0 .. MaxRelayClock  BY <1>2 DEF TableSound
  <2>4. QED  BY <1>7, <1>11, <1>13, <2>1, <2>2, <2>3 DEF TableSound
<1>15. TokenOf(k) = m /\ m \in 1 .. m /\ minted <= m /\ m \in Nat  BY <1>a, <1>2 DEF TokenOf
<1>16. ASSUME NEW j \in 1 .. l, order'[j].tok = m PROVE order'[j].url = k[1]
  <2>1. CASE j < l  BY <1>a, <1>2, <1>9, <1>10, <1>16, <2>1
  <2>2. CASE j = l  BY <1>5, <1>9, <2>2
  <2>3. QED  BY <1>7, <2>1, <2>2
<1>17. \A j \in 1 .. Len(order)' :
       \/ \E i \in 1 .. Len(order) : FromOld(order'[j], order[i])
       \/ order'[j].tok = minted + 1 /\ order'[j].url = k[1] /\ order'[j].fail = Never
  BY <1>2, <1>7, <1>12
<1>18. QED  BY <1>2, <1>7, <1>14, <1>15, <1>16, <1>17 DEF Registered

\* A sound run stays so when registerAs has changed the table.
LEMMA RegisteredRuns ==
  ASSUME RInv, NEW k \in RelayKeys, NEW now, Registered(k, now), relayClock' = relayClock, NEW r \in RunRecords, RunSound(r)
  PROVE  RunSound(r)'
<1>1. minted \in Nat /\ relayClock \in Nat /\ minted' \in Nat /\ minted <= minted'  BY DEF RInv, TableSound, Registered
<1>2. /\ r.top \in Nat /\ r.tok \in Nat /\ r.since \in Nat /\ r.now \in Nat /\ r.top <= minted /\ r.tok <= minted
  BY DEF RunRecords, RunSound
<1>3. ASSUME NEW j \in 1 .. Len(order)', order'[j].tok \in 0 .. minted
      PROVE  \E i \in 1 .. Len(order) : FromOld(order'[j], order[i])
  BY <1>1, <1>3 DEF Registered
<1>4. ASSUME NEW j \in 1 .. Len(order)', order'[j].fail >= r.since
      PROVE  \E i \in 1 .. Len(order) : FromOld(order'[j], order[i])
  BY <1>2, <1>4 DEF Registered, Never
<1>5. UnderWay(r) /\ r.top # 0 => \A j \in 1 .. Len(order)' : order'[j].tok = r.top => order'[j].url = r.topURL
  <2> SUFFICES ASSUME UnderWay(r), r.top # 0, NEW j \in 1 .. Len(order)', order'[j].tok = r.top PROVE order'[j].url = r.topURL
    OBVIOUS
  <2>1. r.top \in 0 .. minted  BY <1>1, <1>2
  <2>2. PICK i \in 1 .. Len(order) : FromOld(order'[j], order[i])  BY <1>3, <2>1
  <2>3. QED  BY <2>2 DEF RunSound, FromOld
<1>6. r.at \in {"fetch", "copy"} => \A j \in 1 .. Len(order)' : order'[j].tok = r.tok => order'[j].url = r.url
  <2> SUFFICES ASSUME r.at \in {"fetch", "copy"}, NEW j \in 1 .. Len(order)', order'[j].tok = r.tok PROVE order'[j].url = r.url
    OBVIOUS
  <2>1. r.tok \in 0 .. minted  BY <1>1, <1>2
  <2>2. PICK i \in 1 .. Len(order) : FromOld(order'[j], order[i])  BY <1>3, <2>1
  <2>3. QED  BY <2>2 DEF RunSound, FromOld
<1>7. UnderWay(r) => \A j \in 1 .. Len(order)' : order'[j].url = r.topURL /\ order'[j].fail >= r.since => r.hurt
  <2> SUFFICES ASSUME UnderWay(r), NEW j \in 1 .. Len(order)', order'[j].url = r.topURL, order'[j].fail >= r.since PROVE r.hurt
    OBVIOUS
  <2>1. PICK i \in 1 .. Len(order) : FromOld(order'[j], order[i])  BY <1>4
  <2>2. QED  BY <2>1 DEF RunSound, FromOld
<1>8. r.now <= relayClock' /\ r.since <= relayClock' /\ r.tok <= minted' /\ r.top <= minted'  BY <1>1, <1>2 DEF RunSound
<1>9. QED  BY <1>5, <1>6, <1>7, <1>8 DEF RunSound, UnderWay

LEMMA NestedOwn ==
  ASSUME NEW u \in NamedURLs, NEW own \in BOOLEAN, Nested(u, own).ok
  PROVE  u \in RelayURLs /\ Nested(u, own).own \in BOOLEAN /\ (Nested(u, own).own => u \in {"local", "relayed"})
<1>1. ~(own /\ u = "refused") /\ Nested(u, own).own = (own /\ u \in OwnURLs)  BY DEF Nested
<1>2. QED  BY <1>1 DEF NamedURLs, OwnURLs

LEMMA RegistersKeeps == ASSUME RInv, NEW i \in Runs, Registers(i) PROVE RInv'
<1>1. PICK r, k, t, top : /\ r = run[i] /\ k = <<r.url, r.own>> /\ t = TokenOf(k) /\ top = (IF r.top = 0 THEN t ELSE r.top)
  OBVIOUS
<1>2. r.at = "register" /\ RegisterAs(k, r.now) /\ relayClock' = relayClock  BY <1>1 DEF Registers
<1>3. r \in RunRecords /\ RunSound(r) /\ TableSound /\ relayClock \in Nat  BY <1>1 DEF RInv, TableSound
<1>4. /\ r.now \in 0 .. relayClock /\ r.url \in RelayURLs /\ r.own \in BOOLEAN /\ r.top \in Nat /\ r.toks \in SUBSET Nat
      /\ r.left \in Nat /\ r.topURL \in RelayURLs
  BY <1>3 DEF RunRecords, RunSound
<1>5. k \in RelayKeys /\ k[1] = r.url /\ k[2] = r.own /\ (r.own => r.url \in {"local", "relayed"})
  BY <1>1, <1>2, <1>3, <1>4 DEF RelayKeys, RunSound
<1>6. Registered(k, r.now)
  <2>1. CASE byURL[k] # 0  BY <1>2, <1>3, <1>4, <1>5, <2>1, RefreshKeeps DEF RegisterAs
  <2>2. CASE byURL[k] = 0  BY <1>2, <1>3, <1>4, <1>5, <2>2, MintKeeps DEF RegisterAs
  <2>3. QED  BY <2>1, <2>2
<1>7. t \in Nat /\ t # 0 /\ t <= minted' /\ minted' \in Nat /\ \A j \in 1 .. Len(order)' : order'[j].tok = t => order'[j].url = r.url
  BY <1>1, <1>5, <1>6 DEF Registered
<1>8. RunSound(r)'
  BY <1>2, <1>3, <1>5, <1>6, RegisteredRuns
<1>9. top \in Nat /\ top # 0 /\ top <= minted' /\ \A j \in 1 .. Len(order)' : order'[j].tok = top => order'[j].url = r.topURL
  <2>1. CASE r.top = 0
    <3>1. r.url = r.topURL  BY <1>2, <1>3, <2>1 DEF RunSound, UnderWay
    <3>2. QED  BY <1>1, <1>7, <2>1, <3>1
  <2>2. CASE r.top # 0
    <3>1. /\ r.top <= minted' /\ \A j \in 1 .. Len(order)' : order'[j].tok = r.top => order'[j].url = r.topURL
      BY <1>2, <1>8, <2>2 DEF RunSound, UnderWay
    <3>2. QED  BY <1>1, <1>4, <2>2, <3>1
  <2>3. QED  BY <2>1, <2>2
<1>10. PICK q \in RunRecords : RunSound(q)' /\ run' = [run EXCEPT ![i] = q]
  <2>1. CASE /\ r.left = 0
             /\ run' = [run EXCEPT ![i] = [r EXCEPT !.at = "pull", !.top = top, !.toks = @ \cup {t}, !.url = "refused", !.own = FALSE, !.now = 0]]
    <3>1. PICK T : T = r.toks \cup {t}  OBVIOUS
    <3>2. PICK q : q = [r EXCEPT !.at = "pull", !.top = top, !.toks = T, !.url = "refused", !.own = FALSE, !.now = 0]  OBVIOUS
    <3>3. "refused" \in RelayURLs /\ T \in SUBSET Nat  BY <1>4, <1>7, <3>1 DEF RelayURLs, OwnURLs
    <3>4. /\ q \in RunRecords /\ q.at = "pull" /\ q.top = top /\ q.own = FALSE /\ q.now = 0 /\ q.topURL = r.topURL /\ q.tok = r.tok
          /\ q.since = r.since /\ q.hurt = r.hurt
      BY <1>3, <1>9, <3>2, <3>3 DEF RunRecords, RelayPlaces
    <3>5. RunSound(q)'
      BY <1>2, <1>3, <1>8, <1>9, <3>4 DEF RunSound, UnderWay
    <3>6. run' = [run EXCEPT ![i] = q]  BY <2>1, <3>1, <3>2
    <3>7. QED  BY <3>4, <3>5, <3>6
  <2>2. CASE /\ r.left > 0
             /\ \E u \in NamedURLs : LET n == Nested(u, r.own) IN
                 /\ n.ok
                 /\ run' = [run EXCEPT ![i] = [r EXCEPT !.top = top, !.toks = @ \cup {t}, !.url = u, !.own = n.own,
                                                    !.left = @ - 1, !.now = relayClock]]
    <3>1. PICK u \in NamedURLs : /\ Nested(u, r.own).ok
                                 /\ run' = [run EXCEPT ![i] = [r EXCEPT !.top = top, !.toks = @ \cup {t}, !.url = u, !.own = Nested(u, r.own).own,
                                                    !.left = @ - 1, !.now = relayClock]]
      BY <2>2
    <3>2. PICK T, o, l, c : T = r.toks \cup {t} /\ o = Nested(u, r.own).own /\ l = r.left - 1 /\ c = relayClock  OBVIOUS
    <3>3. PICK q : q = [r EXCEPT !.top = top, !.toks = T, !.url = u, !.own = o, !.left = l, !.now = c]  OBVIOUS
    <3>4. u \in RelayURLs /\ o \in BOOLEAN /\ (o => u \in {"local", "relayed"}) /\ T \in SUBSET Nat /\ l \in Nat /\ c \in Nat
      BY <1>3, <1>4, <1>7, <2>2, <3>1, <3>2, NestedOwn
    <3>5. /\ q \in RunRecords /\ q.at = "register" /\ q.top = top /\ q.own = o /\ q.url = u /\ q.now = c /\ q.topURL = r.topURL
          /\ q.tok = r.tok /\ q.since = r.since /\ q.hurt = r.hurt
      BY <1>2, <1>3, <1>9, <3>3, <3>4 DEF RunRecords, RelayPlaces
    <3>6. RunSound(q)'
      BY <1>2, <1>3, <1>8, <1>9, <3>2, <3>4, <3>5 DEF RunSound, UnderWay
    <3>7. run' = [run EXCEPT ![i] = q]  BY <3>1, <3>2, <3>3
    <3>8. QED  BY <3>5, <3>6, <3>7
  <2>3. QED  BY <1>1, <2>1, <2>2 DEF Registers
<1>11. run' \in [Runs -> RunRecords]  BY <1>10 DEF RInv
<1>12. ASSUME NEW j \in Runs PROVE RunSound(run[j])'
  <2>1. PICK x : x = run'[j]  OBVIOUS
  <2>2. x = IF j = i THEN q ELSE run[j]  BY <1>10, <2>1 DEF RInv
  <2>3. CASE j = i  BY <1>10, <2>1, <2>2, <2>3 DEF RunSound, UnderWay
  <2>4. CASE j # i
    <3>1. x \in RunRecords /\ RunSound(x)  BY <2>2, <2>4 DEF RInv
    <3>2. RunSound(x)'  BY <1>2, <1>5, <1>6, <3>1, RegisteredRuns
    <3>3. QED  BY <2>1, <3>2 DEF RunSound, UnderWay
  <2>5. QED  BY <2>3, <2>4
<1>13. QED  BY <1>6, <1>11, <1>12 DEF RInv, Registered

\* A sound run stays so when entries are taken off the table.
LEMMA SweepKeeps == ASSUME RInv, RelaySweep PROVE RInv'
<1>1. PICK n : n = ExpiredPrefix(relayClock)  OBVIOUS
<1>2. n \in 0 .. Len(order) /\ TableSound /\ Len(order) \in Nat /\ n \in Nat
  BY <1>1, PrefixThere, EntryTypes DEF RInv, TableSound
<1>3. order' = OrderWithout(n) /\ byURL' = ByURLWithout(n) /\ UNCHANGED <<minted, relayClock, run>>  BY <1>1 DEF RelaySweep
<1>4. Dropped(n, order', byURL')  BY <1>2, <1>3, DropKeeps
<1>5. /\ order' \in Seq(Entries) /\ Len(order') = Len(order) - n /\ byURL' \in [RelayKeys -> 0 .. minted]
      /\ \A i \in 1 .. Len(order') : i + n \in 1 .. Len(order) /\ order'[i] = order[i + n]
  BY <1>4 DEF Dropped
<1>6. Indexed'
  <2>1. Len(order') <= RelayMax  BY <1>2, <1>5, RelayAssumption DEF TableSound, Indexed
  <2>2. \A i \in 1 .. Len(order') : byURL'[EntryKey(order'[i])] = order'[i].tok  BY <1>4 DEF Dropped
  <2>3. ASSUME NEW i \in 1 .. Len(order'), NEW j \in 1 .. Len(order'), order'[i].tok = order'[j].tok PROVE i = j
    <3>1. i + n \in 1 .. Len(order) /\ j + n \in 1 .. Len(order) /\ order[i + n].tok = order[j + n].tok  BY <1>5, <2>3
    <3>2. i + n = j + n  BY <1>2, <3>1 DEF TableSound, Indexed
    <3>3. i \in Int /\ j \in Int  BY <1>2, <1>5
    <3>4. QED  BY <1>2, <3>2, <3>3
  <2>4. \A k \in RelayKeys : byURL'[k] # 0 => \E i \in 1 .. Len(order') : EntryKey(order'[i]) = k  BY <1>4 DEF Dropped
  <2>5. QED  BY <2>1, <2>2, <2>3, <2>4 DEF Indexed, EntryKey
<1>7. EntriesPast'  BY <1>2, <1>3, <1>5 DEF TableSound, EntriesPast
<1>8. TableSound'
  <2>1. \A i \in 1 .. Len(order') : order'[i].own => order'[i].url \in {"local", "relayed"}  BY <1>2, <1>5 DEF TableSound
  <2>2. QED  BY <1>2, <1>3, <1>5, <1>6, <1>7, <2>1 DEF TableSound
<1>9. ASSUME NEW j \in Runs PROVE RunSound(run[j])'
  <2>1. PICK r : r = run[j]  OBVIOUS
  <2>2. RunSound(r) /\ run'[j] = r  BY <1>3, <2>1 DEF RInv
  <2>3. \A a \in 1 .. Len(order') : \E b \in 1 .. Len(order) : order'[a] = order[b]  BY <1>5
  <2>4. relayClock' = relayClock /\ minted' = minted  BY <1>3
  <2>5. RunSound(r)'  BY <2>2, <2>3, <2>4 DEF RunSound, UnderWay
  <2>6. QED  BY <2>2, <2>5 DEF RunSound, UnderWay
<1>10. run' \in [Runs -> RunRecords]  BY <1>3 DEF RInv
<1>11. QED  BY <1>8, <1>9, <1>10 DEF RInv

LEMMA PassesKeeps == ASSUME RInv, Passes PROVE RInv'
<1>1. /\ relayClock' = relayClock + 1 /\ relayClock < MaxRelayClock /\ UNCHANGED <<order, byURL, minted, run>>
      /\ relayClock \in Nat /\ MaxRelayClock \in Nat
  BY RelayAssumption DEF Passes, RInv, TableSound
<1>2. EntriesPast'  BY <1>1 DEF RInv, TableSound, EntriesPast, Never
<1>3. TableSound'  BY <1>1, <1>2 DEF RInv, TableSound, Indexed, EntryKey
<1>4. ASSUME NEW j \in Runs PROVE RunSound(run[j])'
  <2>1. PICK r : r = run[j]  OBVIOUS
  <2>2. RunSound(r) /\ run'[j] = r /\ r \in RunRecords  BY <1>1, <2>1 DEF RInv
  <2>3. r.now \in Nat /\ r.since \in Nat  BY <2>2 DEF RunRecords
  <2>4. QED  BY <1>1, <2>2, <2>3 DEF RunSound, UnderWay
<1>5. QED  BY <1>1, <1>3, <1>4 DEF RInv

\* What a handler knows of its run.
LEMMA RunKnown ==
  ASSUME RInv, NEW i \in Runs
  PROVE  /\ run[i] \in RunRecords /\ RunSound(run[i]) /\ run[i].at \in RelayPlaces /\ run[i].url \in RelayURLs /\ run[i].own \in BOOLEAN
         /\ run[i].toks \in SUBSET Nat /\ run[i].fetched \in Nat /\ run[i].tok \in Nat /\ run[i].top \in Nat /\ run[i].since \in Nat
         /\ run[i].hurt \in BOOLEAN
         /\ run[i].at \in {"pull", "fetch", "copy", "failed", "blamed"} => UnderWay(run[i]) /\ run[i].top # 0
<1>1. PICK r : r = run[i]  OBVIOUS
<1>2. r \in RunRecords /\ RunSound(r)  BY <1>1 DEF RInv
<1>3. /\ r.at \in RelayPlaces /\ r.url \in RelayURLs /\ r.own \in BOOLEAN /\ r.toks \in SUBSET Nat /\ r.fetched \in Nat
      /\ r.tok \in Nat /\ r.top \in Nat /\ r.since \in Nat /\ r.hurt \in BOOLEAN
  BY <1>2 DEF RunRecords
<1>4. r.at \in {"pull", "fetch", "copy", "failed", "blamed"} => UnderWay(r) /\ r.top # 0  BY <1>2, <1>3 DEF RunSound, UnderWay
<1>5. QED  BY <1>1, <1>2, <1>3, <1>4

LEMMA HandleKeeps == ASSUME RInv, NEW i \in Runs, Handle(i) PROVE RInv'
<1>1. PICK r : r = run[i]  OBVIOUS
<1>2. r.at = "pull" /\ UNCHANGED <<order, byURL, minted, relayClock>>  BY <1>1 DEF Handle
<1>3. r \in RunRecords /\ RunSound(r) /\ UnderWay(r) /\ r.top # 0 /\ r.fetched \in Nat  BY <1>1, <1>2, RunKnown
<1>4. PICK t \in r.toks :
       run' = [run EXCEPT ![i] =
         IF t \in LiveTokens /\ relayClock <= EntryOf(t).exp /\ r.fetched < MaxFetched
         THEN [r EXCEPT !.at = "fetch", !.tok = t, !.url = EntryOf(t).url, !.own = EntryOf(t).own, !.fetched = @ + 1]
         ELSE Stopped(r, "failed")]
  BY <1>1 DEF Handle
<1>5. CASE t \in LiveTokens /\ relayClock <= EntryOf(t).exp /\ r.fetched < MaxFetched
  <2>1. PICK p, u, o, f : p = PlaceOf(t) /\ u = order[p].url /\ o = order[p].own /\ f = r.fetched + 1  OBVIOUS
  <2>2. p \in 1 .. Len(order) /\ order[p].tok = t /\ EntryOf(t) = order[p]  BY <1>5, <2>1, EntryFound
  <2>3. t \in Nat /\ t <= minted /\ u \in RelayURLs /\ o \in BOOLEAN /\ f \in Nat /\ (o => u \in {"local", "relayed"})
    BY <1>3, <2>1, <2>2, EntryTypes DEF RInv, TableSound, EntriesPast
  <2>4. PICK q : q = [r EXCEPT !.at = "fetch", !.tok = t, !.url = u, !.own = o, !.fetched = f]  OBVIOUS
  <2>5. run' = [run EXCEPT ![i] = q]  BY <1>4, <1>5, <2>1, <2>2, <2>4
  <2>6. /\ q \in RunRecords /\ q.at = "fetch" /\ q.tok = t /\ q.url = u /\ q.own = o /\ q.now = r.now /\ q.since = r.since
        /\ q.top = r.top /\ q.topURL = r.topURL /\ q.hurt = r.hurt
    BY <1>3, <2>3, <2>4 DEF RunRecords, RelayPlaces
  <2>7. \A j \in 1 .. Len(order) : order[j].tok = t => order[j].url = u  BY <2>1, <2>2 DEF RInv, TableSound, Indexed
  <2>8. RunSound(q)  BY <1>3, <2>3, <2>6, <2>7 DEF RunSound, UnderWay
  <2>9. QED  BY <1>2, <2>5, <2>6, <2>8, RunStep
<1>6. CASE ~(t \in LiveTokens /\ relayClock <= EntryOf(t).exp /\ r.fetched < MaxFetched)
  <2>1. run' = [run EXCEPT ![i] = Stopped(r, "failed")]  BY <1>4, <1>6
  <2>2. Stopped(r, "failed") \in RunRecords /\ RunSound(Stopped(r, "failed"))  BY <1>1, <1>3, StoppedSound
  <2>3. QED  BY <1>2, <2>1, <2>2, RunStep
<1>7. QED  BY <1>5, <1>6

\* A run that goes on to register something else, and one that fails or ends.
LEMMA GoesRegister ==
  ASSUME RInv, NEW i \in Runs, run[i].at = "fetch", NEW u \in NamedURLs, NEW own \in BOOLEAN, NEW n \in Nat,
         own => u \in {"local", "relayed"},
         run' = [run EXCEPT ![i] = [run[i] EXCEPT !.at = "register", !.tok = 0, !.toks = {}, !.url = u, !.own = own,
                                                  !.left = n, !.now = relayClock]],
         UNCHANGED <<order, byURL, minted, relayClock>>
  PROVE  RInv'
<1>1. PICK r, c : r = run[i] /\ c = relayClock  OBVIOUS
<1>2. r \in RunRecords /\ RunSound(r) /\ UnderWay(r) /\ r.top # 0 /\ c \in Nat  BY <1>1, RunKnown DEF RInv, TableSound
<1>3. u \in RelayURLs  BY DEF NamedURLs
<1>4. PICK q : q = [r EXCEPT !.at = "register", !.tok = 0, !.toks = {}, !.url = u, !.own = own, !.left = n, !.now = c]  OBVIOUS
<1>5. run' = [run EXCEPT ![i] = q]  BY <1>1, <1>4
<1>6. /\ q \in RunRecords /\ q.at = "register" /\ q.tok = 0 /\ q.url = u /\ q.own = own /\ q.now = c /\ q.since = r.since
      /\ q.top = r.top /\ q.topURL = r.topURL /\ q.hurt = r.hurt
  BY <1>2, <1>3, <1>4 DEF RunRecords, RelayPlaces
<1>7. minted \in Nat  BY DEF RInv, TableSound
<1>8. RunSound(q)  BY <1>1, <1>2, <1>6, <1>7 DEF RunSound, UnderWay
<1>9. QED  BY <1>5, <1>6, <1>8, RunStep

LEMMA GoesFailed ==
  ASSUME RInv, NEW i \in Runs, run[i].at \in {"pull", "fetch", "copy"}, run' = [run EXCEPT ![i] = Stopped(run[i], "failed")],
         UNCHANGED <<order, byURL, minted, relayClock>>
  PROVE  RInv'
<1>1. UnderWay(run[i]) /\ run[i].top # 0  BY RunKnown
<1>2. PICK q : q = Stopped(run[i], "failed")  OBVIOUS
<1>3. q \in RunRecords /\ RunSound(q) /\ run' = [run EXCEPT ![i] = q]  BY <1>1, <1>2, StoppedSound
<1>4. QED  BY <1>3, RunStep

LEMMA GoesOver ==
  ASSUME RInv, NEW i \in Runs, run' = [run EXCEPT ![i] = Over("end")], UNCHANGED <<order, byURL, minted, relayClock>>
  PROVE  RInv'
<1>1. Over("end") \in RunRecords /\ RunSound(Over("end"))  BY OverSound DEF RelayPlaces
<1>2. QED  BY <1>1, RunStep

LEMMA RedirectsOwnKeeps == ASSUME RInv, NEW i \in Runs, RedirectsOwn(i) PROVE RInv'
<1>1. run[i].at = "fetch" /\ run[i].own /\ UNCHANGED <<order, byURL, minted, relayClock>>  BY DEF RedirectsOwn
<1>2. PICK u \in NamedURLs :
       run' = [run EXCEPT ![i] = IF Nested(u, TRUE).ok
                                 THEN [run[i] EXCEPT !.at = "register", !.tok = 0, !.toks = {}, !.url = u, !.own = Nested(u, TRUE).own, !.now = relayClock]
                                 ELSE Stopped(run[i], "failed")]
  BY DEF RedirectsOwn
<1>3. CASE ~Nested(u, TRUE).ok  BY <1>1, <1>2, <1>3, GoesFailed
<1>4. CASE Nested(u, TRUE).ok
  <2>1. PICK r, o, c : r = run[i] /\ o = Nested(u, TRUE).own /\ c = relayClock  OBVIOUS
  <2>2. r \in RunRecords /\ RunSound(r) /\ UnderWay(r) /\ r.top # 0 /\ c \in Nat /\ minted \in Nat  BY <1>1, <2>1, RunKnown DEF RInv, TableSound
  <2>3. u \in RelayURLs /\ o \in BOOLEAN /\ (o => u \in {"local", "relayed"})  BY <1>4, <2>1, NestedOwn
  <2>4. PICK q : q = [r EXCEPT !.at = "register", !.tok = 0, !.toks = {}, !.url = u, !.own = o, !.now = c]  OBVIOUS
  <2>5. run' = [run EXCEPT ![i] = q]  BY <1>2, <1>4, <2>1, <2>4
  <2>6. /\ q \in RunRecords /\ q.at = "register" /\ q.tok = 0 /\ q.url = u /\ q.own = o /\ q.now = c /\ q.since = r.since
        /\ q.top = r.top /\ q.topURL = r.topURL /\ q.hurt = r.hurt
    BY <2>2, <2>3, <2>4 DEF RunRecords, RelayPlaces
  <2>7. RunSound(q)
    <3>1. UnderWay(q)  BY <2>6 DEF UnderWay
    <3>2. q.now <= relayClock  BY <2>1, <2>2, <2>6
    <3>3. QED  BY <2>2, <2>3, <2>6, <3>1, <3>2 DEF RunSound
  <2>8. QED  BY <1>1, <2>5, <2>6, <2>7, RunStep
<1>5. QED  BY <1>3, <1>4

LEMMA AnsweredKeeps == ASSUME RInv, NEW i \in Runs, Answered(i) PROVE RInv'
<1>1. run[i].at = "fetch" /\ UNCHANGED <<order, byURL, minted, relayClock>>  BY DEF Answered
<1>2. PICK r : r = run[i]  OBVIOUS
<1>3. PICK v \in Verdicts :
       \/ v.what \in {"refuse", "rewrite"} /\ run' = [run EXCEPT ![i] = Stopped(r, "failed")]
       \/ /\ v.what = "rewrite"
          /\ \E u \in NamedURLs, n \in 0 .. MaxRefs - 1 :
               /\ Nested(u, r.own).ok
               /\ run' = [run EXCEPT ![i] = [r EXCEPT !.at = "register", !.tok = 0, !.toks = {}, !.url = u, !.own = Nested(u, r.own).own,
                                                      !.left = n, !.now = relayClock]]
       \/ v.what = "pass" /\ run' = [run EXCEPT ![i] = [r EXCEPT !.at = IF v.followed THEN "followed" ELSE "copy"]]
  BY <1>2 DEF Answered
<1>4. CASE run' = [run EXCEPT ![i] = Stopped(r, "failed")]  BY <1>1, <1>2, <1>4, GoesFailed
<1>5. CASE \E u \in NamedURLs, n \in 0 .. MaxRefs - 1 :
               /\ Nested(u, r.own).ok
               /\ run' = [run EXCEPT ![i] = [r EXCEPT !.at = "register", !.tok = 0, !.toks = {}, !.url = u, !.own = Nested(u, r.own).own,
                                                      !.left = n, !.now = relayClock]]
  <2>1. PICK u \in NamedURLs, n \in 0 .. MaxRefs - 1 :
               /\ Nested(u, r.own).ok
               /\ run' = [run EXCEPT ![i] = [r EXCEPT !.at = "register", !.tok = 0, !.toks = {}, !.url = u, !.own = Nested(u, r.own).own,
                                                      !.left = n, !.now = relayClock]]
    BY <1>5
  <2>2. PICK o : o = Nested(u, r.own).own  OBVIOUS
  <2>3. r.own \in BOOLEAN  BY <1>2, RunKnown
  <2>4. o \in BOOLEAN /\ (o => u \in {"local", "relayed"}) /\ n \in Nat  BY <2>1, <2>2, <2>3, NestedOwn, RelayAssumption
  <2>5. run' = [run EXCEPT ![i] = [run[i] EXCEPT !.at = "register", !.tok = 0, !.toks = {}, !.url = u, !.own = o, !.left = n, !.now = relayClock]]
    BY <1>2, <2>1, <2>2
  <2>6. QED  BY <1>1, <2>4, <2>5, GoesRegister
<1>6. CASE v.what = "pass" /\ run' = [run EXCEPT ![i] = [r EXCEPT !.at = IF v.followed THEN "followed" ELSE "copy"]]
  <2>1. v.followed = FALSE  BY <1>6, PassedIsPlain
  <2>2. PICK q : q = [r EXCEPT !.at = "copy"]  OBVIOUS
  <2>3. run' = [run EXCEPT ![i] = q]  BY <1>6, <2>1, <2>2
  <2>4. r \in RunRecords /\ RunSound(r) /\ UnderWay(r) /\ r.top # 0 /\ r.at = "fetch"  BY <1>1, <1>2, RunKnown
  <2>5. /\ q \in RunRecords /\ q.at = "copy" /\ q.tok = r.tok /\ q.url = r.url /\ q.now = r.now /\ q.since = r.since
        /\ q.top = r.top /\ q.topURL = r.topURL /\ q.hurt = r.hurt
    BY <2>2, <2>4 DEF RunRecords, RelayPlaces
  <2>6. RunSound(q)  BY <2>4, <2>5 DEF RunSound, UnderWay
  <2>7. QED  BY <1>1, <2>3, <2>5, <2>6, RunStep
<1>7. QED  BY <1>3, <1>4, <1>5, <1>6

\* The source of a fetch fails: the failure is stored, and hurts every run with that input.
LEMMA FailureKeeps ==
  ASSUME RInv, NEW i \in Runs, run[i].at \in {"fetch", "copy"}, StoreFailure(run[i].tok),
         run' = Hurt([run EXCEPT ![i] = Stopped(run[i], "failed")], run[i].url), UNCHANGED <<byURL, minted, relayClock>>
  PROVE  RInv'
<1>1. PICK r, s, c, n : r = run[i] /\ s = Stopped(r, "failed") /\ c = relayClock /\ n = Len(order)  OBVIOUS
<1>2. r \in RunRecords /\ RunSound(r) /\ UnderWay(r) /\ r.top # 0 /\ r.tok \in Nat /\ c \in Nat /\ n \in Nat /\ TableSound
  BY <1>1, RunKnown, EntryTypes DEF RInv, TableSound
<1>3. s \in RunRecords /\ RunSound(s)  BY <1>1, <1>2, StoppedSound
<1>4. order' = [j \in 1 .. n |-> IF order[j].tok = r.tok THEN [order[j] EXCEPT !.fail = c] ELSE order[j]]
  BY <1>1 DEF StoreFailure
<1>5. ASSUME NEW j \in 1 .. n
      PROVE  /\ order'[j] \in Entries /\ EntryKey(order'[j]) = EntryKey(order[j]) /\ order'[j].tok = order[j].tok
             /\ order'[j].url = order[j].url /\ order'[j].own = order[j].own /\ order'[j].exp = order[j].exp
             /\ order'[j].fail = IF order[j].tok = r.tok THEN c ELSE order[j].fail
  <2>1. PICK e : e = order[j]  OBVIOUS
  <2>2. e \in Entries  BY <1>1, <1>2, <2>1, EntryTypes
  <2>3. c \in Int  BY <1>2
  <2>4. order'[j] = IF e.tok = r.tok THEN [e EXCEPT !.fail = c] ELSE e  BY <1>4, <2>1
  <2>5. PICK f : f = [e EXCEPT !.fail = c]  OBVIOUS
  <2>6. f \in Entries /\ f.tok = e.tok /\ f.url = e.url /\ f.own = e.own /\ f.exp = e.exp /\ f.fail = c
    BY <2>2, <2>3, <2>5 DEF Entries
  <2>7. QED  BY <2>1, <2>2, <2>4, <2>5, <2>6 DEF EntryKey
<1>6. order' \in Seq(Entries) /\ Len(order') = n
  <2>1. PICK o : o = order'  OBVIOUS
  <2>2. o = [j \in 1 .. n |-> o[j]] /\ \A j \in 1 .. n : o[j] \in Entries  BY <1>4, <1>5, <2>1
  <2>3. o \in [1 .. n -> Entries]  BY <2>2
  <2>4. o \in Seq(Entries) /\ Len(o) = n  BY ONLY <1>2, <2>3
  <2>5. QED  BY <2>1, <2>4
<1>7. Indexed'
  <2>1. Len(order') <= RelayMax  BY <1>1, <1>2, <1>6 DEF TableSound, Indexed
  <2>2. \A j \in 1 .. n : byURL[EntryKey(order[j])] = order[j].tok  BY <1>1, <1>2 DEF TableSound, Indexed
  <2>3. \A j \in 1 .. n : byURL'[EntryKey(order'[j])] = order'[j].tok  BY <1>5, <2>2
  <2>4. \A j, k \in 1 .. n : order'[j].tok = order'[k].tok => j = k  BY <1>1, <1>2, <1>5 DEF TableSound, Indexed
  <2>5. \A k \in RelayKeys : byURL'[k] # 0 => \E j \in 1 .. n : EntryKey(order'[j]) = k  BY <1>1, <1>2, <1>5 DEF TableSound, Indexed
  <2>6. QED  BY <1>6, <2>1, <2>3, <2>4, <2>5 DEF Indexed, EntryKey
<1>8. EntriesPast'
  <2>1. minted' = minted /\ relayClock' = c /\ c \in Never .. c  BY <1>1, <1>2 DEF Never
  <2>2. \A j \in 1 .. n : order[j].tok \in 1 .. minted /\ order[j].exp \in 0 .. MaxRelayClock + RelayTTL /\ order[j].fail \in Never .. c
    BY <1>1, <1>2 DEF TableSound, EntriesPast
  <2>3. QED  BY <1>5, <1>6, <2>1, <2>2 DEF EntriesPast
<1>9. TableSound'
  <2>1. \A j \in 1 .. n : order'[j].own => order'[j].url \in {"local", "relayed"}  BY <1>1, <1>2, <1>5 DEF TableSound
  <2>2. QED  BY <1>2, <1>6, <1>7, <1>8, <2>1 DEF TableSound
<1>10. \A j \in 1 .. n : order[j].tok = r.tok => order[j].url = r.url  BY <1>1, <1>2 DEF RunSound
<1>11. ASSUME NEW k \in Runs PROVE run'[k] \in RunRecords /\ RunSound(run[k])'
  <2>1. PICK x : x = IF k = i THEN s ELSE run[k]  OBVIOUS
  <2>2. x \in RunRecords /\ RunSound(x)  BY <1>1, <1>3, <2>1 DEF RInv
  <2>3. run'[k] = IF x.at \notin {"idle", "end"} /\ x.topURL = r.url THEN [x EXCEPT !.hurt = TRUE] ELSE x
    <3>1. PICK R : R = [run EXCEPT ![i] = Stopped(run[i], "failed")]  OBVIOUS
    <3>2. R[k] = x  BY <1>1, <2>1, <3>1 DEF RInv
    <3>3. run' = Hurt(R, r.url)  BY <1>1, <3>1
    <3>4. QED  BY <3>2, <3>3 DEF Hurt
  <2>4. PICK q : q = run'[k]  OBVIOUS
  <2>5. /\ q \in RunRecords /\ q.at = x.at /\ q.url = x.url /\ q.own = x.own /\ q.now = x.now /\ q.since = x.since /\ q.top = x.top
        /\ q.topURL = x.topURL /\ q.tok = x.tok /\ (x.hurt => q.hurt) /\ (x.at \notin {"idle", "end"} /\ x.topURL = r.url => q.hurt)
    <3>1. PICK y : y = [x EXCEPT !.hurt = TRUE]  OBVIOUS
    <3>2. /\ y \in RunRecords /\ y.at = x.at /\ y.url = x.url /\ y.own = x.own /\ y.now = x.now /\ y.since = x.since /\ y.top = x.top
          /\ y.topURL = x.topURL /\ y.tok = x.tok /\ y.hurt = TRUE
      BY <2>2, <3>1 DEF RunRecords
    <3>3. QED  BY <2>2, <2>3, <2>4, <3>1, <3>2
  <2>6. UnderWay(q) => \A j \in 1 .. n : order'[j].url = q.topURL /\ order'[j].fail >= q.since => q.hurt
    <3> SUFFICES ASSUME UnderWay(q), NEW j \in 1 .. n, order'[j].url = q.topURL, order'[j].fail >= q.since PROVE q.hurt
      OBVIOUS
    <3>1. CASE order[j].tok = r.tok
      <4>1. x.topURL = r.url  BY <1>5, <1>10, <2>5, <3>1
      <4>2. QED  BY <2>5, <4>1 DEF UnderWay
    <3>2. CASE order[j].tok # r.tok
      <4>1. order[j].url = x.topURL /\ order[j].fail >= x.since /\ UnderWay(x)  BY <1>5, <2>5, <3>2 DEF UnderWay
      <4>2. x.hurt  BY <1>1, <2>2, <4>1 DEF RunSound
      <4>3. QED  BY <2>5, <4>2
    <3>3. QED  BY <3>1, <3>2
  <2>7. UnderWay(q) /\ q.top # 0 => \A j \in 1 .. n : order'[j].tok = q.top => order'[j].url = q.topURL
    BY <1>1, <1>5, <2>2, <2>5 DEF RunSound, UnderWay
  <2>8. q.at \in {"fetch", "copy"} => \A j \in 1 .. n : order'[j].tok = q.tok => order'[j].url = q.url
    BY <1>1, <1>5, <2>2, <2>5 DEF RunSound
  <2>9. q.now <= relayClock' /\ q.since <= relayClock' /\ q.tok <= minted' /\ q.top <= minted'  BY <2>2, <2>5 DEF RunSound
  <2>10. /\ q.at = "direct" => q.url = "local"
         /\ q.at \in {"register", "fetch"} /\ q.own => q.url \in {"local", "relayed"}
         /\ q.at # "followed"
         /\ UnderWay(q) /\ q.top = 0 => q.at = "register" /\ q.url = q.topURL
         /\ q.at = "blamed" => q.hurt
    BY <2>2, <2>5 DEF RunSound, UnderWay
  <2>11. RunSound(q)'  BY <1>6, <2>6, <2>7, <2>8, <2>9, <2>10 DEF RunSound, UnderWay
  <2>12. QED  BY <2>4, <2>5, <2>11 DEF RunSound, UnderWay
<1>12. run' \in [Runs -> RunRecords]
  <2>1. run' = [k \in Runs |-> run'[k]]  BY DEF Hurt
  <2>2. QED  BY <1>11, <2>1
<1>13. QED  BY <1>9, <1>11, <1>12 DEF RInv

LEMMA FetchBreaksKeeps == ASSUME RInv, NEW i \in Runs, FetchBreaks(i) PROVE RInv'
<1>1. run[i].at = "fetch" /\ UNCHANGED <<byURL, minted, relayClock>>  BY DEF FetchBreaks
<1>2. PICK d \in BOOLEAN : /\ RecordFailure(i, d)
                           /\ run' = IF d THEN [run EXCEPT ![i] = Over("end")]
                                     ELSE Hurt([run EXCEPT ![i] = Stopped(run[i], "failed")], run[i].url)
  BY DEF FetchBreaks
<1>3. CASE d  BY <1>1, <1>2, <1>3, GoesOver DEF RecordFailure
<1>4. CASE ~d
  <2>1. StoreFailure(run[i].tok) /\ run' = Hurt([run EXCEPT ![i] = Stopped(run[i], "failed")], run[i].url)
    BY <1>2, <1>4 DEF RecordFailure
  <2>2. QED  BY <1>1, <2>1, FailureKeeps
<1>5. QED  BY <1>3, <1>4

LEMMA ErrorStatusKeeps == ASSUME RInv, NEW i \in Runs, ErrorStatus(i) PROVE RInv'
<1>1. /\ run[i].at \in {"fetch", "copy"} /\ UNCHANGED <<byURL, minted, relayClock>> /\ StoreFailure(run[i].tok)
      /\ run' = Hurt([run EXCEPT ![i] = Stopped(run[i], "failed")], run[i].url)
  BY DEF ErrorStatus, RecordFailure
<1>2. QED  BY <1>1, FailureKeeps

LEMMA CopyEndsKeeps == ASSUME RInv, NEW i \in Runs, CopyEnds(i) PROVE RInv'
<1>1. run[i].at \in {"fetch", "copy"} /\ UNCHANGED <<byURL, minted, relayClock>>  BY DEF CopyEnds
<1>2. CASE run' = [run EXCEPT ![i] = Over("end")] /\ UNCHANGED order  BY <1>1, <1>2, GoesOver
<1>3. CASE /\ StoreFailure(run[i].tok)
           /\ run' = Hurt([run EXCEPT ![i] = Stopped(run[i], "failed")], run[i].url)
  BY <1>1, <1>3, FailureKeeps
<1>4. QED  BY <1>2, <1>3 DEF CopyEnds

LEMMA AskRelayKeeps == ASSUME RInv, NEW i \in Runs, AskRelay(i) PROVE RInv'
<1>1. PICK r : r = run[i]  OBVIOUS
<1>2. /\ r.at = "failed" /\ UNCHANGED <<order, byURL, minted, relayClock>>
      /\ run' = [run EXCEPT ![i] = IF FailureSince(r.top, r.since) THEN [r EXCEPT !.at = "blamed"] ELSE Over("end")]
  BY <1>1 DEF AskRelay, RInv
<1>3. CASE ~FailureSince(r.top, r.since)  BY <1>2, <1>3, GoesOver
<1>4. CASE FailureSince(r.top, r.since)
  <2>1. r \in RunRecords /\ RunSound(r) /\ UnderWay(r) /\ r.top # 0  BY <1>1, <1>2, RunKnown
  <2>2. PICK p : p = PlaceOf(r.top)  OBVIOUS
  <2>3. p \in 1 .. Len(order) /\ order[p].tok = r.top /\ order[p].fail >= r.since  BY <1>4, <2>2, EntryFound DEF FailureSince
  <2>4. order[p].url = r.topURL /\ r.hurt  BY <2>1, <2>3 DEF RunSound
  <2>5. PICK q : q = [r EXCEPT !.at = "blamed"]  OBVIOUS
  <2>6. run' = [run EXCEPT ![i] = q]  BY <1>2, <1>4, <2>5
  <2>7. /\ q \in RunRecords /\ q.at = "blamed" /\ q.tok = r.tok /\ q.now = r.now /\ q.since = r.since
        /\ q.top = r.top /\ q.topURL = r.topURL /\ q.hurt = r.hurt
    BY <2>1, <2>5 DEF RunRecords, RelayPlaces
  <2>8. RunSound(q)  BY <2>1, <2>4, <2>7 DEF RunSound, UnderWay
  <2>9. QED  BY <1>2, <2>6, <2>7, <2>8, RunStep
<1>5. QED  BY <1>3, <1>4

LEMMA RInvInit == RelayInit => RInv
<1> SUFFICES ASSUME RelayInit PROVE RInv  OBVIOUS
<1>1. order = <<>> /\ minted = 0 /\ relayClock = 0 /\ byURL = [k \in RelayKeys |-> 0] /\ run = [i \in Runs |-> Over("idle")]
  BY DEF RelayInit
<1>2. {MaxMinted, MaxRelayClock, RelayMax} \subseteq Nat  BY RelayAssumption
<1>3. order \in Seq(Entries) /\ Len(order) = 0  BY <1>1
<1>4. byURL \in [RelayKeys -> 0 .. minted] /\ minted \in 0 .. MaxMinted /\ relayClock \in 0 .. MaxRelayClock  BY <1>1, <1>2
<1>5. TableSound  BY <1>1, <1>2, <1>3, <1>4 DEF TableSound, EntriesPast, Indexed
<1>6. "refused" \in RelayURLs  BY DEF RelayURLs, OwnURLs
<1>7. Over("idle") \in RunRecords  BY <1>6 DEF Over, RunRecords, RelayPlaces
<1>8. RunSound(Over("idle"))  BY <1>1 DEF RunSound, Over, UnderWay
<1>9. QED  BY <1>1, <1>5, <1>7, <1>8 DEF RInv

LEMMA RInvStep == RInv /\ [RelayNext]_relayVars => RInv'
<1> SUFFICES ASSUME RInv, [RelayNext]_relayVars PROVE RInv'  OBVIOUS
<1>1. CASE UNCHANGED relayVars
  <2>1. UNCHANGED <<order, byURL, minted, relayClock, run>>  BY <1>1 DEF relayVars
  <2>2. TableSound'  BY <2>1 DEF RInv, TableSound, EntriesPast, Indexed, EntryKey
  <2>3. \A j \in Runs : RunSound(run[j])'  BY <2>1 DEF RInv, RunSound, UnderWay
  <2>4. QED  BY <2>1, <2>2, <2>3 DEF RInv
<1>2. CASE \E i \in Runs : Input(i) \/ Registers(i) \/ Handle(i)  BY <1>2, InputKeeps, RegistersKeeps, HandleKeeps
<1>3. CASE \E i \in Runs : FetchBreaks(i) \/ RedirectsOwn(i) \/ ErrorStatus(i) \/ Answered(i)
  BY <1>3, FetchBreaksKeeps, RedirectsOwnKeeps, ErrorStatusKeeps, AnsweredKeeps
<1>4. CASE \E i \in Runs : CopyEnds(i) \/ AskRelay(i)  BY <1>4, CopyEndsKeeps, AskRelayKeeps
<1>5. CASE \E i \in Runs : Reported(i)  BY <1>5, GoesOver DEF Reported
<1>6. CASE RelaySweep \/ Passes  BY <1>6, SweepKeeps, PassesKeeps
<1>7. QED  BY <1>1, <1>2, <1>3, <1>4, <1>5, <1>6 DEF RelayNext

\* The inductive invariant of the relay (registerAs, sweepLocked, proxy, storeFailure).
THEOREM RelayInvariant == RelaySpec => []RInv
<1>1. QED  BY RInvInit, RInvStep, PTL DEF RelaySpec

\* Whatever remote servers send, and however registrations, evictions and expiry
\* interleave, ffmpeg is led to nothing but what the relay checks (proxy, registerNested),
\* and the three indexes of the token table agree and stay bounded.
THEOREM RelayKeepsConfined == RelaySpec => []RelayConfines
<1>1. RInv => RelayConfines
  <2> SUFFICES ASSUME RInv PROVE RelayConfines  OBVIOUS
  <2>1. RelayTypeOK
    <3>1. \A i \in Runs : run[i].at \in RelayPlaces  BY RunKnown
    <3>2. \A i \in 1 .. Len(order) : EntryKey(order[i]) \in RelayKeys  BY EntryTypes DEF RInv
    <3>3. QED  BY <3>1, <3>2 DEF RInv, TableSound, EntriesPast, RelayTypeOK, RelayPlaces
  <2>2. RelayIndex
    <3>1. \A i, j \in 1 .. Len(order) : i # j => order[i].tok # order[j].tok /\ EntryKey(order[i]) # EntryKey(order[j])
      BY DEF RInv, TableSound, Indexed
    <3>2. \A k \in RelayKeys : byURL[k] # 0 => \E i \in 1 .. Len(order) : EntryKey(order[i]) = k /\ order[i].tok = byURL[k]
      BY DEF RInv, TableSound, Indexed
    <3>3. \A i \in 1 .. Len(order) : order[i].tok # 0  BY DEF RInv, TableSound, EntriesPast
    <3>4. QED  BY <3>1, <3>2, <3>3 DEF RInv, TableSound, Indexed, RelayIndex
  <2>3. QED  BY <2>1, <2>2 DEF RInv, TableSound, RunSound, RelayConfines
<1>2. QED  BY <1>1, RelayInvariant, PTL

\* failureSince blames the source of a failed transcode only if that source did fail while
\* the transcode was running, whatever tokens and failures other runs left in the table.
THEOREM RelayBlamesRightly == RelaySpec => []BlameIsDeserved
<1>1. RInv => BlameIsDeserved  BY DEF RInv, RunSound, BlameIsDeserved
<1>2. QED  BY <1>1, RelayInvariant, PTL
-----------------------------------------------------------------------------
(* File and piece priorities (EnginePriority) *)

\* The places of a reader between Open and Close, and those at which a call is under way.
SelectedPlaces == {"demote", "release", "reset", "download", "prime", "raise", "warm", "prefetch", "raiseNext", "reading"}
ReaderPlaces == SelectedPlaces \cup {"ensure"}
PrioPlaces == ReaderPlaces \cup {"idle", "recheck", "guess", "done"}
Busy(p) == pc[p] \notin {"idle", "reading", "guess", "done"}

\* Every variable has its type, and a goroutine is where its kind of call may be.
PrioTypes ==
  /\ PriorityTypeOK /\ pc \in [Procs -> PrioPlaces] /\ kind \in [Procs -> {"none", "open", "poll", "close"}]
  /\ already \in [Procs -> BOOLEAN]
CallsKnown ==
  /\ pc[Guesser] \in {"guess", "raise", "done"}
  /\ \A t \in Threads : /\ pc[t] \notin {"guess", "done"}
                        /\ pc[t] \in {"prime", "raise", "warm", "prefetch", "raiseNext", "reading", "recheck"} => kind[t] = "open"
                        /\ pc[t] \in {"ensure", "demote", "download"} => kind[t] \in {"open", "poll"}
                        /\ pc[t] = "raiseNext" => HasNext(file[t])
                        /\ kind[t] = "close" => demote[t] # {}
                        /\ pc[t] # "idle" => kind[t] # "none"
  /\ \A p \in Procs : pc[p] \notin {"demote", "release", "reset"} => demote[p] = {}

\* readingFiles counts the readers of a file.
ReadersOf(f) == {t \in Threads : kind[t] = "open" /\ pc[t] \in ReaderPlaces /\ file[t] = f}
ReadingExact == \A f \in Files : IsFiniteSet(ReadersOf(f)) /\ reading[f] = Cardinality(ReadersOf(f))

\* What holds however calls overlap.
ReadersInv == PrioTypes /\ CallsKnown /\ ReadingExact /\ ReadersSelected

\* What the call of p has still to do: the files to mark for download, to take the mark
\* from, to raise, that are being opened, and whose pieces are to be released.
ToMark(p)    == IF pc[p] \in {"demote", "release", "reset", "download"} /\ ~already[p] /\ kind[p] # "close" THEN {file[p]} ELSE {}
ToUnmark(p)  == IF pc[p] = "demote" THEN demote[p] ELSE IF pc[p] = "recheck" THEN {file[p]} ELSE {}
ToRaise(p)   == IF pc[p] = "raise" THEN {file[p]} ELSE {}
ToOpen(p)    == IF kind[p] = "open" /\ pc[p] \in {"ensure", "demote", "release", "reset", "download", "prime"} THEN {file[p]} ELSE {}
ToRelease(p) == IF pc[p] \in {"demote", "release", "reset"} THEN demote[p] ELSE IF pc[p] = "recheck" THEN {file[p]} ELSE {}

\* But for that, marks and priorities are right.
Marked(p)    == \A x \in selected \ ToMark(p) : filePrio[x] = Normal
Unmarked(p)  == \A x \in Files : filePrio[x] = Normal => x \in selected \cup ToUnmark(p)
Raised(p)    == \A x \in primed \ ToRaise(p) : \A i \in BoundarySpans(x) : bprio[i] = Now
Accounted(p) == \A i \in Pieces : bprio[i] # None => i \in Spans(InUse \cup ToRelease(p))
Opened(p)    == \A x \in Files \ ToOpen(p) : reading[x] > 0 => x \in selected /\ x \in primed

\* What a call under way relies on.
MidCall(p) ==
  /\ pc[p] \in {"demote", "release", "reset"} => demote[p] \cap InUse = {}
  /\ pc[p] \in {"demote", "release", "reset", "download"} /\ kind[p] # "close" => file[p] \in selected
  /\ pc[p] = "reset" => keep[p] = InUse
  /\ pc[p] = "recheck" => file[p] \notin InUse
  /\ pc[p] = "raise" => file[p] \in primed
  /\ pc[p] \in {"release", "reset"} => \A x \in demote[p] : filePrio[x] = None

CallSound(p) == Marked(p) /\ Unmarked(p) /\ Raised(p) /\ Accounted(p) /\ Opened(p) /\ MidCall(p)

\* Calls do not overlap.
OneCall ==
  /\ \A p, q \in Procs : Busy(p) /\ Busy(q) => p = q
  /\ \A f \in Files : abandoned[f] > 0 => f \notin selected /\ \A p \in Procs : ~Busy(p)

AloneSound == \A p \in Procs : (\A q \in Procs : Busy(q) => q = p) => CallSound(p)

\* The inductive invariant when they do not.
PrioInv == ReadersInv /\ OneCall /\ AloneSound

-----------------------------------------------------------------------------
\* Spans of pieces: those of more files are more, and what is raised for a file is among its spans.
LEMMA SpansGrow ==
  ASSUME NEW A, NEW B, A \subseteq B
  PROVE  Spans(A) \subseteq Spans(B)
<1>1. QED  BY DEF Spans

LEMMA SpansJoin ==
  ASSUME NEW A, NEW B
  PROVE  Spans(A \cup B) = Spans(A) \cup Spans(B)
<1>1. QED  BY DEF Spans

LEMMA OwnSpans ==
  ASSUME NEW f, NEW A, f \in A
  PROVE  BoundarySpans(f) \subseteq Spans(A) /\ (HasNext(f) => PrefetchSpans(f + 1) \subseteq Spans(A))
<1>1. QED  BY DEF Spans, SpansOf

\* A raised piece has at least the priority it was raised to, and no piece gets less than it had.
LEMMA RaisedTo ==
  ASSUME bprio \in [Pieces -> {None, Normal, Now}], NEW is, NEW prio \in {Normal, Now}, RaiseBoundary(is, prio)
  PROVE  /\ bprio' \in [Pieces -> {None, Normal, Now}]
         /\ \A i \in Pieces : /\ bprio[i] = Now => bprio'[i] = Now
                              /\ i \in is /\ prio = Now => bprio'[i] = Now
                              /\ bprio'[i] # None => bprio[i] # None \/ i \in is
<1>1. QED  BY DEF RaiseBoundary, Greater, None, Normal, Now

\* The pieces of a file's ends are pieces of the torrent.
LEMMA BoundaryPieces ==
  ASSUME NEW f \in Files
  PROVE  BoundarySpans(f) \subseteq Pieces
<1>1. Begin[f] \in Nat /\ End[f] \in Nat /\ Begin[f] < End[f]  BY EnginePriorityAssumption
<1>2. HeadPieces \in Nat \ {0} /\ TailPieces \in Nat \ {0}  BY EnginePriorityAssumption
<1>3. BoundarySpans(f) \subseteq Begin[f] .. End[f] - 1  BY <1>1, <1>2 DEF BoundarySpans, Lesser, Greater
<1>4. QED  BY <1>3 DEF Pieces

-----------------------------------------------------------------------------
\* The readers that are counted, after one step of a goroutine.
LEMMA SameReaders ==
  ASSUME ReadersInv, reading' = reading, \A f \in Files : ReadersOf(f)' = ReadersOf(f)
  PROVE  ReadingExact'
<1>1. QED  BY DEF ReadersInv, ReadingExact

\* A step that leaves a goroutine's kind and file, and keeps it among the readers or outside of them.
LEMMA StillReader ==
  ASSUME PrioTypes, NEW p \in Procs, NEW l, pc' = [pc EXCEPT ![p] = l], kind' = kind, file' = file,
         p \in Threads => (pc[p] \in ReaderPlaces <=> l \in ReaderPlaces)
  PROVE  \A f \in Files : ReadersOf(f)' = ReadersOf(f)
<1>1. QED  BY DEF PrioTypes, ReadersOf, Procs

\* A file that has a reader is counted as read.
LEMMA ReaderCounted ==
  ASSUME ReadersInv, NEW t \in Threads, kind[t] = "open", pc[t] \in ReaderPlaces
  PROVE  file[t] \in Files /\ reading[file[t]] \in Nat \ {0}
<1>1. file[t] \in Files /\ reading[file[t]] \in 0 .. MaxReads  BY DEF ReadersInv, PrioTypes, PriorityTypeOK, Procs
<1>2. PICK S : S = ReadersOf(file[t])  OBVIOUS
<1>3. IsFiniteSet(S) /\ reading[file[t]] = Cardinality(S)  BY <1>1, <1>2 DEF ReadersInv, ReadingExact
<1>4. t \in S  BY <1>2 DEF ReadersOf
<1>5. Cardinality(S) # 0  BY ONLY <1>3, <1>4, FS_EmptySet
<1>6. MaxReads \in Nat  BY EnginePriorityAssumption
<1>7. QED  BY <1>1, <1>3, <1>5, <1>6

\* ensureDownloading's section of e.mu: only files nobody reads lose their selection.
LEMMA REnsure ==
  ASSUME ReadersInv, NEW t \in Threads, Ensure(t)
  PROVE  ReadersInv'
<1>1. t \in Procs /\ PrioTypes /\ CallsKnown  BY DEF Procs, ReadersInv
<1>2. PICK l \in PrioPlaces : pc' = [pc EXCEPT ![t] = l] /\ kind' = kind /\ file' = file /\ reading' = reading
           /\ (t \in Threads => (pc[t] \in ReaderPlaces <=> l \in ReaderPlaces)) /\ l = "demote"
  BY <1>1 DEF Ensure, Goto, locals, books, AfterPrime, ReaderPlaces, SelectedPlaces, PrioPlaces, CallsKnown
<1>3. ReadingExact'  BY <1>1, <1>2, SameReaders, StillReader
<1>4. PrioTypes'
  BY <1>1, <1>2 DEF PrioTypes, PriorityTypeOK, Ensure, Procs, tails, prios, books, locals, Abandonable
<1>5. CallsKnown'
  BY <1>1, <1>2 DEF CallsKnown, Ensure, PrioTypes, Procs, locals
<1>6. ReadersSelected'
  BY <1>1, <1>2, ReaderCounted DEF ReadersInv, ReadersSelected, Ensure, PrioTypes, Procs, books, locals, SelectedPlaces, ReaderPlaces, CallsKnown, Abandonable
<1>7. QED  BY <1>3, <1>4, <1>5, <1>6 DEF ReadersInv

\* The priorities of the abandoned files.
LEMMA RDemote ==
  ASSUME ReadersInv, NEW t \in Threads, Demote(t)
  PROVE  ReadersInv'
<1>1. t \in Procs /\ PrioTypes /\ CallsKnown  BY DEF Procs, ReadersInv
<1>2. PICK l \in PrioPlaces : pc' = [pc EXCEPT ![t] = l] /\ kind' = kind /\ file' = file /\ reading' = reading
           /\ (t \in Threads => (pc[t] \in ReaderPlaces <=> l \in ReaderPlaces)) /\ l = "release"
  BY <1>1 DEF Demote, Goto, locals, books, AfterPrime, ReaderPlaces, SelectedPlaces, PrioPlaces, CallsKnown
<1>3. ReadingExact'  BY <1>1, <1>2, SameReaders, StillReader
<1>4. PrioTypes'
  BY <1>1, <1>2 DEF PrioTypes, PriorityTypeOK, Demote, Procs, tails, prios, books, locals
<1>5. CallsKnown'
  BY <1>1, <1>2 DEF CallsKnown, Demote, PrioTypes, Procs, locals
<1>6. ReadersSelected'
  BY <1>1, <1>2 DEF ReadersInv, ReadersSelected, Demote, PrioTypes, Procs, books, locals, SelectedPlaces, ReaderPlaces
<1>7. QED  BY <1>3, <1>4, <1>5, <1>6 DEF ReadersInv

\* releaseBoundary looks at what is in use.
LEMMA RRelease ==
  ASSUME ReadersInv, NEW t \in Threads, Release(t)
  PROVE  ReadersInv'
<1>1. t \in Procs /\ PrioTypes /\ CallsKnown  BY DEF Procs, ReadersInv
<1>2. PICK l \in PrioPlaces : pc' = [pc EXCEPT ![t] = l] /\ kind' = kind /\ file' = file /\ reading' = reading
           /\ (t \in Threads => (pc[t] \in ReaderPlaces <=> l \in ReaderPlaces)) /\ demote' = demote /\ ((l = "download" /\ demote[t] = {}) \/ l = "reset")
  BY <1>1 DEF Release, Goto, locals, books, AfterPrime, ReaderPlaces, SelectedPlaces, PrioPlaces, CallsKnown
<1>3. ReadingExact'  BY <1>1, <1>2, SameReaders, StillReader
<1>4. PrioTypes'
  BY <1>1, <1>2 DEF PrioTypes, PriorityTypeOK, Release, Procs, tails, prios, books, locals, InUse
<1>5. CallsKnown'
  <2>1. (pc[Guesser] \in {"guess", "raise", "done"})'  BY <1>1, <1>2, EnginePriorityAssumption DEF CallsKnown, PrioTypes, Procs
  <2>2. ASSUME NEW u \in Threads
        PROVE  (/\ pc[u] \notin {"guess", "done"}
                /\ pc[u] \in {"prime", "raise", "warm", "prefetch", "raiseNext", "reading", "recheck"} => kind[u] = "open"
                /\ pc[u] \in {"ensure", "demote", "download"} => kind[u] \in {"open", "poll"}
                /\ pc[u] = "raiseNext" => HasNext(file[u])
                /\ kind[u] = "close" => demote[u] # {}
                /\ pc[u] # "idle" => kind[u] # "none")'
    BY <1>1, <1>2, <2>2, EnginePriorityAssumption DEF CallsKnown, Release, PrioTypes, Procs, locals
  <2>3. ASSUME NEW q \in Procs  PROVE (pc[q] \notin {"demote", "release", "reset"} => demote[q] = {})'
    BY <1>1, <1>2, <2>3 DEF CallsKnown, Release, PrioTypes, locals
  <2>4. QED  BY <2>1, <2>2, <2>3 DEF CallsKnown
<1>6. ReadersSelected'
  BY <1>1, <1>2 DEF ReadersInv, ReadersSelected, Release, PrioTypes, Procs, books, locals, SelectedPlaces, ReaderPlaces
<1>7. QED  BY <1>3, <1>4, <1>5, <1>6 DEF ReadersInv

\* The tail of a file is read ahead once.
LEMMA RWarmMoov ==
  ASSUME ReadersInv, NEW t \in Threads, WarmMoov(t)
  PROVE  ReadersInv'
<1>1. t \in Procs /\ PrioTypes /\ CallsKnown  BY DEF Procs, ReadersInv
<1>2. PICK l \in PrioPlaces : pc' = [pc EXCEPT ![t] = l] /\ kind' = kind /\ file' = file /\ reading' = reading
           /\ (t \in Threads => (pc[t] \in ReaderPlaces <=> l \in ReaderPlaces)) /\ l = "prefetch"
  BY <1>1 DEF WarmMoov, Goto, locals, books, AfterPrime, ReaderPlaces, SelectedPlaces, PrioPlaces, CallsKnown
<1>3. ReadingExact'  BY <1>1, <1>2, SameReaders, StillReader
<1>4. PrioTypes'
  BY <1>1, <1>2 DEF PrioTypes, PriorityTypeOK, WarmMoov, Procs, tails, prios, books, locals
<1>5. CallsKnown'
  BY <1>1, <1>2 DEF CallsKnown, WarmMoov, PrioTypes, Procs, locals
<1>6. ReadersSelected'
  BY <1>1, <1>2 DEF ReadersInv, ReadersSelected, WarmMoov, PrioTypes, Procs, books, locals, SelectedPlaces, ReaderPlaces
<1>7. QED  BY <1>3, <1>4, <1>5, <1>6 DEF ReadersInv

\* The next file is prefetched once.
LEMMA RPrefetchNext ==
  ASSUME ReadersInv, NEW t \in Threads, PrefetchNext(t)
  PROVE  ReadersInv'
<1>1. t \in Procs /\ PrioTypes /\ CallsKnown  BY DEF Procs, ReadersInv
<1>2. PICK l \in PrioPlaces : pc' = [pc EXCEPT ![t] = l] /\ kind' = kind /\ file' = file /\ reading' = reading
           /\ (t \in Threads => (pc[t] \in ReaderPlaces <=> l \in ReaderPlaces)) /\ l \in {"reading", "raiseNext"} /\ (l = "raiseNext" => HasNext(file[t]))
  <2>1. CASE file[t] \in prefetched \/ ~HasNext(file[t])
    <3>1. pc' = [pc EXCEPT ![t] = "reading"] /\ UNCHANGED <<kind, file, reading>> /\ pc[t] = "prefetch"
      BY <2>1 DEF PrefetchNext, Goto, locals
    <3>2. QED  BY <3>1 DEF ReaderPlaces, SelectedPlaces, PrioPlaces
  <2>2. CASE ~(file[t] \in prefetched \/ ~HasNext(file[t]))
    BY <1>1, <2>2 DEF PrefetchNext, Goto, locals, ReaderPlaces, SelectedPlaces, PrioPlaces
  <2>3. QED  BY <2>1, <2>2
<1>3. ReadingExact'  BY <1>1, <1>2, SameReaders, StillReader
<1>4. PrioTypes'
  BY <1>1, <1>2 DEF PrioTypes, PriorityTypeOK, PrefetchNext, Procs, tails, prios, books, locals
<1>5. CallsKnown'
  BY <1>1, <1>2 DEF CallsKnown, PrefetchNext, PrioTypes, Procs, locals
<1>6. ReadersSelected'
  BY <1>1, <1>2 DEF ReadersInv, ReadersSelected, PrefetchNext, PrioTypes, Procs, books, locals, SelectedPlaces, ReaderPlaces
<1>7. QED  BY <1>3, <1>4, <1>5, <1>6 DEF ReadersInv

\* Its pieces are raised.
LEMMA RRaiseNext ==
  ASSUME ReadersInv, NEW t \in Threads, RaiseNext(t)
  PROVE  ReadersInv'
<1>1. t \in Procs /\ PrioTypes /\ CallsKnown  BY DEF Procs, ReadersInv
<1>2. PICK l \in PrioPlaces : pc' = [pc EXCEPT ![t] = l] /\ kind' = kind /\ file' = file /\ reading' = reading
           /\ (t \in Threads => (pc[t] \in ReaderPlaces <=> l \in ReaderPlaces)) /\ l = "reading"
  BY <1>1 DEF RaiseNext, Goto, locals, books, AfterPrime, ReaderPlaces, SelectedPlaces, PrioPlaces, CallsKnown
<1>3. ReadingExact'  BY <1>1, <1>2, SameReaders, StillReader
<1>4. PrioTypes'
  BY <1>1, <1>2, RaisedTo DEF PrioTypes, PriorityTypeOK, RaiseNext, Procs, tails, prios, books, locals
<1>5. CallsKnown'
  BY <1>1, <1>2 DEF CallsKnown, RaiseNext, PrioTypes, Procs, locals
<1>6. ReadersSelected'
  BY <1>1, <1>2 DEF ReadersInv, ReadersSelected, RaiseNext, PrioTypes, Procs, books, locals, SelectedPlaces, ReaderPlaces
<1>7. QED  BY <1>3, <1>4, <1>5, <1>6 DEF ReadersInv

\* A file's ends are primed once.
LEMMA RPrime ==
  ASSUME ReadersInv, NEW p \in Procs, Prime(p)
  PROVE  ReadersInv'
<1>1. p \in Procs /\ PrioTypes /\ CallsKnown  BY DEF Procs, ReadersInv
<1>2. PICK l \in PrioPlaces : pc' = [pc EXCEPT ![p] = l] /\ kind' = kind /\ file' = file /\ reading' = reading
           /\ (p \in Threads => (pc[p] \in ReaderPlaces <=> l \in ReaderPlaces)) /\ (p = Guesser => l \in {"raise", "done"}) /\ (p # Guesser => l \in {"raise", "warm"})
  BY <1>1, EnginePriorityAssumption DEF Prime, Goto, locals, books, AfterPrime, ReaderPlaces, SelectedPlaces, PrioPlaces, CallsKnown
<1>3. ReadingExact'  BY <1>1, <1>2, SameReaders, StillReader
<1>4. PrioTypes'
  BY <1>1, <1>2 DEF PrioTypes, PriorityTypeOK, Prime, Procs, tails, prios, books, locals
<1>5. CallsKnown'
  BY <1>1, <1>2 DEF CallsKnown, Prime, PrioTypes, Procs, locals
<1>6. ReadersSelected'
  BY <1>1, <1>2 DEF ReadersInv, ReadersSelected, Prime, PrioTypes, Procs, books, locals, SelectedPlaces, ReaderPlaces
<1>7. QED  BY <1>3, <1>4, <1>5, <1>6 DEF ReadersInv

\* Their pieces are raised.
LEMMA RRaise ==
  ASSUME ReadersInv, NEW p \in Procs, Raise(p)
  PROVE  ReadersInv'
<1>1. p \in Procs /\ PrioTypes /\ CallsKnown  BY DEF Procs, ReadersInv
<1>2. PICK l \in PrioPlaces : pc' = [pc EXCEPT ![p] = l] /\ kind' = kind /\ file' = file /\ reading' = reading
           /\ (p \in Threads => (pc[p] \in ReaderPlaces <=> l \in ReaderPlaces)) /\ (p = Guesser => l = "done") /\ (p # Guesser => l = "warm")
  BY <1>1, EnginePriorityAssumption DEF Raise, Goto, locals, books, AfterPrime, ReaderPlaces, SelectedPlaces, PrioPlaces, CallsKnown
<1>3. ReadingExact'  BY <1>1, <1>2, SameReaders, StillReader
<1>4. PrioTypes'
  BY <1>1, <1>2, RaisedTo DEF PrioTypes, PriorityTypeOK, Raise, Procs, tails, prios, books, locals
<1>5. CallsKnown'
  <2>1. (pc[Guesser] \in {"guess", "raise", "done"})'  BY <1>1, <1>2, EnginePriorityAssumption DEF CallsKnown, PrioTypes, Procs
  <2>2. ASSUME NEW u \in Threads
        PROVE  (/\ pc[u] \notin {"guess", "done"}
                /\ pc[u] \in {"prime", "raise", "warm", "prefetch", "raiseNext", "reading", "recheck"} => kind[u] = "open"
                /\ pc[u] \in {"ensure", "demote", "download"} => kind[u] \in {"open", "poll"}
                /\ pc[u] = "raiseNext" => HasNext(file[u])
                /\ kind[u] = "close" => demote[u] # {}
                /\ pc[u] # "idle" => kind[u] # "none")'
    BY <1>1, <1>2, <2>2, EnginePriorityAssumption DEF CallsKnown, Raise, PrioTypes, Procs, locals
  <2>3. ASSUME NEW q \in Procs  PROVE (pc[q] \notin {"demote", "release", "reset"} => demote[q] = {})'
    BY <1>1, <1>2, <2>3 DEF CallsKnown, Raise, PrioTypes, locals
  <2>4. QED  BY <2>1, <2>2, <2>3 DEF CallsKnown
<1>6. ReadersSelected'
  BY <1>1, <1>2 DEF ReadersInv, ReadersSelected, Raise, PrioTypes, Procs, books, locals, SelectedPlaces, ReaderPlaces
<1>7. QED  BY <1>3, <1>4, <1>5, <1>6 DEF ReadersInv

\* A goroutine that begins a poll is not a reader.
LEMMA RPoll ==
  ASSUME ReadersInv, NEW t \in Threads, NEW f \in Files, Poll(t, f)
  PROVE  ReadersInv'
<1>1. t \in Procs /\ PrioTypes /\ CallsKnown  BY DEF Procs, ReadersInv
<1>2. /\ pc' = [pc EXCEPT ![t] = "ensure"] /\ kind' = [kind EXCEPT ![t] = "poll"] /\ file' = [file EXCEPT ![t] = f]
      /\ reading' = reading /\ pc[t] = "idle"
  BY DEF Poll, Goto, books
<1>3. \A g \in Files : ReadersOf(g)' = ReadersOf(g)
  BY <1>1, <1>2 DEF ReadersOf, PrioTypes, PriorityTypeOK, Procs, ReaderPlaces, SelectedPlaces
<1>4. ReadingExact'  BY <1>2, <1>3, SameReaders
<1>5. PrioTypes'  BY <1>1, <1>2 DEF PrioTypes, PriorityTypeOK, Poll, books, prios, tails, PrioPlaces, ReaderPlaces
<1>6. CallsKnown'
  <2>1. t # Guesser  BY EnginePriorityAssumption
  <2>2. QED  BY <1>1, <1>2, <2>1 DEF CallsKnown, PrioTypes, PriorityTypeOK, Procs, Poll, HasNext
<1>7. ReadersSelected'
  BY <1>1, <1>2 DEF ReadersInv, ReadersSelected, PrioTypes, PriorityTypeOK, Procs, Poll, books
<1>8. QED  BY <1>4, <1>5, <1>6, <1>7 DEF ReadersInv

\* NewReader counts one more.
LEMMA ROpen ==
  ASSUME ReadersInv, NEW t \in Threads, NEW f \in Files, Open(t, f)
  PROVE  ReadersInv'
<1>1. t \in Procs /\ PrioTypes /\ CallsKnown  BY DEF Procs, ReadersInv
<1>2. /\ pc' = [pc EXCEPT ![t] = "ensure"] /\ kind' = [kind EXCEPT ![t] = "open"] /\ file' = [file EXCEPT ![t] = f]
      /\ reading' = [reading EXCEPT ![f] = @ + 1] /\ reading[f] < MaxReads /\ pc[t] = "idle"
  BY DEF Open, Goto
<1>3. reading \in [Files -> 0 .. MaxReads] /\ MaxReads \in Nat
  BY <1>1, EnginePriorityAssumption DEF PrioTypes, PriorityTypeOK
<1>4. ReadingExact'
  <2>1. ASSUME NEW g \in Files  PROVE (IsFiniteSet(ReadersOf(g)) /\ reading[g] = Cardinality(ReadersOf(g)))'
    <3>1. PICK S : S = ReadersOf(g)  OBVIOUS
    <3>2. IsFiniteSet(S) /\ reading[g] = Cardinality(S)  BY <2>1, <3>1 DEF ReadersInv, ReadingExact
    <3>3. t \notin S  BY <1>2, <3>1 DEF ReadersOf, ReaderPlaces, SelectedPlaces
    <3>4. CASE g = f
      <4>1. ReadersOf(g)' = S \cup {t}
        BY <1>1, <1>2, <3>1, <3>4 DEF ReadersOf, PrioTypes, PriorityTypeOK, Procs, ReaderPlaces
      <4>2. IsFiniteSet(S \cup {t}) /\ Cardinality(S \cup {t}) = Cardinality(S) + 1  BY ONLY <3>2, <3>3, FS_AddElement
      <4>3. reading'[g] = reading[g] + 1  BY <1>2, <1>3, <3>4
      <4>4. QED  BY <3>2, <4>1, <4>2, <4>3
    <3>5. CASE g # f
      <4>1. ReadersOf(g)' = S
        BY <1>1, <1>2, <3>1, <3>3, <3>5 DEF ReadersOf, PrioTypes, PriorityTypeOK, Procs
      <4>2. reading'[g] = reading[g]  BY <1>2, <1>3, <2>1, <3>5
      <4>3. QED  BY <3>2, <4>1, <4>2
    <3>6. QED  BY <3>4, <3>5
  <2>2. QED  BY <2>1 DEF ReadingExact
<1>5. PrioTypes'
  BY <1>1, <1>2, <1>3 DEF PrioTypes, PriorityTypeOK, Open, prios, tails, PrioPlaces, ReaderPlaces
<1>6. CallsKnown'
  <2>1. t # Guesser  BY EnginePriorityAssumption
  <2>2. QED  BY <1>1, <1>2, <2>1 DEF CallsKnown, PrioTypes, PriorityTypeOK, Procs, Open, HasNext
<1>7. ReadersSelected'
  BY <1>1, <1>2 DEF ReadersInv, ReadersSelected, PrioTypes, PriorityTypeOK, Procs, Open
<1>8. QED  BY <1>4, <1>5, <1>6, <1>7 DEF ReadersInv

\* The pieces of the demoted files; Close ends here.
LEMMA RReset ==
  ASSUME ReadersInv, NEW t \in Threads, Reset(t)
  PROVE  ReadersInv'
<1>1. t \in Procs /\ PrioTypes /\ CallsKnown /\ t # Guesser  BY EnginePriorityAssumption DEF Procs, ReadersInv
<1>2. UNCHANGED <<selected, reading, already>> /\ pc[t] = "reset" /\ kind[t] \in {"open", "poll", "close"}
  BY <1>1 DEF Reset, books, CallsKnown, PrioTypes
<1>3. PICK l \in PrioPlaces : pc' = [pc EXCEPT ![t] = l]
           /\ (kind[t] = "close" => l = "idle" /\ kind' = [kind EXCEPT ![t] = "none"] /\ file' = [file EXCEPT ![t] = GuessedFile])
           /\ (kind[t] # "close" => l = "download" /\ kind' = kind /\ file' = file)
  <2>1. CASE kind[t] = "close"  BY <2>1 DEF Reset, Return, Goto, PrioPlaces
  <2>2. CASE kind[t] # "close"  BY <2>2 DEF Reset, Proceed, Goto, PrioPlaces, ReaderPlaces, SelectedPlaces
  <2>3. QED  BY <2>1, <2>2
<1>4. demote' = [demote EXCEPT ![t] = {}] /\ keep' = [keep EXCEPT ![t] = {}]  BY DEF Reset
<1>5. \A f \in Files : ReadersOf(f)' = ReadersOf(f)
  BY <1>1, <1>2, <1>3 DEF PrioTypes, PriorityTypeOK, ReadersOf, Procs, ReaderPlaces, SelectedPlaces
<1>6. ReadingExact'  BY <1>2, <1>5, SameReaders
<1>7. PrioTypes'
  <2>1. bprio' \in [Pieces -> {None, Normal, Now}]  BY <1>1 DEF Reset, PrioTypes, PriorityTypeOK
  <2>2. kind' \in [Procs -> {"none", "open", "poll", "close"}] /\ file' \in [Procs -> Files] /\ pc' \in [Procs -> PrioPlaces]
    BY <1>1, <1>2, <1>3, EnginePriorityAssumption DEF PrioTypes, PriorityTypeOK
  <2>3. demote' \in [Procs -> SUBSET Files] /\ keep' \in [Procs -> SUBSET Files]
    BY <1>1, <1>4 DEF PrioTypes, PriorityTypeOK
  <2>4. QED  BY <1>1, <2>1, <2>2, <2>3 DEF PrioTypes, PriorityTypeOK, Reset, books, tails
<1>8. CallsKnown'
  <2>1. (pc[Guesser] \in {"guess", "raise", "done"})'  BY <1>1, <1>3 DEF CallsKnown, PrioTypes, Procs
  <2>2. ASSUME NEW u \in Threads
        PROVE  (/\ pc[u] \notin {"guess", "done"}
                /\ pc[u] \in {"prime", "raise", "warm", "prefetch", "raiseNext", "reading", "recheck"} => kind[u] = "open"
                /\ pc[u] \in {"ensure", "demote", "download"} => kind[u] \in {"open", "poll"}
                /\ pc[u] = "raiseNext" => HasNext(file[u])
                /\ kind[u] = "close" => demote[u] # {}
                /\ pc[u] # "idle" => kind[u] # "none")'
    <3>1. CASE u = t  BY <1>1, <1>2, <1>3, <1>4, <3>1 DEF PrioTypes, PriorityTypeOK
    <3>2. CASE u # t  BY <1>1, <1>2, <1>3, <1>4, <2>2, <3>2 DEF CallsKnown, PrioTypes, PriorityTypeOK, Procs, HasNext
    <3>3. QED  BY <3>1, <3>2
  <2>3. ASSUME NEW q \in Procs  PROVE (pc[q] \notin {"demote", "release", "reset"} => demote[q] = {})'
    BY <1>1, <1>3, <1>4, <2>3 DEF CallsKnown, PrioTypes, PriorityTypeOK
  <2>4. QED  BY <2>1, <2>2, <2>3 DEF CallsKnown
<1>9. ReadersSelected'
  BY <1>1, <1>2, <1>3 DEF ReadersInv, ReadersSelected, PrioTypes, PriorityTypeOK, Procs
<1>10. QED  BY <1>6, <1>7, <1>8, <1>9 DEF ReadersInv

\* File.Download; a poll ends here.
LEMMA RDownload ==
  ASSUME ReadersInv, NEW t \in Threads, Download(t)
  PROVE  ReadersInv'
<1>1. t \in Procs /\ PrioTypes /\ CallsKnown /\ t # Guesser  BY EnginePriorityAssumption DEF Procs, ReadersInv
<1>2. UNCHANGED <<selected, reading, demote, keep>> /\ pc[t] = "download" /\ kind[t] \in {"open", "poll"}
  BY <1>1 DEF Download, books, CallsKnown, PrioTypes
<1>3. PICK l \in PrioPlaces : pc' = [pc EXCEPT ![t] = l]
           /\ (kind[t] = "poll" => l = "idle" /\ kind' = [kind EXCEPT ![t] = "none"] /\ file' = [file EXCEPT ![t] = GuessedFile])
           /\ (kind[t] # "poll" => l = "prime" /\ kind' = kind /\ file' = file)
  <2>1. CASE kind[t] = "poll"  BY <2>1 DEF Download, Return, Goto, PrioPlaces
  <2>2. CASE kind[t] # "poll"  BY <2>2 DEF Download, Proceed, Goto, PrioPlaces, ReaderPlaces, SelectedPlaces
  <2>3. QED  BY <2>1, <2>2
<1>5. \A f \in Files : ReadersOf(f)' = ReadersOf(f)
  BY <1>1, <1>2, <1>3 DEF PrioTypes, PriorityTypeOK, ReadersOf, Procs, ReaderPlaces, SelectedPlaces
<1>6. ReadingExact'  BY <1>2, <1>5, SameReaders
<1>7. PrioTypes'
  <2>1. filePrio' \in [Files -> {None, Normal}] /\ already' \in [Procs -> BOOLEAN]
    BY <1>1 DEF Download, PrioTypes, PriorityTypeOK
  <2>2. kind' \in [Procs -> {"none", "open", "poll", "close"}] /\ file' \in [Procs -> Files] /\ pc' \in [Procs -> PrioPlaces]
    BY <1>1, <1>2, <1>3, EnginePriorityAssumption DEF PrioTypes, PriorityTypeOK
  <2>3. QED  BY <1>1, <2>1, <2>2 DEF PrioTypes, PriorityTypeOK, Download, books, tails
<1>8. CallsKnown'
  <2>1. (pc[Guesser] \in {"guess", "raise", "done"})'  BY <1>1, <1>3 DEF CallsKnown, PrioTypes, Procs
  <2>2. ASSUME NEW u \in Threads
        PROVE  (/\ pc[u] \notin {"guess", "done"}
                /\ pc[u] \in {"prime", "raise", "warm", "prefetch", "raiseNext", "reading", "recheck"} => kind[u] = "open"
                /\ pc[u] \in {"ensure", "demote", "download"} => kind[u] \in {"open", "poll"}
                /\ pc[u] = "raiseNext" => HasNext(file[u])
                /\ kind[u] = "close" => demote[u] # {}
                /\ pc[u] # "idle" => kind[u] # "none")'
    <3>1. CASE u = t  BY <1>1, <1>2, <1>3, <3>1 DEF PrioTypes, PriorityTypeOK
    <3>2. CASE u # t  BY <1>1, <1>2, <1>3, <2>2, <3>2 DEF CallsKnown, PrioTypes, PriorityTypeOK, Procs, HasNext
    <3>3. QED  BY <3>1, <3>2
  <2>3. ASSUME NEW q \in Procs  PROVE (pc[q] \notin {"demote", "release", "reset"} => demote[q] = {})'
    BY <1>1, <1>2, <1>3, <2>3 DEF CallsKnown, PrioTypes, PriorityTypeOK
  <2>4. QED  BY <2>1, <2>2, <2>3 DEF CallsKnown
<1>9. ReadersSelected'
  BY <1>1, <1>2, <1>3 DEF ReadersInv, ReadersSelected, PrioTypes, PriorityTypeOK, Procs
<1>10. QED  BY <1>6, <1>7, <1>8, <1>9 DEF ReadersInv

\* Close counts one less; the last reader deselects the file.
LEMMA RClose ==
  ASSUME ReadersInv, NEW t \in Threads, Close(t)
  PROVE  ReadersInv'
<1> DEFINE f == file[t]
<1>1. t \in Procs /\ PrioTypes /\ CallsKnown /\ t # Guesser  BY EnginePriorityAssumption DEF Procs, ReadersInv
<1>2. pc[t] = "reading" /\ kind[t] = "open" /\ f \in Files /\ reading' = [reading EXCEPT ![f] = @ - 1]
  BY <1>1 DEF Close, CallsKnown, PrioTypes, PriorityTypeOK
<1>3. reading \in [Files -> 0 .. MaxReads] /\ MaxReads \in Nat
  BY <1>1, EnginePriorityAssumption DEF PrioTypes, PriorityTypeOK
<1>4. PICK l \in {"recheck", "idle"} : pc' = [pc EXCEPT ![t] = l]
           /\ (l = "recheck" => reading[f] = 1 /\ kind' = kind /\ file' = file /\ selected' = selected \ {f} /\ primed' = primed \ {f})
           /\ (l = "idle" => /\ kind' = [kind EXCEPT ![t] = "none"] /\ file' = [file EXCEPT ![t] = GuessedFile]
                             /\ UNCHANGED <<selected, primed>>)
  <2>1. CASE reading[f] = 1  BY <2>1 DEF Close, Proceed, Goto
  <2>2. CASE reading[f] # 1  BY <2>2 DEF Close, Return, Goto
  <2>3. QED  BY <2>1, <2>2
<1>5. ASSUME NEW g \in Files  PROVE ReadersOf(g)' = ReadersOf(g) \ {t} /\ (t \in ReadersOf(g) <=> g = f)
  BY <1>1, <1>2, <1>4, <1>5 DEF ReadersOf, PrioTypes, PriorityTypeOK, Procs, ReaderPlaces, SelectedPlaces
<1>6. ASSUME NEW g \in Files
      PROVE  /\ IsFiniteSet(ReadersOf(g) \ {t})
             /\ Cardinality(ReadersOf(g) \ {t}) = IF g = f THEN reading[g] - 1 ELSE reading[g]
  <2>1. PICK S : S = ReadersOf(g)  OBVIOUS
  <2>2. IsFiniteSet(S) /\ reading[g] = Cardinality(S)  BY <1>6, <2>1 DEF ReadersInv, ReadingExact
  <2>3. CASE g = f
    <3>1. t \in S  BY <1>2, <1>5, <2>1, <2>3
    <3>2. IsFiniteSet(S \ {t}) /\ Cardinality(S \ {t}) = Cardinality(S) - 1  BY ONLY <2>2, <3>1, FS_RemoveElement
    <3>3. QED  BY <2>1, <2>2, <2>3, <3>2
  <2>4. CASE g # f
    <3>1. S \ {t} = S  BY <1>5, <1>6, <2>1, <2>4
    <3>2. QED  BY <2>1, <2>2, <2>4, <3>1
  <2>5. QED  BY <2>3, <2>4
<1>7. ReadingExact'
  <2>1. ASSUME NEW g \in Files  PROVE (IsFiniteSet(ReadersOf(g)) /\ reading[g] = Cardinality(ReadersOf(g)))'
    <3>1. reading'[g] = IF g = f THEN reading[g] - 1 ELSE reading[g]  BY <1>2, <1>3, <2>1
    <3>2. QED  BY <1>5, <1>6, <2>1, <3>1
  <2>2. QED  BY <2>1 DEF ReadingExact
<1>8. PrioTypes'
  <2>1. reading[f] \in 1 .. MaxReads
    <3>1. reading[f] \in Nat \ {0}  BY <1>2, ReaderCounted DEF ReaderPlaces, SelectedPlaces
    <3>2. QED  BY <1>2, <1>3, <3>1
  <2>2. reading' \in [Files -> 0 .. MaxReads]  BY <1>2, <1>3, <2>1
  <2>3. pc' \in [Procs -> PrioPlaces] /\ kind' \in [Procs -> {"none", "open", "poll", "close"}] /\ file' \in [Procs -> Files]
    BY <1>1, <1>2, <1>4, EnginePriorityAssumption DEF PrioTypes, PriorityTypeOK, PrioPlaces
  <2>4. selected' \subseteq Files /\ primed' \subseteq Files  BY <1>1, <1>4 DEF PrioTypes, PriorityTypeOK
  <2>5. QED  BY <1>1, <2>2, <2>3, <2>4 DEF PrioTypes, PriorityTypeOK, Close, prios, tails
<1>9. CallsKnown'
  <2>0. UNCHANGED demote  BY DEF Close
  <2>1. (pc[Guesser] \in {"guess", "raise", "done"})'  BY <1>1, <1>4 DEF CallsKnown, PrioTypes, Procs
  <2>2. ASSUME NEW u \in Threads
        PROVE  (/\ pc[u] \notin {"guess", "done"}
                /\ pc[u] \in {"prime", "raise", "warm", "prefetch", "raiseNext", "reading", "recheck"} => kind[u] = "open"
                /\ pc[u] \in {"ensure", "demote", "download"} => kind[u] \in {"open", "poll"}
                /\ pc[u] = "raiseNext" => HasNext(file[u])
                /\ kind[u] = "close" => demote[u] # {}
                /\ pc[u] # "idle" => kind[u] # "none")'
    <3>1. CASE u = t  BY <1>1, <1>2, <1>4, <3>1 DEF PrioTypes, PriorityTypeOK
    <3>2. CASE u # t  BY <1>1, <1>2, <1>4, <2>0, <2>2, <3>2 DEF CallsKnown, PrioTypes, PriorityTypeOK, Procs, HasNext
    <3>3. QED  BY <3>1, <3>2
  <2>3. ASSUME NEW q \in Procs  PROVE (pc[q] \notin {"demote", "release", "reset"} => demote[q] = {})'
    BY <1>1, <1>2, <1>4, <2>0, <2>3 DEF CallsKnown, PrioTypes, PriorityTypeOK
  <2>4. QED  BY <2>1, <2>2, <2>3 DEF CallsKnown
<1>10. ReadersSelected'
  <2>1. SUFFICES ASSUME NEW u \in Threads, (pc[u] \in SelectedPlaces /\ kind[u] = "open")'
                 PROVE  file'[u] \in selected'
    BY DEF ReadersSelected, SelectedPlaces
  <2>2. u # t  BY <1>1, <1>2, <1>4, <2>1 DEF PrioTypes, PriorityTypeOK, SelectedPlaces
  <2>3. u \in Procs /\ pc[u] \in SelectedPlaces /\ kind[u] = "open" /\ file'[u] = file[u]
    BY <1>1, <1>2, <1>4, <2>1, <2>2 DEF PrioTypes, PriorityTypeOK, Procs
  <2>4. file[u] \in selected /\ file[u] \in Files
    BY <1>1, <2>3 DEF ReadersInv, ReadersSelected, SelectedPlaces, PrioTypes, PriorityTypeOK
  <2>5. ASSUME l = "recheck"  PROVE file[u] # f
    <3>1. SUFFICES ASSUME file[u] = f PROVE FALSE  OBVIOUS
    <3>2. PICK S : S = ReadersOf(f) \ {t}  OBVIOUS
    <3>3. u \in S  BY <2>2, <2>3, <3>1, <3>2 DEF ReadersOf, ReaderPlaces
    <3>4. reading[f] = 1  BY <1>4, <2>5
    <3>5. IsFiniteSet(S) /\ Cardinality(S) = 0  BY <1>2, <1>6, <3>2, <3>4
    <3>6. QED  BY ONLY <3>3, <3>5, FS_EmptySet
  <2>6. QED  BY <1>4, <2>3, <2>4, <2>5
<1>11. QED  BY <1>7, <1>8, <1>9, <1>10 DEF ReadersInv

\* The second section of Close.
LEMMA RRecheck ==
  ASSUME ReadersInv, NEW t \in Threads, Recheck(t)
  PROVE  ReadersInv'
<1> DEFINE f == file[t]
<1>1. t \in Procs /\ PrioTypes /\ CallsKnown /\ t # Guesser  BY EnginePriorityAssumption DEF Procs, ReadersInv
<1>2. UNCHANGED <<selected, reading, keep>> /\ pc[t] = "recheck" /\ f \in Files
  BY <1>1 DEF Recheck, PrioTypes, PriorityTypeOK
<1>3. PICK l \in {"release", "idle"} : pc' = [pc EXCEPT ![t] = l]
           /\ (l = "release" => kind' = [kind EXCEPT ![t] = "close"] /\ file' = file /\ demote' = [demote EXCEPT ![t] = {f}])
           /\ (l = "idle" => /\ kind' = [kind EXCEPT ![t] = "none"] /\ file' = [file EXCEPT ![t] = GuessedFile]
                             /\ demote' = demote)
  <2>1. CASE reading[f] = 0 /\ f \notin selected  BY <2>1 DEF Recheck, Goto
  <2>2. CASE ~(reading[f] = 0 /\ f \notin selected)  BY <2>2 DEF Recheck, Return, Goto
  <2>3. QED  BY <2>1, <2>2
<1>4. prefetched' \subseteq Files /\ filePrio' \in [Files -> {None, Normal}]
  <2>1. CASE reading[f] = 0 /\ f \notin selected  BY <1>1, <2>1 DEF Recheck, PrioTypes, PriorityTypeOK
  <2>2. CASE ~(reading[f] = 0 /\ f \notin selected)  BY <1>1, <2>2 DEF Recheck, PrioTypes, PriorityTypeOK
  <2>3. QED  BY <2>1, <2>2
<1>5. \A g \in Files : ReadersOf(g)' = ReadersOf(g)
  BY <1>1, <1>2, <1>3 DEF PrioTypes, PriorityTypeOK, ReadersOf, Procs, ReaderPlaces, SelectedPlaces
<1>6. ReadingExact'  BY <1>2, <1>5, SameReaders
<1>7. PrioTypes'
  <2>1. kind' \in [Procs -> {"none", "open", "poll", "close"}] /\ file' \in [Procs -> Files] /\ pc' \in [Procs -> PrioPlaces]
    BY <1>1, <1>2, <1>3, EnginePriorityAssumption DEF PrioTypes, PriorityTypeOK, PrioPlaces, ReaderPlaces, SelectedPlaces
  <2>2. demote' \in [Procs -> SUBSET Files]  BY <1>1, <1>2, <1>3 DEF PrioTypes, PriorityTypeOK
  <2>3. QED  BY <1>1, <1>4, <2>1, <2>2 DEF PrioTypes, PriorityTypeOK, Recheck, tails
<1>8. CallsKnown'
  <2>1. (pc[Guesser] \in {"guess", "raise", "done"})'  BY <1>1, <1>3 DEF CallsKnown, PrioTypes, Procs
  <2>2. ASSUME NEW u \in Threads
        PROVE  (/\ pc[u] \notin {"guess", "done"}
                /\ pc[u] \in {"prime", "raise", "warm", "prefetch", "raiseNext", "reading", "recheck"} => kind[u] = "open"
                /\ pc[u] \in {"ensure", "demote", "download"} => kind[u] \in {"open", "poll"}
                /\ pc[u] = "raiseNext" => HasNext(file[u])
                /\ kind[u] = "close" => demote[u] # {}
                /\ pc[u] # "idle" => kind[u] # "none")'
    <3>1. CASE u = t  BY <1>1, <1>2, <1>3, <3>1 DEF PrioTypes, PriorityTypeOK
    <3>2. CASE u # t  BY <1>1, <1>2, <1>3, <2>2, <3>2 DEF CallsKnown, PrioTypes, PriorityTypeOK, Procs, HasNext
    <3>3. QED  BY <3>1, <3>2
  <2>3. ASSUME NEW q \in Procs  PROVE (pc[q] \notin {"demote", "release", "reset"} => demote[q] = {})'
    BY <1>1, <1>2, <1>3, <2>3 DEF CallsKnown, PrioTypes, PriorityTypeOK
  <2>4. QED  BY <2>1, <2>2, <2>3 DEF CallsKnown
<1>9. ReadersSelected'
  BY <1>1, <1>2, <1>3 DEF ReadersInv, ReadersSelected, PrioTypes, PriorityTypeOK, Procs
<1>10. QED  BY <1>6, <1>7, <1>8, <1>9 DEF ReadersInv

\* The tail pre-reads change no reader.
LEMMA RTails ==
  ASSUME ReadersInv, NEW f \in Files, TailDelivered(f) \/ AbandonTailWarm(f) \/ TailDemote(f)
  PROVE  ReadersInv'
<1>1. UNCHANGED <<selected, primed, prefetched, reading, bprio, bmu, pc, kind, file, already, demote, keep>>
  BY DEF TailDelivered, AbandonTailWarm, TailDemote, books, prios, locals
<1>2. PrioTypes'
  <2>1. warming' \in [Files -> Nat] /\ abandoned' \in [Files -> Nat]
    BY DEF ReadersInv, PrioTypes, PriorityTypeOK, TailDelivered, AbandonTailWarm, TailDemote
  <2>2. tailWarmed' \subseteq Files /\ filePrio' \in [Files -> {None, Normal}]
    BY DEF ReadersInv, PrioTypes, PriorityTypeOK, TailDelivered, AbandonTailWarm, TailDemote, books, prios
  <2>3. QED  BY <1>1, <2>1, <2>2 DEF ReadersInv, PrioTypes, PriorityTypeOK
<1>3. \A g \in Files : ReadersOf(g)' = ReadersOf(g)  BY <1>1 DEF ReadersOf
<1>4. ReadingExact'  BY <1>1, <1>3, SameReaders
<1>5. CallsKnown' /\ ReadersSelected'  BY <1>1 DEF ReadersInv, CallsKnown, ReadersSelected, HasNext
<1>6. QED  BY <1>2, <1>4, <1>5 DEF ReadersInv

LEMMA ReadersInitial ==
  PriorityInit => ReadersInv
<1>1. SUFFICES ASSUME PriorityInit PROVE ReadersInv  OBVIOUS
<1>2. PrioTypes  BY <1>1, EnginePriorityAssumption DEF PriorityInit, PrioTypes, PriorityTypeOK, PrioPlaces
<1>3. CallsKnown  BY <1>1, EnginePriorityAssumption DEF PriorityInit, CallsKnown, Procs
<1>4. \A t \in Threads : pc[t] = "idle"  BY <1>1, EnginePriorityAssumption DEF PriorityInit, Procs
<1>5. \A f \in Files : ReadersOf(f) = {}  BY <1>4 DEF ReadersOf, ReaderPlaces, SelectedPlaces
<1>6. ReadingExact  BY <1>1, <1>5, FS_EmptySet DEF ReadingExact, PriorityInit
<1>7. ReadersSelected  BY <1>4 DEF ReadersSelected
<1>8. QED  BY <1>2, <1>3, <1>6, <1>7 DEF ReadersInv

LEMMA ReadersKept ==
  ReadersInv /\ [PriorityNext]_prioVars => ReadersInv'
<1>1. SUFFICES ASSUME ReadersInv, [PriorityNext]_prioVars PROVE ReadersInv'  OBVIOUS
<1>2. CASE UNCHANGED prioVars
  BY <1>1, <1>2 DEF prioVars, books, prios, tails, locals, ReadersInv, PrioTypes, PriorityTypeOK, CallsKnown, HasNext,
    ReadingExact, ReadersOf, ReadersSelected
<1>3. CASE PriorityNext
  BY <1>1, <1>3, ROpen, RPoll, REnsure, RDemote, RRelease, RReset, RDownload, RWarmMoov, RPrefetchNext, RRaiseNext,
    RClose, RRecheck, RPrime, RRaise, RTails DEF PriorityNext
<1>4. QED  BY <1>1, <1>2, <1>3

\* However calls overlap, readingFiles counts the readers of each file and a file stays
\* selected from the moment its reader's ensureDownloading ran until its last Close.
THEOREM ReadersStaySelected == PrioritySpec => []ReadersInv
<1>1. QED  BY ReadersInitial, ReadersKept, PTL DEF PrioritySpec

-----------------------------------------------------------------------------
(* One call at a time *)

\* What a call has to release covers what it was to release before, unless pieces are reset.
LEMMA StillAccounted ==
  ASSUME NEW p \in Procs, Accounted(p), \A i \in Pieces : bprio'[i] # None => bprio[i] # None,
         InUse \cup ToRelease(p) \subseteq (InUse \cup ToRelease(p))'
  PROVE  Accounted(p)'
<1>1. Spans(InUse \cup ToRelease(p)) \subseteq Spans((InUse \cup ToRelease(p))')  BY SpansGrow
<1>2. Spans((InUse \cup ToRelease(p))') = Spans(InUse \cup ToRelease(p))'  BY DEF Spans, SpansOf, BoundarySpans, PrefetchSpans, HasNext
<1>3. QED  BY <1>1, <1>2 DEF Accounted

\* A reader is counted before its file is selected.
LEMMA SOpen ==
  ASSUME ReadersInv, NEW t \in Threads, NEW f \in Files, CallSound(t), Open(t, f)
  PROVE  CallSound(t)'
<1>1. t \in Procs /\ PrioTypes /\ CallsKnown /\ ReadersSelected  BY DEF Procs, ReadersInv
<1>2. pc' = [pc EXCEPT ![t] = "ensure"] /\ kind' = [kind EXCEPT ![t] = "open"] /\ file' = [file EXCEPT ![t] = f] /\ pc[t] = "idle"
      /\ reading' = [reading EXCEPT ![f] = @ + 1] /\ UNCHANGED <<selected, primed, filePrio, bprio>>
  BY DEF Open, Goto, prios
<1>3. pc'[t] = "ensure" /\ kind'[t] = "open" /\ file'[t] = f
  BY <1>1, <1>2 DEF PrioTypes, PriorityTypeOK
<1>4. InUse \subseteq InUse'
  BY <1>1, <1>2 DEF InUse, PrioTypes, PriorityTypeOK
<1>5. Marked(t)'
  BY <1>2, <1>3 DEF CallSound, Marked, ToMark
<1>6. Unmarked(t)'
  BY <1>2, <1>3 DEF CallSound, Unmarked, ToUnmark
<1>7. Raised(t)'
  BY <1>2, <1>3 DEF CallSound, Raised, ToRaise, BoundarySpans
<1>8. Accounted(t)'
  BY <1>1, <1>2, <1>3, <1>4, StillAccounted DEF CallSound, ToRelease
<1>9. Opened(t)'
  BY <1>1, <1>2, <1>3 DEF CallSound, Opened, ToOpen, PrioTypes, PriorityTypeOK
<1>10. MidCall(t)'
  BY <1>3 DEF MidCall
<1>11. QED  BY <1>5, <1>6, <1>7, <1>8, <1>9, <1>10 DEF CallSound

\* A poll begins.
LEMMA SPoll ==
  ASSUME ReadersInv, NEW t \in Threads, NEW f \in Files, CallSound(t), Poll(t, f)
  PROVE  CallSound(t)'
<1>1. t \in Procs /\ PrioTypes /\ CallsKnown /\ ReadersSelected  BY DEF Procs, ReadersInv
<1>2. pc' = [pc EXCEPT ![t] = "ensure"] /\ kind' = [kind EXCEPT ![t] = "poll"] /\ file' = [file EXCEPT ![t] = f] /\ pc[t] = "idle"
      /\ UNCHANGED <<selected, primed, reading, filePrio, bprio>>
  BY DEF Poll, Goto, prios, books
<1>3. pc'[t] = "ensure" /\ kind'[t] = "poll" /\ file'[t] = f
  BY <1>1, <1>2 DEF PrioTypes, PriorityTypeOK
<1>4. InUse \subseteq InUse'
  BY <1>2 DEF InUse
<1>5. Marked(t)'
  BY <1>2, <1>3 DEF CallSound, Marked, ToMark
<1>6. Unmarked(t)'
  BY <1>2, <1>3 DEF CallSound, Unmarked, ToUnmark
<1>7. Raised(t)'
  BY <1>2, <1>3 DEF CallSound, Raised, ToRaise, BoundarySpans
<1>8. Accounted(t)'
  BY <1>1, <1>2, <1>3, <1>4, StillAccounted DEF CallSound, ToRelease
<1>9. Opened(t)'
  BY <1>2, <1>3 DEF CallSound, Opened, ToOpen
<1>10. MidCall(t)'
  BY <1>3 DEF MidCall
<1>11. QED  BY <1>5, <1>6, <1>7, <1>8, <1>9, <1>10 DEF CallSound

\* Selected files that nobody reads give way to the file of the call.
LEMMA SEnsure ==
  ASSUME ReadersInv, NEW t \in Threads, CallSound(t), Ensure(t)
  PROVE  CallSound(t)'
<1>1. t \in Procs /\ PrioTypes /\ CallsKnown /\ ReadersSelected  BY DEF Procs, ReadersInv
<1>2. /\ file[t] \in Files /\ pc[t] = "ensure" /\ pc'[t] = "demote" /\ kind'[t] = kind[t] /\ file'[t] = file[t]
      /\ already'[t] = (file[t] \in selected) /\ demote'[t] = Abandonable(file[t]) /\ kind[t] \in {"open", "poll"}
  BY <1>1 DEF Ensure, Goto, CallsKnown, PrioTypes, PriorityTypeOK
<1>3. /\ selected' = (selected \ Abandonable(file[t])) \cup {file[t]}
      /\ primed' = (primed \ Abandonable(file[t])) \ (IF file[t] \in selected THEN {} ELSE {file[t]})
      /\ UNCHANGED <<reading, filePrio, bprio>>
  BY DEF Ensure, prios
<1>4. InUse \subseteq InUse' \cup demote'[t]
  BY <1>2, <1>3 DEF InUse
<1>5. selected \subseteq Files /\ primed \subseteq Files
  BY <1>1 DEF PrioTypes, PriorityTypeOK
<1>6. Marked(t)'
  BY <1>2, <1>3 DEF CallSound, Marked, ToMark
<1>7. Unmarked(t)'
  BY <1>2, <1>3 DEF CallSound, Unmarked, ToUnmark
<1>8. Raised(t)'
  BY <1>2, <1>3 DEF CallSound, Raised, ToRaise, BoundarySpans
<1>9. Accounted(t)'
  BY <1>1, <1>2, <1>3, <1>4, StillAccounted DEF CallSound, ToRelease
<1>10. Opened(t)'
  BY <1>2, <1>3 DEF CallSound, Opened, ToOpen, Abandonable
<1>11. MidCall(t)'
  BY <1>2, <1>3 DEF MidCall, InUse, Abandonable
<1>12. QED  BY <1>6, <1>7, <1>8, <1>9, <1>10, <1>11 DEF CallSound

\* The abandoned files lose their mark.
LEMMA SDemote ==
  ASSUME ReadersInv, NEW t \in Threads, CallSound(t), Demote(t)
  PROVE  CallSound(t)'
<1>1. t \in Procs /\ PrioTypes /\ CallsKnown /\ ReadersSelected  BY DEF Procs, ReadersInv
<1>2. /\ pc[t] = "demote" /\ pc'[t] = "release" /\ UNCHANGED <<selected, primed, reading, bprio, kind, file, already, demote, keep>>
      /\ filePrio' = [f \in Files |-> IF f \in demote[t] THEN None ELSE filePrio[f]]
  BY <1>1 DEF Demote, Goto, books, locals, PrioTypes, PriorityTypeOK
<1>3. InUse' = InUse
  BY <1>2 DEF InUse
<1>4. demote[t] \cap InUse = {} /\ demote[t] \subseteq Files /\ selected \subseteq Files
  BY <1>1, <1>2 DEF CallSound, MidCall, PrioTypes, PriorityTypeOK
<1>5. Marked(t)'
  BY <1>2, <1>4 DEF CallSound, Marked, ToMark, InUse
<1>6. Unmarked(t)'
  BY <1>2, <1>4 DEF CallSound, Unmarked, ToUnmark, None, Normal
<1>7. Raised(t)'
  BY <1>2 DEF CallSound, Raised, ToRaise, BoundarySpans
<1>8. Accounted(t)'
  BY <1>1, <1>2, <1>3, StillAccounted DEF CallSound, ToRelease
<1>9. Opened(t)'
  BY <1>2 DEF CallSound, Opened, ToOpen
<1>10. MidCall(t)'
  BY <1>2, <1>3, <1>4 DEF CallSound, MidCall
<1>11. QED  BY <1>5, <1>6, <1>7, <1>8, <1>9, <1>10 DEF CallSound

\* What is in use is what the reset keeps.
LEMMA SRelease ==
  ASSUME ReadersInv, NEW t \in Threads, CallSound(t), Release(t)
  PROVE  CallSound(t)'
<1>1. t \in Procs /\ PrioTypes /\ CallsKnown /\ ReadersSelected  BY DEF Procs, ReadersInv
<1>2. /\ pc[t] = "release" /\ UNCHANGED <<selected, primed, reading, filePrio, bprio, kind, file, already, demote>>
  BY DEF Release, books, prios
<1>3. \/ demote[t] = {} /\ pc'[t] = "download"
      \/ pc'[t] = "reset" /\ keep'[t] = InUse \ demote[t]
  BY <1>1 DEF Release, Goto, PrioTypes, PriorityTypeOK
<1>4. InUse' = InUse
  BY <1>2 DEF InUse
<1>5. demote[t] \cap InUse = {}
  BY <1>2 DEF CallSound, MidCall
<1>6. Marked(t)'
  BY <1>2, <1>3 DEF CallSound, Marked, ToMark
<1>7. Unmarked(t)'
  BY <1>2, <1>3 DEF CallSound, Unmarked, ToUnmark
<1>8. Raised(t)'
  BY <1>2, <1>3 DEF CallSound, Raised, ToRaise, BoundarySpans
<1>9. Accounted(t)'
  BY <1>1, <1>2, <1>3, <1>4, StillAccounted DEF CallSound, ToRelease
<1>10. Opened(t)'
  BY <1>2, <1>3 DEF CallSound, Opened, ToOpen
<1>11. MidCall(t)'
  BY <1>2, <1>3, <1>4, <1>5 DEF CallSound, MidCall
<1>12. QED  BY <1>6, <1>7, <1>8, <1>9, <1>10, <1>11 DEF CallSound

\* The pieces of the demoted files are reset, but for those a file in use needs.
LEMMA SReset ==
  ASSUME ReadersInv, NEW t \in Threads, CallSound(t), Reset(t)
  PROVE  CallSound(t)'
<1>1. t \in Procs /\ PrioTypes /\ CallsKnown /\ ReadersSelected  BY DEF Procs, ReadersInv
<1>2. /\ pc[t] = "reset" /\ UNCHANGED <<selected, primed, reading, filePrio, already>> /\ keep[t] = InUse
      /\ bprio' = [i \in Pieces |-> IF i \in Spans(demote[t]) \ Spans(InUse) THEN None ELSE bprio[i]]
  BY DEF Reset, books, KeptPieces, CallSound, MidCall
<1>3. \/ kind[t] = "close" /\ pc'[t] = "idle" /\ kind'[t] = "none"
      \/ kind[t] # "close" /\ pc'[t] = "download" /\ kind'[t] = kind[t] /\ file'[t] = file[t]
  BY <1>1 DEF Reset, Return, Proceed, Goto, PrioTypes, PriorityTypeOK
<1>4. InUse' = InUse
  BY <1>2 DEF InUse
<1>5. Marked(t)'
  BY <1>2, <1>3 DEF CallSound, Marked, ToMark
<1>6. Unmarked(t)'
  BY <1>2, <1>3 DEF CallSound, Unmarked, ToUnmark
<1>7. Raised(t)'
  <2>1. SUFFICES ASSUME NEW x \in primed, NEW i \in BoundarySpans(x)  PROVE bprio'[i] = Now
    BY <1>2, <1>3 DEF Raised, ToRaise, BoundarySpans
  <2>2. x \in Files /\ x \in InUse  BY <1>1 DEF InUse, PrioTypes, PriorityTypeOK
  <2>3. i \in Pieces /\ i \in Spans(InUse)  BY <2>2, BoundaryPieces, OwnSpans
  <2>4. bprio[i] = Now  BY <1>2 DEF CallSound, Raised, ToRaise
  <2>5. QED  BY <1>2, <2>3, <2>4
<1>8. Accounted(t)'
  <2>1. SUFFICES ASSUME NEW i \in Pieces, bprio'[i] # None  PROVE i \in Spans(InUse)
    BY <1>2, <1>3, <1>4 DEF Accounted, ToRelease, Spans, SpansOf, BoundarySpans, PrefetchSpans, HasNext
  <2>2. bprio[i] # None /\ ~(i \in Spans(demote[t]) \ Spans(InUse))  BY <1>2, <2>1
  <2>3. i \in Spans(InUse \cup demote[t])  BY <1>2, <2>2 DEF CallSound, Accounted, ToRelease
  <2>4. QED  BY <2>2, <2>3, SpansJoin
<1>9. Opened(t)'
  BY <1>2, <1>3 DEF CallSound, Opened, ToOpen
<1>10. MidCall(t)'
  BY <1>2, <1>3, <1>4 DEF CallSound, MidCall
<1>11. QED  BY <1>5, <1>6, <1>7, <1>8, <1>9, <1>10 DEF CallSound

\* The file of the call is marked for download.
LEMMA SDownload ==
  ASSUME ReadersInv, NEW t \in Threads, CallSound(t), Download(t)
  PROVE  CallSound(t)'
<1>1. t \in Procs /\ PrioTypes /\ CallsKnown /\ ReadersSelected  BY DEF Procs, ReadersInv
<1>2. /\ pc[t] = "download" /\ UNCHANGED <<selected, primed, reading, bprio, demote>> /\ kind[t] \in {"open", "poll"}
      /\ filePrio' = [filePrio EXCEPT ![file[t]] = IF already[t] THEN @ ELSE Normal] /\ file[t] \in selected
  BY <1>1 DEF Download, books, CallsKnown, CallSound, MidCall
<1>3. \/ kind[t] = "poll" /\ pc'[t] = "idle" /\ kind'[t] = "none"
      \/ kind[t] = "open" /\ pc'[t] = "prime" /\ kind'[t] = "open" /\ file'[t] = file[t]
  BY <1>1, <1>2 DEF Download, Return, Proceed, Goto, PrioTypes, PriorityTypeOK
<1>4. InUse' = InUse
  BY <1>2 DEF InUse
<1>5. already[t] \in BOOLEAN /\ filePrio \in [Files -> {None, Normal}] /\ selected \subseteq Files
  BY <1>1 DEF PrioTypes, PriorityTypeOK
<1>6. \A x \in Files : filePrio'[x] = IF x = file[t] /\ ~already[t] THEN Normal ELSE filePrio[x]
  BY <1>2, <1>5
<1>7. Marked(t)'
  BY <1>2, <1>3, <1>5, <1>6 DEF CallSound, Marked, ToMark
<1>8. Unmarked(t)'
  BY <1>2, <1>3, <1>6 DEF CallSound, Unmarked, ToUnmark
<1>9. Raised(t)'
  BY <1>2, <1>3 DEF CallSound, Raised, ToRaise, BoundarySpans
<1>10. Accounted(t)'
  BY <1>1, <1>2, <1>3, <1>4, StillAccounted DEF CallSound, ToRelease
<1>11. Opened(t)'
  BY <1>2, <1>3 DEF CallSound, Opened, ToOpen
<1>12. MidCall(t)'
  BY <1>2, <1>3, <1>4 DEF CallSound, MidCall
<1>13. QED  BY <1>7, <1>8, <1>9, <1>10, <1>11, <1>12 DEF CallSound

\* A file is primed, and its pieces will be raised.
LEMMA SPrime ==
  ASSUME ReadersInv, NEW p \in Procs, CallSound(p), Prime(p)
  PROVE  CallSound(p)'
<1>1. p \in Procs /\ PrioTypes /\ CallsKnown /\ ReadersSelected  BY DEF Procs, ReadersInv
<1>2. /\ pc[p] \in {"prime", "guess"} /\ UNCHANGED <<selected, reading, filePrio, bprio, kind, file, demote>>
      /\ primed' = primed \cup {file[p]} /\ file[p] \in Files
  BY <1>1 DEF Prime, prios, locals, PrioTypes, PriorityTypeOK
<1>3. \/ file[p] \in primed /\ pc'[p] \in {"warm", "done"}
      \/ file[p] \notin primed /\ pc'[p] = "raise"
  BY <1>1 DEF Prime, Goto, AfterPrime, PrioTypes, PriorityTypeOK
<1>4. InUse \subseteq InUse'
  BY <1>2 DEF InUse
<1>5. pc[p] = "prime" => file[p] \in selected
  BY <1>1, <1>2 DEF CallsKnown, ReadersSelected, Procs
<1>6. Marked(p)'
  BY <1>2, <1>3 DEF CallSound, Marked, ToMark
<1>7. Unmarked(p)'
  BY <1>2, <1>3 DEF CallSound, Unmarked, ToUnmark
<1>8. Raised(p)'
  BY <1>2, <1>3 DEF CallSound, Raised, ToRaise, BoundarySpans
<1>9. Accounted(p)'
  BY <1>1, <1>2, <1>3, <1>4, StillAccounted DEF CallSound, ToRelease
<1>10. Opened(p)'
  BY <1>2, <1>3, <1>5 DEF CallSound, Opened, ToOpen
<1>11. MidCall(p)'
  BY <1>2, <1>3 DEF CallSound, MidCall
<1>12. QED  BY <1>6, <1>7, <1>8, <1>9, <1>10, <1>11 DEF CallSound

\* They are raised.
LEMMA SRaise ==
  ASSUME ReadersInv, NEW p \in Procs, CallSound(p), Raise(p)
  PROVE  CallSound(p)'
<1>1. p \in Procs /\ PrioTypes /\ CallsKnown /\ ReadersSelected  BY DEF Procs, ReadersInv
<1>2. /\ pc[p] = "raise" /\ UNCHANGED <<selected, primed, reading, filePrio, kind, file, demote>>
      /\ pc'[p] \in {"warm", "done"} /\ file[p] \in Files /\ file[p] \in primed
  BY <1>1 DEF Raise, Goto, AfterPrime, books, locals, CallSound, MidCall, PrioTypes, PriorityTypeOK
<1>3. \A i \in Pieces : /\ bprio[i] = Now => bprio'[i] = Now
                        /\ i \in BoundarySpans(file[p]) => bprio'[i] = Now
                        /\ bprio'[i] # None => bprio[i] # None \/ i \in BoundarySpans(file[p])
  BY <1>1, RaisedTo DEF Raise, PrioTypes, PriorityTypeOK
<1>4. InUse' = InUse /\ file[p] \in InUse
  BY <1>2 DEF InUse
<1>5. Marked(p)'
  BY <1>2, <1>3 DEF CallSound, Marked, ToMark
<1>6. Unmarked(p)'
  BY <1>2, <1>3 DEF CallSound, Unmarked, ToUnmark
<1>7. Raised(p)'
  <2>1. SUFFICES ASSUME NEW x \in primed, NEW i \in BoundarySpans(x)  PROVE bprio'[i] = Now
    BY <1>2 DEF Raised, ToRaise, BoundarySpans
  <2>2. i \in Pieces  BY <1>1, BoundaryPieces DEF PrioTypes, PriorityTypeOK
  <2>3. CASE x = file[p]  BY <1>3, <2>1, <2>2, <2>3
  <2>4. CASE x # file[p]
    <3>1. bprio[i] = Now  BY <1>2, <2>4 DEF CallSound, Raised, ToRaise
    <3>2. QED  BY <1>3, <2>2, <3>1
  <2>5. QED  BY <2>3, <2>4
<1>8. Accounted(p)'
  <2>1. SUFFICES ASSUME NEW i \in Pieces, bprio'[i] # None  PROVE i \in Spans(InUse)
    BY <1>2, <1>4 DEF Accounted, ToRelease, Spans, SpansOf, BoundarySpans, PrefetchSpans, HasNext
  <2>2. CASE bprio[i] # None
    <3>1. InUse \cup ToRelease(p) = InUse  BY <1>2 DEF ToRelease
    <3>2. QED  BY <2>2, <3>1 DEF CallSound, Accounted
  <2>3. CASE i \in BoundarySpans(file[p])  BY <1>4, <2>3, OwnSpans
  <2>4. QED  BY <1>3, <2>1, <2>2, <2>3
<1>9. Opened(p)'
  BY <1>2, <1>3 DEF CallSound, Opened, ToOpen
<1>10. MidCall(p)'
  BY <1>2 DEF CallSound, MidCall
<1>11. QED  BY <1>5, <1>6, <1>7, <1>8, <1>9, <1>10 DEF CallSound

\* A tail pre-read touches no priority.
LEMMA SWarmMoov ==
  ASSUME ReadersInv, NEW t \in Threads, CallSound(t), WarmMoov(t)
  PROVE  CallSound(t)'
<1>1. t \in Procs /\ PrioTypes /\ CallsKnown /\ ReadersSelected  BY DEF Procs, ReadersInv
<1>2. /\ pc[t] = "warm" /\ UNCHANGED <<selected, primed, reading, filePrio, bprio, kind, file, demote>>
      /\ pc'[t] \in {"prefetch"}
  BY <1>1 DEF WarmMoov, Goto, prios, locals, PrioTypes, PriorityTypeOK
<1>3. InUse' = InUse
  BY <1>2 DEF InUse
<1>4. Marked(t)'
  BY <1>2 DEF CallSound, Marked, ToMark
<1>5. Unmarked(t)'
  BY <1>2 DEF CallSound, Unmarked, ToUnmark
<1>6. Raised(t)'
  BY <1>2 DEF CallSound, Raised, ToRaise, BoundarySpans
<1>7. Accounted(t)'
  BY <1>1, <1>2, <1>3, StillAccounted DEF CallSound, ToRelease
<1>8. Opened(t)'
  BY <1>2 DEF CallSound, Opened, ToOpen
<1>9. MidCall(t)'
  BY <1>2 DEF CallSound, MidCall
<1>10. QED  BY <1>4, <1>5, <1>6, <1>7, <1>8, <1>9 DEF CallSound

\* Nor does the note that the next file is prefetched.
LEMMA SPrefetchNext ==
  ASSUME ReadersInv, NEW t \in Threads, CallSound(t), PrefetchNext(t)
  PROVE  CallSound(t)'
<1>1. t \in Procs /\ PrioTypes /\ CallsKnown /\ ReadersSelected  BY DEF Procs, ReadersInv
<1>2. /\ pc[t] = "prefetch" /\ UNCHANGED <<selected, primed, reading, filePrio, bprio, kind, file, demote>>
      /\ pc'[t] \in {"reading", "raiseNext"}
  BY <1>1 DEF PrefetchNext, Goto, prios, locals, PrioTypes, PriorityTypeOK
<1>3. InUse' = InUse
  BY <1>2 DEF InUse
<1>4. Marked(t)'
  BY <1>2 DEF CallSound, Marked, ToMark
<1>5. Unmarked(t)'
  BY <1>2 DEF CallSound, Unmarked, ToUnmark
<1>6. Raised(t)'
  BY <1>2 DEF CallSound, Raised, ToRaise, BoundarySpans
<1>7. Accounted(t)'
  BY <1>1, <1>2, <1>3, StillAccounted DEF CallSound, ToRelease
<1>8. Opened(t)'
  BY <1>2 DEF CallSound, Opened, ToOpen
<1>9. MidCall(t)'
  BY <1>2 DEF CallSound, MidCall
<1>10. QED  BY <1>4, <1>5, <1>6, <1>7, <1>8, <1>9 DEF CallSound

\* The pieces of the next file are raised on behalf of the one that is read.
LEMMA SRaiseNext ==
  ASSUME ReadersInv, NEW t \in Threads, CallSound(t), RaiseNext(t)
  PROVE  CallSound(t)'
<1>1. t \in Procs /\ PrioTypes /\ CallsKnown /\ ReadersSelected  BY DEF Procs, ReadersInv
<1>2. /\ pc[t] = "raiseNext" /\ UNCHANGED <<selected, primed, reading, filePrio, kind, file, demote>>
      /\ pc'[t] = "reading" /\ HasNext(file[t]) /\ file[t] \in selected
  BY <1>1 DEF RaiseNext, Goto, books, locals, CallsKnown, ReadersSelected, PrioTypes, PriorityTypeOK
<1>3. \A i \in Pieces : /\ bprio[i] = Now => bprio'[i] = Now
                        /\ bprio'[i] # None => bprio[i] # None \/ i \in PrefetchSpans(file[t] + 1)
  BY <1>1, RaisedTo DEF RaiseNext, PrioTypes, PriorityTypeOK
<1>4. InUse' = InUse /\ file[t] \in InUse
  BY <1>2 DEF InUse
<1>5. Marked(t)'
  BY <1>2, <1>3 DEF CallSound, Marked, ToMark
<1>6. Unmarked(t)'
  BY <1>2, <1>3 DEF CallSound, Unmarked, ToUnmark
<1>7. Raised(t)'
  <2>1. SUFFICES ASSUME NEW x \in primed, NEW i \in BoundarySpans(x)  PROVE bprio'[i] = Now
    BY <1>2 DEF Raised, ToRaise, BoundarySpans
  <2>2. i \in Pieces  BY <1>1, BoundaryPieces DEF PrioTypes, PriorityTypeOK
  <2>3. bprio[i] = Now  BY <1>2 DEF CallSound, Raised, ToRaise
  <2>4. QED  BY <1>3, <2>2, <2>3
<1>8. Accounted(t)'
  <2>1. SUFFICES ASSUME NEW i \in Pieces, bprio'[i] # None  PROVE i \in Spans(InUse)
    BY <1>2, <1>4 DEF Accounted, ToRelease, Spans, SpansOf, BoundarySpans, PrefetchSpans, HasNext
  <2>2. CASE bprio[i] # None
    <3>1. InUse \cup ToRelease(t) = InUse  BY <1>2 DEF ToRelease
    <3>2. QED  BY <2>2, <3>1 DEF CallSound, Accounted
  <2>3. CASE i \in PrefetchSpans(file[t] + 1)  BY <1>2, <1>4, <2>3, OwnSpans
  <2>4. QED  BY <1>3, <2>1, <2>2, <2>3
<1>9. Opened(t)'
  BY <1>2, <1>3 DEF CallSound, Opened, ToOpen
<1>10. MidCall(t)'
  BY <1>2 DEF CallSound, MidCall
<1>11. QED  BY <1>5, <1>6, <1>7, <1>8, <1>9, <1>10 DEF CallSound

\* The last reader leaves its file to be demoted.
LEMMA SClose ==
  ASSUME ReadersInv, NEW t \in Threads, CallSound(t), Close(t)
  PROVE  CallSound(t)'
<1>1. t \in Procs /\ PrioTypes /\ CallsKnown /\ ReadersSelected  BY DEF Procs, ReadersInv
<1>2. pc[t] = "reading" /\ UNCHANGED <<filePrio, bprio, demote>> /\ file[t] \in Files
  BY <1>1 DEF Close, prios, PrioTypes, PriorityTypeOK
<1>3. reading[file[t]] \in Nat \ {0} /\ reading \in [Files -> 0 .. MaxReads] /\ MaxReads \in Nat
  BY <1>1, <1>2, ReaderCounted, EnginePriorityAssumption DEF CallsKnown, ReaderPlaces, SelectedPlaces, PrioTypes, PriorityTypeOK
<1>4. \A x \in Files : reading'[x] = IF x = file[t] THEN reading[x] - 1 ELSE reading[x]
  BY <1>2, <1>3 DEF Close
<1>5. \/ /\ reading[file[t]] = 1 /\ pc'[t] = "recheck" /\ file'[t] = file[t]
         /\ selected' = selected \ {file[t]} /\ primed' = primed \ {file[t]}
      \/ reading[file[t]] # 1 /\ pc'[t] = "idle" /\ kind'[t] = "none" /\ UNCHANGED <<selected, primed>>
  BY <1>1 DEF Close, Return, Proceed, Goto, PrioTypes, PriorityTypeOK
<1>6. selected \subseteq Files /\ primed \subseteq Files
  BY <1>1 DEF PrioTypes, PriorityTypeOK
<1>7. Marked(t)'
  BY <1>2, <1>5 DEF CallSound, Marked, ToMark
<1>8. Unmarked(t)'
  BY <1>2, <1>5 DEF CallSound, Unmarked, ToUnmark
<1>9. Raised(t)'
  BY <1>2, <1>5 DEF CallSound, Raised, ToRaise, BoundarySpans
<1>10. Accounted(t)'
  <2>1. InUse \cup ToRelease(t) \subseteq (InUse \cup ToRelease(t))'
    <3>1. CASE reading[file[t]] = 1
      <4>1. ToRelease(t) = {} /\ ToRelease(t)' = {file[t]}  BY <1>2, <1>5, <3>1 DEF ToRelease
      <4>2. InUse \subseteq InUse' \cup {file[t]}  BY <1>4, <1>5, <3>1 DEF InUse
      <4>3. QED  BY <4>1, <4>2
    <3>2. CASE reading[file[t]] # 1
      <4>1. ToRelease(t) = {} /\ ToRelease(t)' = {}  BY <1>2, <1>5, <3>2 DEF ToRelease
      <4>2. reading'[file[t]] > 0  BY <1>2, <1>3, <1>4, <3>2
      <4>3. InUse \subseteq InUse'  BY <1>4, <1>5, <3>2, <4>2 DEF InUse
      <4>4. QED  BY <4>1, <4>3
    <3>3. QED  BY <3>1, <3>2
  <2>2. QED  BY <1>1, <1>2, <2>1, StillAccounted DEF CallSound
<1>11. Opened(t)'
  <2>1. SUFFICES ASSUME NEW x \in Files, reading'[x] > 0  PROVE x \in selected' /\ x \in primed'
    BY DEF Opened
  <2>2. reading[x] > 0 /\ (x = file[t] => reading[x] # 1)  BY <1>3, <1>4, <2>1
  <2>3. x \in selected /\ x \in primed  BY <1>2, <2>2 DEF CallSound, Opened, ToOpen
  <2>4. QED  BY <1>5, <2>2, <2>3
<1>12. MidCall(t)'
  BY <1>2, <1>3, <1>4, <1>5 DEF CallSound, MidCall, InUse
<1>13. QED  BY <1>7, <1>8, <1>9, <1>10, <1>11, <1>12 DEF CallSound

\* Nobody has reopened the file: it is demoted.
LEMMA SRecheck ==
  ASSUME ReadersInv, NEW t \in Threads, CallSound(t), Recheck(t)
  PROVE  CallSound(t)'
<1>1. t \in Procs /\ PrioTypes /\ CallsKnown /\ ReadersSelected  BY DEF Procs, ReadersInv
<1>2. pc[t] = "recheck" /\ UNCHANGED <<selected, primed, reading, bprio>> /\ file[t] \in Files /\ file[t] \notin InUse
  BY <1>1 DEF Recheck, CallSound, MidCall, PrioTypes, PriorityTypeOK
<1>3. reading[file[t]] = 0 /\ file[t] \notin selected
  BY <1>1, <1>2, EnginePriorityAssumption DEF InUse, PrioTypes, PriorityTypeOK
<1>4. /\ filePrio' = [filePrio EXCEPT ![file[t]] = None] /\ pc'[t] = "release" /\ kind'[t] = "close" /\ demote'[t] = {file[t]}
  BY <1>1, <1>3 DEF Recheck, Goto, PrioTypes, PriorityTypeOK
<1>5. \A x \in Files : filePrio'[x] = IF x = file[t] THEN None ELSE filePrio[x]
  BY <1>1, <1>2, <1>4 DEF PrioTypes, PriorityTypeOK
<1>6. InUse' = InUse /\ selected \subseteq Files
  BY <1>1, <1>2 DEF InUse, PrioTypes, PriorityTypeOK
<1>7. Marked(t)'
  BY <1>2, <1>3, <1>4, <1>5, <1>6 DEF CallSound, Marked, ToMark
<1>8. Unmarked(t)'
  BY <1>2, <1>4, <1>5 DEF CallSound, Unmarked, ToUnmark, None, Normal
<1>9. Raised(t)'
  BY <1>2, <1>4 DEF CallSound, Raised, ToRaise, BoundarySpans
<1>10. Accounted(t)'
  BY <1>1, <1>2, <1>4, <1>6, StillAccounted DEF CallSound, ToRelease
<1>11. Opened(t)'
  BY <1>2, <1>4 DEF CallSound, Opened, ToOpen
<1>12. MidCall(t)'
  BY <1>2, <1>4, <1>5, <1>6 DEF MidCall
<1>13. QED  BY <1>7, <1>8, <1>9, <1>10, <1>11, <1>12 DEF CallSound

\* A tail pre-read that was abandoned demotes a file nobody has selected since.
LEMMA STails ==
  ASSUME ReadersInv, NEW p \in Procs, CallSound(p), NEW f \in Files, abandoned[f] > 0 => f \notin selected,
         TailDelivered(f) \/ AbandonTailWarm(f) \/ TailDemote(f)
  PROVE  CallSound(p)'
<1>1. UNCHANGED <<selected, primed, reading, bprio, pc, kind, file, already, demote, keep>>
  BY DEF TailDelivered, AbandonTailWarm, TailDemote, books, prios, locals
<1>2. selected \subseteq Files /\ filePrio \in [Files -> {None, Normal}]  BY DEF ReadersInv, PrioTypes, PriorityTypeOK
<1>3. \A x \in Files : filePrio'[x] = filePrio[x] \/ (x \notin selected /\ filePrio'[x] = None)
  BY <1>2 DEF TailDelivered, AbandonTailWarm, TailDemote, prios
<1>4. InUse' = InUse  BY <1>1 DEF InUse
<1>5. Marked(p)'  BY <1>1, <1>2, <1>3 DEF CallSound, Marked, ToMark
<1>6. Unmarked(p)'  BY <1>1, <1>3 DEF CallSound, Unmarked, ToUnmark, None, Normal
<1>7. Raised(p)'  BY <1>1 DEF CallSound, Raised, ToRaise, BoundarySpans
<1>8. Accounted(p)'  BY <1>1, <1>4, StillAccounted DEF CallSound, ToRelease
<1>9. Opened(p)'  BY <1>1 DEF CallSound, Opened, ToOpen
<1>10. MidCall(p)'
  <2>1. ASSUME NEW x \in Files, filePrio[x] = None  PROVE filePrio'[x] = None  BY <1>3, <2>1
  <2>2. demote[p] \subseteq Files  BY DEF ReadersInv, PrioTypes, PriorityTypeOK
  <2>3. QED  BY <1>1, <1>4, <2>1, <2>2 DEF CallSound, MidCall
<1>11. QED  BY <1>5, <1>6, <1>7, <1>8, <1>9, <1>10 DEF CallSound

\* When the only call under way leaves things sound, they are sound whoever looks.
LEMMA OneForAll ==
  ASSUME NEW p \in Procs, \A q \in Procs : q # p => ~Busy(q)', CallSound(p)'
  PROVE  AloneSound' /\ \A q, r \in Procs : Busy(q)' /\ Busy(r)' => q = r
<1>1. ASSUME NEW r \in Procs, \A q \in Procs : Busy(q)' => q = r  PROVE CallSound(r)'
  <2>1. CASE r = p  BY <2>1
  <2>2. CASE r # p
    <3>1. ~Busy(p)' /\ ~Busy(r)'  BY <1>1, <2>2
    <3>2. (/\ ToMark(r) = ToMark(p) /\ ToUnmark(r) = ToUnmark(p) /\ ToRaise(r) = ToRaise(p)
           /\ ToOpen(r) = ToOpen(p) /\ ToRelease(r) = ToRelease(p) /\ MidCall(r))'
      BY <3>1 DEF Busy, ToMark, ToUnmark, ToRaise, ToOpen, ToRelease, MidCall
    <3>3. QED  BY <3>2 DEF CallSound, Marked, Unmarked, Raised, Accounted, Opened
  <2>3. QED  BY <2>1, <2>2
<1>2. QED  BY <1>1 DEF AloneSound

\* Who is in a call, or begins one, is the only one, and finds things sound.
LEMMA Alone ==
  ASSUME PrioInv, NEW p \in Procs, Busy(p) \/ Quiet
  PROVE  CallSound(p) /\ (\A q \in Procs : q # p => ~Busy(q)) /\ \A f \in Files : ~(abandoned[f] > 0)
<1>1. \A q \in Procs : q # p => ~Busy(q)  BY DEF PrioInv, OneCall, Quiet, Busy
<1>2. CallSound(p)  BY <1>1 DEF PrioInv, AloneSound
<1>3. \A f \in Files : ~(abandoned[f] > 0)  BY DEF PrioInv, OneCall, Quiet
<1>4. QED  BY <1>1, <1>2, <1>3

\* A step of such a call keeps it so.
LEMMA CallStep ==
  ASSUME PrioInv, ReadersInv', NEW p \in Procs, Busy(p) \/ Quiet, NEW l, pc' = [pc EXCEPT ![p] = l],
         abandoned' = abandoned, CallSound(p)'
  PROVE  PrioInv'
<1>1. \A q \in Procs : q # p => ~Busy(q)'  BY Alone DEF Busy, PrioInv, ReadersInv, PrioTypes
<1>2. AloneSound' /\ \A q, r \in Procs : Busy(q)' /\ Busy(r)' => q = r  BY <1>1, OneForAll
<1>3. \A f \in Files : ~(abandoned'[f] > 0)  BY Alone
<1>4. OneCall'  BY <1>2, <1>3 DEF OneCall
<1>5. QED  BY <1>2, <1>4 DEF PrioInv

LEMMA PrioStep ==
  ASSUME ~Overlap, PrioInv, [PriorityNext]_prioVars
  PROVE  PrioInv'
<1>1. ReadersInv /\ ReadersInv'  BY ReadersKept DEF PrioInv
<1>2. MayStart => Quiet  BY DEF MayStart
<1>3. ASSUME NEW t \in Threads, NEW f \in Files, Open(t, f) \/ Poll(t, f)  PROVE PrioInv'
  <2>1. t \in Procs /\ Quiet /\ pc' = [pc EXCEPT ![t] = "ensure"] /\ abandoned' = abandoned
    BY <1>2, <1>3 DEF Open, Poll, Procs, Goto, tails
  <2>2. CallSound(t)'  BY <1>1, <1>3, <2>1, Alone, SOpen, SPoll
  <2>3. QED  BY <1>1, <2>1, <2>2, CallStep
<1>4. ASSUME NEW t \in Threads, Ensure(t) \/ Demote(t) \/ Release(t) \/ Reset(t) \/ Download(t)  PROVE PrioInv'
  <2>1. t \in Procs /\ Busy(t) /\ abandoned' = abandoned
    BY <1>4 DEF Ensure, Demote, Release, Reset, Download, Procs, Busy, tails
  <2>2. PICK l : pc' = [pc EXCEPT ![t] = l]
    BY <1>4 DEF Ensure, Demote, Release, Reset, Download, Goto, Return, Proceed
  <2>3. CallSound(t)'  BY <1>1, <1>4, <2>1, Alone, SEnsure, SDemote, SRelease, SReset, SDownload
  <2>4. QED  BY <1>1, <2>1, <2>2, <2>3, CallStep
<1>5. ASSUME NEW t \in Threads, WarmMoov(t) \/ PrefetchNext(t) \/ RaiseNext(t) \/ Recheck(t)  PROVE PrioInv'
  <2>1. t \in Procs /\ Busy(t) /\ abandoned' = abandoned
    BY <1>5 DEF WarmMoov, PrefetchNext, RaiseNext, Recheck, Procs, Busy, tails
  <2>2. PICK l : pc' = [pc EXCEPT ![t] = l]
    BY <1>5 DEF WarmMoov, PrefetchNext, RaiseNext, Recheck, Goto, Return
  <2>3. CallSound(t)'  BY <1>1, <1>5, <2>1, Alone, SWarmMoov, SPrefetchNext, SRaiseNext, SRecheck
  <2>4. QED  BY <1>1, <2>1, <2>2, <2>3, CallStep
<1>6. ASSUME NEW t \in Threads, Close(t)  PROVE PrioInv'
  <2>1. t \in Procs /\ Quiet /\ abandoned' = abandoned  BY <1>2, <1>6 DEF Close, Procs, tails
  <2>2. PICK l : pc' = [pc EXCEPT ![t] = l]  BY <1>6 DEF Close, Goto, Return, Proceed
  <2>3. CallSound(t)'  BY <1>1, <1>6, <2>1, Alone, SClose
  <2>4. QED  BY <1>1, <2>1, <2>2, <2>3, CallStep
<1>7. ASSUME NEW p \in Procs, Prime(p) \/ Raise(p)  PROVE PrioInv'
  <2>1. (Busy(p) \/ Quiet) /\ abandoned' = abandoned  BY <1>2, <1>7 DEF Prime, Raise, Busy, tails
  <2>2. PICK l : pc' = [pc EXCEPT ![p] = l]  BY <1>7 DEF Prime, Raise, Goto
  <2>3. CallSound(p)'  BY <1>1, <1>7, <2>1, Alone, SPrime, SRaise
  <2>4. QED  BY <1>1, <1>7, <2>1, <2>2, <2>3, CallStep
<1>8. ASSUME NEW f \in Files, TailDelivered(f) \/ AbandonTailWarm(f) \/ TailDemote(f)  PROVE PrioInv'
  <2>1. UNCHANGED <<pc, selected, reading>>  BY <1>8 DEF TailDelivered, AbandonTailWarm, TailDemote, books
  <2>2. \A p \in Procs : Busy(p)' <=> Busy(p)  BY <2>1 DEF Busy
  <2>3. AloneSound'
    <3>1. SUFFICES ASSUME NEW p \in Procs, \A q \in Procs : Busy(q)' => q = p  PROVE CallSound(p)'  BY DEF AloneSound
    <3>2. CallSound(p)  BY <2>2, <3>1 DEF PrioInv, AloneSound
    <3>3. QED  BY <1>1, <1>8, <3>2, STails DEF PrioInv, OneCall
  <2>4. OneCall'
    <3>1. \A p, q \in Procs : Busy(p)' /\ Busy(q)' => p = q  BY <2>2 DEF PrioInv, OneCall
    <3>2. ASSUME NEW g \in Files, abandoned'[g] > 0  PROVE g \notin selected' /\ \A p \in Procs : ~Busy(p)'
      <4>1. abandoned \in [Files -> Nat]  BY <1>1 DEF ReadersInv, PrioTypes, PriorityTypeOK
      <4>2. CASE abandoned[g] > 0  BY <2>1, <2>2, <3>2, <4>2 DEF PrioInv, OneCall
      <4>3. CASE ~(abandoned[g] > 0)
        <5>1. AbandonTailWarm(f) /\ g = f /\ f \notin selected
          BY <1>8, <3>2, <4>1, <4>3 DEF TailDelivered, AbandonTailWarm, TailDemote
        <5>2. Quiet  BY <1>2, <5>1 DEF AbandonTailWarm
        <5>3. QED  BY <2>1, <2>2, <5>1, <5>2 DEF Quiet, Busy
      <4>4. QED  BY <4>2, <4>3
    <3>3. QED  BY <3>1, <3>2 DEF OneCall
  <2>5. QED  BY <1>1, <2>3, <2>4 DEF PrioInv
<1>9. ASSUME UNCHANGED prioVars  PROVE PrioInv'
  <2>1. UNCHANGED <<selected, primed, reading, filePrio, bprio, abandoned, pc, kind, file, already, demote, keep>>
    BY <1>9 DEF prioVars, books, prios, tails, locals
  <2>2. \A p \in Procs : (Busy(p)' <=> Busy(p)) /\ (CallSound(p)' <=> CallSound(p))
    BY <2>1 DEF Busy, CallSound, Marked, Unmarked, Raised, Accounted, Opened, MidCall, ToMark, ToUnmark, ToRaise, ToOpen,
      ToRelease, InUse, Spans, SpansOf, BoundarySpans, PrefetchSpans, HasNext
  <2>3. OneCall' /\ AloneSound'  BY <2>1, <2>2 DEF PrioInv, OneCall, AloneSound
  <2>4. QED  BY <1>1, <2>3 DEF PrioInv
<1>10. QED  BY <1>3, <1>4, <1>5, <1>6, <1>7, <1>8, <1>9 DEF PriorityNext

LEMMA PrioInitial ==
  PriorityInit => PrioInv
<1>1. SUFFICES ASSUME PriorityInit PROVE PrioInv  OBVIOUS
<1>2. ReadersInv  BY <1>1, ReadersInitial
<1>3. \A p \in Procs : pc[p] \in {"guess", "idle"}  BY <1>1 DEF PriorityInit
<1>4. OneCall  BY <1>1, <1>3 DEF OneCall, Busy, PriorityInit
<1>5. ASSUME NEW p \in Procs  PROVE CallSound(p)
  <2>1. Marked(p) /\ Unmarked(p)  BY <1>1 DEF PriorityInit, Marked, Unmarked, None, Normal
  <2>2. Raised(p) /\ Accounted(p)  BY <1>1 DEF PriorityInit, Raised, Accounted
  <2>3. Opened(p) /\ MidCall(p)  BY <1>1, <1>3 DEF PriorityInit, Opened, MidCall
  <2>4. QED  BY <2>1, <2>2, <2>3 DEF CallSound
<1>6. QED  BY <1>2, <1>4, <1>5 DEF PrioInv, AloneSound

\* When calls do not overlap, a call in the middle of its sections knows what it has still to
\* mark, to unmark, to raise and to release, and all the rest is right.
THEOREM PrioInvariant == ~Overlap => (PrioritySpec => []PrioInv)
<1>1. SUFFICES ASSUME ~Overlap PROVE PrioritySpec => []PrioInv  OBVIOUS
<1>2. PrioInv /\ [PriorityNext]_prioVars => PrioInv'  BY <1>1, PrioStep
<1>3. QED  BY <1>2, PrioInitial, PTL DEF PrioritySpec

LEMMA PrioritiesFollow ==
  PrioInv => PrioritiesMatch
<1>1. SUFFICES ASSUME PrioInv PROVE PrioritiesMatch  OBVIOUS
<1>2. PriorityTypeOK /\ ReadersSelected  BY <1>1 DEF PrioInv, ReadersInv, PrioTypes
<1>3. ASSUME Quiet  PROVE CallSound(Guesser) /\ pc[Guesser] \in {"idle", "reading", "guess", "done"}
  BY <1>1, <1>3, Alone DEF Procs, Quiet
<1>4. Playable  BY <1>3 DEF Playable, CallSound, Opened, ToOpen, Marked, ToMark, Raised, ToRaise
<1>5. NoStrayPriority
  <2>1. SUFFICES ASSUME Quiet, NEW i \in Pieces, bprio[i] # None  PROVE i \in Spans(InUse)  BY DEF NoStrayPriority
  <2>2. InUse \cup ToRelease(Guesser) = InUse  BY <1>3, <2>1 DEF ToRelease
  <2>3. QED  BY <1>3, <2>1, <2>2 DEF CallSound, Accounted
<1>6. NoStrayDownload  BY <1>3 DEF NoStrayDownload, CallSound, Unmarked, ToUnmark
<1>7. QED  BY <1>2, <1>4, <1>5, <1>6 DEF PrioritiesMatch

\* When calls do not overlap, whatever is read is marked and has its ends at top priority, and
\* nothing that was left keeps a priority: for any files, pieces they share, windows and
\* goroutines (ensureDownloading, primeBoundary, releaseBoundary, pinnedReader.Close).
THEOREM PrioritiesAreRight == ~Overlap => (PrioritySpec => []PrioritiesMatch)
<1>1. QED  BY PrioInvariant, PrioritiesFollow, PTL

LEMMA DemotedUnread ==
  ASSUME ~Overlap, PrioInv, [PriorityNext]_prioVars, NEW f \in Files, filePrio[f] = Normal, filePrio'[f] = None
  PROVE  reading[f] = 0
<1>1. PrioTypes  BY DEF PrioInv, ReadersInv
<1>2. reading[f] \in Nat  BY <1>1, EnginePriorityAssumption DEF PrioTypes, PriorityTypeOK
<1>3. f \notin InUse => reading[f] = 0  BY <1>2 DEF InUse
<1>4. filePrio' # filePrio  BY DEF None, Normal
<1>5. ASSUME NEW t \in Threads, Demote(t)  PROVE f \notin InUse
  <2>1. t \in Procs /\ Busy(t)  BY <1>5 DEF Demote, Procs, Busy
  <2>2. f \in demote[t]  BY <1>5 DEF Demote, None, Normal
  <2>3. QED  BY <1>5, <2>1, <2>2, Alone DEF CallSound, MidCall, Demote
<1>6. ASSUME NEW t \in Threads, Recheck(t)  PROVE f \notin InUse
  <2>1. t \in Procs /\ Busy(t)  BY <1>6 DEF Recheck, Procs, Busy
  <2>2. filePrio' = [filePrio EXCEPT ![file[t]] = None] \/ filePrio' = filePrio  BY <1>6 DEF Recheck
  <2>3. f = file[t]  BY <1>1, <1>4, <2>2 DEF PrioTypes, PriorityTypeOK, None, Normal
  <2>4. QED  BY <1>6, <2>1, <2>3, Alone DEF CallSound, MidCall, Recheck
<1>7. ASSUME NEW t \in Threads, Download(t)  PROVE FALSE
  BY <1>1, <1>7 DEF Download, PrioTypes, PriorityTypeOK, None, Normal
<1>8. ASSUME NEW g \in Files, TailDemote(g)  PROVE reading[f] = 0
  <2>1. f = g  BY <1>1, <1>8 DEF TailDemote, PrioTypes, PriorityTypeOK, None, Normal
  <2>2. f \notin selected /\ \A p \in Procs : ~Busy(p)  BY <1>8, <2>1 DEF TailDemote, PrioInv, OneCall
  <2>3. Guesser \in Procs  BY DEF Procs
  <2>4. CallSound(Guesser) /\ ~Busy(Guesser)  BY <2>2, <2>3 DEF PrioInv, AloneSound
  <2>5. ~(reading[f] > 0)  BY <2>2, <2>4 DEF CallSound, Opened, ToOpen, Busy
  <2>6. QED  BY <1>2, <2>5
<1>9. QED
  BY <1>3, <1>4, <1>5, <1>6, <1>7, <1>8 DEF PriorityNext, prioVars, prios, Open, Poll, Ensure, Release, Reset, WarmMoov,
    PrefetchNext, RaiseNext, Close, Prime, Raise, TailDelivered, AbandonTailWarm

\* When calls do not overlap, no file is demoted while it has an open reader: what
\* ensureDownloading's comment says is true of a single client, and only of one.
THEOREM ReadStayMarked == ~Overlap => (PrioritySpec => ReadNeverDemoted)
<1>1. SUFFICES ASSUME ~Overlap PROVE PrioritySpec => ReadNeverDemoted  OBVIOUS
<1>2. PrioInv /\ [PriorityNext]_prioVars =>
        [\A f \in Files : filePrio[f] = Normal /\ filePrio'[f] = None => reading[f] = 0]_prioVars
  BY <1>1, DemotedUnread
<1>3. PrioritySpec => []PrioInv  BY <1>1, PrioInvariant
<1>4. QED  BY <1>2, <1>3, PTL DEF PrioritySpec, ReadNeverDemoted

-----------------------------------------------------------------------------
(* The janitor's memo of the disk scan (DiskScan): sums *)

\* A size is finite in bytes.
LEMMA SizeOne ==
  ASSUME NEW x, NEW n \in Nat
  PROVE  IsFiniteSet({x} \X (1 .. n)) /\ Cardinality({x} \X (1 .. n)) = n
<1>1. 1 \in Int /\ n \in Int  OBVIOUS
<1>2. IsFiniteSet(1 .. n) /\ Cardinality(1 .. n) = IF 1 > n THEN 0 ELSE n - 1 + 1  BY ONLY <1>1, FS_Interval
<1>3. Cardinality(1 .. n) = n  BY <1>2
<1>4. IsFiniteSet({x}) /\ Cardinality({x}) = 1  BY FS_Singleton
<1>5. IsFiniteSet({x} \X (1 .. n)) /\ Cardinality({x} \X (1 .. n)) = 1 * n  BY <1>2, <1>3, <1>4, FS_Product
<1>6. QED  BY <1>5

\* The bytes of finitely many sizes.
LEMMA SizesFinite ==
  ASSUME NEW size, NEW S, IsFiniteSet(S), \A x \in S : size[x] \in Nat
  PROVE  IsFiniteSet(UNION {{x} \X (1 .. size[x]) : x \in S}) /\ SumOver(size, S) \in Nat
<1>1. PICK T : T = {{x} \X (1 .. size[x]) : x \in S}  OBVIOUS
<1>2. PICK f : f = [x \in S |-> {x} \X (1 .. size[x])]  OBVIOUS
<1>4. f \in Surjection(S, T)  BY <1>1, <1>2 DEF Surjection
<1>5. IsFiniteSet(T)  BY ONLY IsFiniteSet(S), <1>4, FS_Surjection
<1>6. \A x \in S : IsFiniteSet({x} \X (1 .. size[x]))  BY SizeOne
<1>7. \A U \in T : IsFiniteSet(U)  BY <1>1, <1>6
<1>8. IsFiniteSet(UNION T)  BY ONLY <1>5, <1>7, FS_UNION
<1>9. PICK B : B = UNION T  OBVIOUS
<1>10. Cardinality(B) \in Nat  BY ONLY <1>8, <1>9, FS_CardinalityType
<1>11. QED  BY <1>1, <1>8, <1>9, <1>10 DEF SumOver

\* The sum over no set is zero.
LEMMA SumNone == ASSUME NEW size PROVE SumOver(size, {}) = 0
<1>1. PICK A : A = UNION {{y} \X (1 .. size[y]) : y \in {}}  OBVIOUS
<1>2. A = {}  BY <1>1
<1>3. Cardinality(A) = 0  BY ONLY <1>2, FS_EmptySet
<1>4. QED  BY <1>1, <1>3 DEF SumOver

\* Only the sizes of the set count.
LEMMA SumSame ==
  ASSUME NEW p, NEW q, NEW S, \A x \in S : p[x] = q[x]
  PROVE  SumOver(p, S) = SumOver(q, S)
<1>1. PICK A : A = UNION {{x} \X (1 .. p[x]) : x \in S}  OBVIOUS
<1>2. PICK B : B = UNION {{x} \X (1 .. q[x]) : x \in S}  OBVIOUS
<1>3. A = B  BY <1>1, <1>2
<1>4. QED  BY <1>1, <1>2, <1>3 DEF SumOver

\* One more adds its size.
LEMMA SumPlus ==
  ASSUME NEW size, NEW S, IsFiniteSet(S), \A x \in S : size[x] \in Nat, NEW e, e \notin S, size[e] \in Nat
  PROVE  SumOver(size, S \cup {e}) = SumOver(size, S) + size[e]
<1>1. PICK A : A = UNION {{x} \X (1 .. size[x]) : x \in S}  OBVIOUS
<1>2. PICK B : B = {e} \X (1 .. size[e])  OBVIOUS
<1>3. IsFiniteSet(A) /\ SumOver(size, S) \in Nat  BY <1>1, SizesFinite
<1>4. IsFiniteSet(B) /\ Cardinality(B) = size[e]  BY <1>2, SizeOne
<1>5. A \cap B = {}  BY <1>1, <1>2
<1>6. A \cup B = UNION {{x} \X (1 .. size[x]) : x \in S \cup {e}}  BY <1>1, <1>2
<1>7. Cardinality(A \cup B) = Cardinality(A) + Cardinality(B) - Cardinality(A \cap B)  BY ONLY <1>3, <1>4, FS_Union
<1>8. Cardinality(A \cap B) = 0  BY ONLY <1>5, FS_EmptySet
<1>9. Cardinality(A) = SumOver(size, S)  BY <1>1 DEF SumOver
<1>10. Cardinality(A \cup B) = SumOver(size, S \cup {e})  BY <1>6 DEF SumOver
<1>11. QED  BY <1>3, <1>4, <1>7, <1>8, <1>9, <1>10

-----------------------------------------------------------------------------
(* The janitor's memo: the invariant *)

Samples == [ScanEngines -> -1 .. MaxReceived]
MemoRecords == [dl : Samples, prev : Samples, total : Nat, age : 0 .. ScanMaxAge]
PassRecords ==
  [at : {"rest", "walk"}, left : SUBSET ScanEngines, now : SUBSET ScanEngines, dl : Samples, total : Nat, budget : Int]

ScanTyped ==
  /\ loaded \in [ScanEngines -> {"new", "live", "gone"}]
  /\ received \in [ScanEngines -> 0 .. MaxReceived] /\ late \in [ScanEngines -> 0 .. MaxReceived]
  /\ early \in [ScanEngines -> 0 .. MaxReceived] /\ onDisk \in [ScanEngines -> 0 .. MaxReceived]
  /\ cacheSize \in Budgets /\ memo \in MemoRecords /\ pass \in PassRecords

\* No byte is lost between the counter and the disk.
Conserved(e) == onDisk[e] + late[e] + early[e] = received[e]

\* An engine that was never loaded was never sampled.
Unknown(e) == memo.dl[e] = -1 /\ memo.prev[e] = -1 /\ pass.dl[e] = -1 /\ e \notin pass.left

\* What has come since the last sample is in no sample, and what was on its way to the
\* disk at this walk's sample had not come at the walk before.
SampleSound(e) ==
  /\ pass.dl[e] = -1 /\ memo.prev[e] # -1 => memo.prev[e] + early[e] <= received[e]
  /\ pass.dl[e] # -1 => /\ pass.dl[e] + early[e] <= received[e]
                        /\ memo.prev[e] # -1 => late[e] + memo.prev[e] <= pass.dl[e]

EngineSound(e) ==
  /\ Conserved(e)
  /\ loaded[e] = "new" => Unknown(e)
  /\ loaded[e] = "live" => SampleSound(e)

PassShape ==
  /\ pass.at = "rest" => pass.left = {} /\ pass.now = {} /\ pass.dl = NoDl
  /\ Sampled(pass.dl) \cap pass.left = {} /\ pass.now \subseteq Sampled(pass.dl)
  /\ \A x, y \in pass.now : x = y

\* The engines whose directories this walk has added up.
Measured == Sampled(pass.dl) \ pass.now

\* Not a byte has come to the engines of S since the samples.
Still(dl, S) == \A e \in S : loaded[e] = "live" /\ received[e] = dl[e]

\* As long as nothing comes, a second walk that reads the same counters has seen every
\* byte of them on disk.
PassTotal ==
  Still(pass.dl, Measured) /\ (\A e \in Measured : memo.prev[e] = pass.dl[e]) => pass.total = SumOver(pass.dl, Measured)

MemoTotal ==
  memo.dl # NoDl => /\ memo.dl = memo.prev
                    /\ Still(memo.dl, Sampled(memo.dl)) => memo.total = SumOver(memo.dl, Sampled(memo.dl))

ScanInv == ScanTyped /\ (\A e \in ScanEngines : EngineSound(e)) /\ PassShape /\ PassTotal /\ MemoTotal

\* Samples of nothing are samples.
LEMMA NoSamples == NoDl \in Samples /\ Sampled(NoDl) = {}
BY ScanAssumption DEF NoDl, Samples, Sampled

LEMMA RestingTyped ==
  /\ Resting \in PassRecords /\ Resting.at = "rest" /\ Resting.left = {} /\ Resting.now = {}
  /\ Resting.dl = NoDl /\ Resting.total = 0
BY NoSamples DEF Resting, PassRecords

LEMMA ScanStarts == ScanInit => ScanInv
<1> SUFFICES ASSUME ScanInit PROVE ScanInv  OBVIOUS
<1>1. memo \in MemoRecords /\ memo.dl = NoDl /\ memo.prev = NoDl  BY ScanAssumption, NoSamples DEF ScanInit, MemoRecords
<1>2. pass = Resting  BY DEF ScanInit
<1>3. ScanTyped  BY <1>1, <1>2, RestingTyped, ScanAssumption DEF ScanInit, ScanTyped
<1>4. \A e \in ScanEngines : EngineSound(e)
  <2> SUFFICES ASSUME NEW e \in ScanEngines PROVE EngineSound(e)  OBVIOUS
  <2>1. NoDl[e] = -1  BY DEF NoDl
  <2>2. loaded[e] = "new" /\ onDisk[e] = 0 /\ late[e] = 0 /\ early[e] = 0 /\ received[e] = 0  BY DEF ScanInit
  <2>3. QED  BY <2>1, <2>2, <1>1, <1>2, RestingTyped DEF EngineSound, Conserved, Unknown
<1>5. PassShape  BY <1>2, RestingTyped, NoSamples DEF PassShape
<1>6. Measured = {}  BY <1>2, RestingTyped, NoSamples DEF Measured
<1>7. PassTotal  BY <1>2, <1>6, RestingTyped, SumNone DEF PassTotal
<1>8. QED  BY <1>1, <1>3, <1>4, <1>5, <1>7 DEF ScanInv, MemoTotal

\* Nothing of a sample moves that is not of the samples: what the sums are made of.
LEMMA SumsKept ==
  ASSUME ScanInv, pass' = pass, memo'.dl = memo.dl, memo'.prev = memo.prev, memo'.total = memo.total,
         \A e \in ScanEngines : loaded'[e] = "live" /\ (received'[e] = pass.dl[e] \/ received'[e] = memo.dl[e])
                                /\ (pass.dl[e] # -1 \/ memo.dl[e] # -1)
                                  => loaded[e] = "live" /\ received'[e] = received[e]
  PROVE  PassShape' /\ PassTotal' /\ MemoTotal'
<1>1. PassShape'  BY DEF ScanInv, PassShape, Sampled
<1>2. Measured' = Measured  BY DEF Measured, Sampled
<1>3. Measured \subseteq ScanEngines /\ \A e \in Measured : pass.dl[e] # -1  BY DEF Measured, Sampled
<1>4. PassTotal'
  <2>1. SUFFICES ASSUME Still(pass.dl, Measured)', \A e \in Measured : memo.prev[e] = pass.dl[e]
                 PROVE  pass.total = SumOver(pass.dl, Measured)
    BY <1>2 DEF PassTotal
  <2>2. \A e \in Measured : loaded'[e] = "live" /\ received'[e] = pass.dl[e]  BY <1>2, <2>1 DEF Still
  <2>3. Still(pass.dl, Measured)  BY <1>3, <2>2 DEF Still
  <2>4. QED  BY <2>1, <2>3 DEF ScanInv, PassTotal
<1>5. MemoTotal'
  <2>1. CASE memo.dl = NoDl  BY <2>1 DEF MemoTotal, NoDl
  <2>2. CASE memo.dl # NoDl
    <3>1. memo.dl = memo.prev  BY <2>2 DEF ScanInv, MemoTotal
    <3>2. PICK S : S = Sampled(memo.dl)  OBVIOUS
    <3>3. S \subseteq ScanEngines /\ \A e \in S : memo.dl[e] # -1  BY <3>2 DEF Sampled
    <3>4. ASSUME \A e \in S : loaded'[e] = "live" /\ received'[e] = memo.dl[e] PROVE memo.total = SumOver(memo.dl, S)
      <4>1. Still(memo.dl, S)  BY <3>3, <3>4 DEF Still
      <4>2. QED  BY <2>2, <3>2, <4>1 DEF ScanInv, MemoTotal
    <3>5. QED  BY <3>1, <3>2, <3>4 DEF MemoTotal, Still, NoDl, Sampled
  <2>3. QED  BY <2>1, <2>2
<1>6. QED  BY <1>1, <1>4, <1>5

\* What a live engine has received is never less than what the last walk read of it.
LEMMA CountersGrow ==
  ASSUME ScanInv, NEW e \in ScanEngines, loaded[e] = "live"
  PROVE  /\ pass.dl[e] # -1 => pass.dl[e] <= received[e]
         /\ memo.dl[e] # -1 => memo.dl[e] <= received[e]
<1>1. SampleSound(e)  BY DEF ScanInv, EngineSound
<1>2. /\ received[e] \in 0 .. MaxReceived /\ late[e] \in 0 .. MaxReceived /\ early[e] \in 0 .. MaxReceived
      /\ memo.prev[e] \in -1 .. MaxReceived /\ pass.dl[e] \in -1 .. MaxReceived
  BY DEF ScanInv, ScanTyped, MemoRecords, PassRecords, Samples
<1>3. MaxReceived \in Nat  BY ScanAssumption
<1>4. memo.prev[e] # -1 => memo.prev[e] <= received[e]
  <2>1. CASE pass.dl[e] = -1  BY <1>1, <1>2, <1>3, <2>1 DEF SampleSound
  <2>2. CASE pass.dl[e] # -1  BY <1>1, <1>2, <1>3, <2>2 DEF SampleSound
  <2>3. QED  BY <2>1, <2>2
<1>5. memo.dl[e] # -1 => memo.dl[e] = memo.prev[e]  BY DEF ScanInv, MemoTotal, NoDl
<1>6. QED  BY <1>1, <1>2, <1>3, <1>4, <1>5 DEF SampleSound

LEMMA LoadKeepsScan == ASSUME ScanInv, NEW e \in ScanEngines, LoadEngine(e) PROVE ScanInv'
<1>1. ScanTyped'  BY DEF ScanInv, ScanTyped, LoadEngine
<1>2. ASSUME NEW x \in ScanEngines PROVE EngineSound(x)'
  <2>1. EngineSound(x)  BY DEF ScanInv
  <2>2. CASE x = e
    <3>1. Unknown(e)  BY <2>1, <2>2 DEF LoadEngine, EngineSound
    <3>2. loaded'[e] = "live"  BY DEF LoadEngine, ScanInv, ScanTyped
    <3>3. QED  BY <2>1, <2>2, <3>1, <3>2 DEF LoadEngine, EngineSound, Conserved, Unknown, SampleSound
  <2>3. CASE x # e
    <3>1. loaded'[x] = loaded[x]  BY <2>3 DEF LoadEngine, ScanInv, ScanTyped
    <3>2. QED  BY <2>1, <3>1 DEF LoadEngine, EngineSound, Conserved, Unknown, SampleSound
  <2>4. QED  BY <2>2, <2>3
<1>3. PassShape' /\ PassTotal' /\ MemoTotal'
  <2>1. pass' = pass /\ memo' = memo /\ received' = received  BY DEF LoadEngine
  <2>2. \A x \in ScanEngines : x # e => loaded'[x] = loaded[x]  BY DEF LoadEngine, ScanInv, ScanTyped
  <2>3. pass.dl[e] = -1 /\ memo.dl[e] = -1  BY DEF LoadEngine, ScanInv, EngineSound, Unknown
  <2>4. QED  BY <2>1, <2>2, <2>3, SumsKept
<1>4. QED  BY <1>1, <1>2, <1>3 DEF ScanInv

LEMMA DropKeepsScan == ASSUME ScanInv, NEW e \in ScanEngines, DropEngine(e) PROVE ScanInv'
<1>1. ScanTyped'  BY ScanAssumption DEF ScanInv, ScanTyped, DropEngine
<1>2. ASSUME NEW x \in ScanEngines PROVE EngineSound(x)'
  <2>1. EngineSound(x)  BY DEF ScanInv
  <2>2. CASE x = e
    <3>1. loaded'[e] = "gone" /\ received'[e] = 0 /\ late'[e] = 0 /\ early'[e] = 0 /\ onDisk'[e] = 0
      BY DEF DropEngine, ScanInv, ScanTyped
    <3>2. QED  BY <2>2, <3>1 DEF EngineSound, Conserved
  <2>3. CASE x # e
    <3>1. /\ loaded'[x] = loaded[x] /\ received'[x] = received[x] /\ late'[x] = late[x] /\ early'[x] = early[x]
          /\ onDisk'[x] = onDisk[x] /\ memo' = memo /\ pass' = pass
      BY <2>3 DEF DropEngine, ScanInv, ScanTyped
    <3>2. QED  BY <2>1, <3>1 DEF EngineSound, Conserved, Unknown, SampleSound
  <2>4. QED  BY <2>2, <2>3
<1>3. PassShape' /\ PassTotal' /\ MemoTotal'
  <2>1. pass' = pass /\ memo' = memo  BY DEF DropEngine
  <2>2. \A x \in ScanEngines : x # e => loaded'[x] = loaded[x] /\ received'[x] = received[x]
    BY DEF DropEngine, ScanInv, ScanTyped
  <2>3. loaded'[e] = "gone"  BY DEF DropEngine, ScanInv, ScanTyped
  <2>4. QED  BY <2>1, <2>2, <2>3, SumsKept
<1>4. QED  BY <1>1, <1>2, <1>3 DEF ScanInv

LEMMA ReceiveKeepsScan == ASSUME ScanInv, NEW e \in ScanEngines, Receive(e) PROVE ScanInv'
<1>0. /\ MaxReceived \in Nat /\ received[e] \in 0 .. MaxReceived /\ early[e] \in 0 .. MaxReceived
      /\ late[e] \in 0 .. MaxReceived /\ onDisk[e] \in 0 .. MaxReceived
      /\ memo.prev[e] \in -1 .. MaxReceived /\ pass.dl[e] \in -1 .. MaxReceived /\ memo.dl[e] \in -1 .. MaxReceived
  BY ScanAssumption DEF ScanInv, ScanTyped, MemoRecords, PassRecords, Samples
<1>1. /\ received' = [received EXCEPT ![e] = received[e] + 1] /\ early' = [early EXCEPT ![e] = early[e] + 1]
      /\ received[e] < MaxReceived /\ loaded[e] = "live" /\ loaded' = loaded
      /\ late' = late /\ onDisk' = onDisk /\ cacheSize' = cacheSize /\ memo' = memo /\ pass' = pass
  BY DEF Receive, Loaded
<1>2. onDisk[e] + late[e] + early[e] = received[e]  BY DEF ScanInv, EngineSound, Conserved
<1>3. received[e] + 1 \in 0 .. MaxReceived /\ early[e] + 1 \in 0 .. MaxReceived  BY <1>0, <1>1, <1>2
<1>4. received' \in [ScanEngines -> 0 .. MaxReceived] /\ early' \in [ScanEngines -> 0 .. MaxReceived]
  BY <1>1, <1>3 DEF ScanInv, ScanTyped
<1>5. ScanTyped'  BY <1>1, <1>4 DEF ScanInv, ScanTyped
<1>6. received'[e] = received[e] + 1 /\ early'[e] = early[e] + 1  BY <1>1 DEF ScanInv, ScanTyped
<1>7. \A x \in ScanEngines : x # e => received'[x] = received[x] /\ early'[x] = early[x]  BY <1>1 DEF ScanInv, ScanTyped
<1>8. ASSUME NEW x \in ScanEngines PROVE EngineSound(x)'
  <2>1. EngineSound(x)  BY DEF ScanInv
  <2>2. CASE x = e
    <3>1. Conserved(e)'  BY <1>0, <1>1, <1>2, <1>6 DEF Conserved
    <3>2. SampleSound(e)'  BY <1>0, <1>1, <1>6, <2>1, <2>2 DEF EngineSound, SampleSound
    <3>3. QED  BY <1>1, <2>2, <3>1, <3>2 DEF EngineSound
  <2>3. CASE x # e  BY <1>1, <1>7, <2>1, <2>3 DEF EngineSound, Conserved, Unknown, SampleSound
  <2>4. QED  BY <2>2, <2>3
<1>9. PassShape' /\ PassTotal' /\ MemoTotal'
  <2>1. pass.dl[e] # -1 => pass.dl[e] # received'[e]  BY <1>0, <1>1, <1>6, CountersGrow
  <2>2. memo.dl[e] # -1 => memo.dl[e] # received'[e]  BY <1>0, <1>1, <1>6, CountersGrow
  <2>3. received'[e] # -1  BY <1>0, <1>6
  <2>4. QED  BY <1>1, <1>7, <2>1, <2>2, <2>3, SumsKept
<1>10. QED  BY <1>5, <1>8, <1>9 DEF ScanInv

LEMMA WriteKeepsScan == ASSUME ScanInv, NEW e \in ScanEngines, Write(e) PROVE ScanInv'
<1>0. /\ MaxReceived \in Nat /\ received[e] \in 0 .. MaxReceived /\ early[e] \in 0 .. MaxReceived
      /\ late[e] \in 0 .. MaxReceived /\ onDisk[e] \in 0 .. MaxReceived
      /\ memo.prev[e] \in -1 .. MaxReceived /\ pass.dl[e] \in -1 .. MaxReceived
  BY ScanAssumption DEF ScanInv, ScanTyped, MemoRecords, PassRecords, Samples
<1>1. /\ onDisk' = [onDisk EXCEPT ![e] = onDisk[e] + 1]
      /\ loaded' = loaded /\ received' = received /\ cacheSize' = cacheSize /\ memo' = memo /\ pass' = pass
  BY DEF Write
<1>2. onDisk[e] + late[e] + early[e] = received[e]  BY DEF ScanInv, EngineSound, Conserved
<1>3. /\ late' \in [ScanEngines -> 0 .. MaxReceived] /\ early' \in [ScanEngines -> 0 .. MaxReceived]
      /\ \A x \in ScanEngines : x # e => late'[x] = late[x] /\ early'[x] = early[x]
      /\ late'[e] <= late[e] /\ early'[e] <= early[e] /\ late'[e] + early'[e] + 1 = late[e] + early[e]
  <2>1. CASE late[e] > 0 /\ late' = [late EXCEPT ![e] = late[e] - 1] /\ early' = early
    <3>1. late[e] - 1 \in 0 .. MaxReceived  BY <1>0, <2>1
    <3>2. QED  BY <1>0, <2>1, <3>1 DEF ScanInv, ScanTyped
  <2>2. CASE early[e] > 0 /\ early' = [early EXCEPT ![e] = early[e] - 1] /\ late' = late
    <3>1. early[e] - 1 \in 0 .. MaxReceived  BY <1>0, <2>2
    <3>2. QED  BY <1>0, <2>2, <3>1 DEF ScanInv, ScanTyped
  <2>3. QED  BY <2>1, <2>2 DEF Write
<1>4. late'[e] \in 0 .. MaxReceived /\ early'[e] \in 0 .. MaxReceived  BY <1>3
<1>5. onDisk[e] + 1 \in 0 .. MaxReceived  BY <1>0, <1>2, <1>3, <1>4
<1>6. ScanTyped'  BY <1>1, <1>3, <1>5 DEF ScanInv, ScanTyped
<1>7. onDisk'[e] = onDisk[e] + 1 /\ \A x \in ScanEngines : x # e => onDisk'[x] = onDisk[x]  BY <1>1 DEF ScanInv, ScanTyped
<1>8. ASSUME NEW x \in ScanEngines PROVE EngineSound(x)'
  <2>1. EngineSound(x)  BY DEF ScanInv
  <2>2. CASE x = e
    <3>1. Conserved(e)'  BY <1>0, <1>1, <1>2, <1>3, <1>4, <1>7 DEF Conserved
    <3>2. loaded[e] = "live" => SampleSound(e)'
      <4>1. SUFFICES ASSUME SampleSound(e) PROVE SampleSound(e)'  BY <2>1, <2>2 DEF EngineSound
      <4>2. QED  BY <1>0, <1>1, <1>3, <1>4, <4>1 DEF SampleSound
    <3>3. QED  BY <1>1, <2>1, <2>2, <3>1, <3>2 DEF EngineSound, Unknown
  <2>3. CASE x # e  BY <1>1, <1>3, <1>7, <2>1, <2>3 DEF EngineSound, Conserved, Unknown, SampleSound
  <2>4. QED  BY <2>2, <2>3
<1>9. PassShape' /\ PassTotal' /\ MemoTotal'  BY <1>1, SumsKept
<1>10. QED  BY <1>6, <1>8, <1>9 DEF ScanInv

\* The memo grows older and stays what it is.
LEMMA AgedTyped ==
  ASSUME ScanInv
  PROVE  Aged \in MemoRecords /\ Aged.dl = memo.dl /\ Aged.prev = memo.prev /\ Aged.total = memo.total
<1>1. PICK a : a = IF memo.dl = NoDl \/ memo.age = ScanMaxAge THEN memo.age ELSE memo.age + 1  OBVIOUS
<1>2. memo \in MemoRecords /\ ScanMaxAge \in Nat  BY ScanAssumption DEF ScanInv, ScanTyped
<1>3. memo.age \in 0 .. ScanMaxAge  BY <1>2 DEF MemoRecords
<1>4. a \in 0 .. ScanMaxAge  BY <1>1, <1>2, <1>3
<1>5. Aged = [memo EXCEPT !.age = a]  BY <1>1 DEF Aged
<1>6. QED  BY <1>2, <1>4, <1>5 DEF MemoRecords

\* Where the janitor rests and the counters stay, only the memo's age moves.
LEMMA AgingKeepsScan ==
  ASSUME ScanInv, memo' = Aged, pass' = pass,
         UNCHANGED <<loaded, received, late, early, onDisk, cacheSize>>
  PROVE  ScanInv'
<1>1. memo' \in MemoRecords /\ memo'.dl = memo.dl /\ memo'.prev = memo.prev /\ memo'.total = memo.total  BY AgedTyped
<1>2. ScanTyped'  BY <1>1 DEF ScanInv, ScanTyped
<1>3. \A e \in ScanEngines : EngineSound(e)'  BY <1>1 DEF ScanInv, EngineSound, Conserved, Unknown, SampleSound
<1>4. PassShape' /\ PassTotal' /\ MemoTotal'  BY <1>1, SumsKept
<1>5. QED  BY <1>2, <1>3, <1>4 DEF ScanInv

LEMMA SkipKeepsScan == ASSUME ScanInv, SkipWalk PROVE ScanInv'
BY AgingKeepsScan DEF SkipWalk

LEMMA BudgetKeepsScan == ASSUME ScanInv, SetCacheSize PROVE ScanInv'
<1>1. ScanTyped'  BY DEF ScanInv, ScanTyped, SetCacheSize
<1>2. \A e \in ScanEngines : EngineSound(e)'  BY DEF SetCacheSize, ScanInv, EngineSound, Conserved, Unknown, SampleSound
<1>3. PassShape' /\ PassTotal' /\ MemoTotal'  BY SumsKept DEF SetCacheSize
<1>4. QED  BY <1>1, <1>2, <1>3 DEF ScanInv

LEMMA BeginKeepsScan == ASSUME ScanInv, BeginWalk PROVE ScanInv'
<1>1. CASE cacheSize <= 0 \/ Loaded = {}  BY <1>1, AgingKeepsScan DEF BeginWalk
<1>2. CASE ~(cacheSize <= 0 \/ Loaded = {})
  <2>1. pass' = [Resting EXCEPT !.at = "walk", !.left = Loaded, !.budget = cacheSize]  BY <1>2 DEF BeginWalk
  <2>2. Loaded \in SUBSET ScanEngines /\ cacheSize \in Int  BY ScanAssumption DEF Loaded, ScanInv, ScanTyped
  <2>3. /\ pass' \in PassRecords /\ pass'.at = "walk" /\ pass'.left = Loaded /\ pass'.now = {}
        /\ pass'.dl = NoDl /\ pass'.total = 0
    BY <2>1, <2>2, RestingTyped DEF PassRecords
  <2>4. memo' \in MemoRecords /\ memo'.dl = memo.dl /\ memo'.prev = memo.prev /\ memo'.total = memo.total
    BY AgedTyped DEF BeginWalk
  <2>5. UNCHANGED <<loaded, received, late, early, onDisk, cacheSize>>  BY DEF BeginWalk
  <2>6. pass.dl = NoDl  BY DEF BeginWalk, ScanInv, PassShape
  <2>7. ScanTyped'  BY <2>3, <2>4, <2>5 DEF ScanInv, ScanTyped
  <2>8. ASSUME NEW e \in ScanEngines PROVE EngineSound(e)'
    <3>1. EngineSound(e)  BY DEF ScanInv
    <3>2. loaded[e] = "new" => e \notin Loaded  BY DEF Loaded
    <3>3. QED  BY <2>3, <2>4, <2>5, <2>6, <3>1, <3>2 DEF EngineSound, Conserved, Unknown, SampleSound
  <2>9. Sampled(pass'.dl) = {}  BY <2>3, NoSamples
  <2>10. PassShape'  BY <2>3, <2>9 DEF PassShape, Sampled
  <2>11. Measured' = {}  BY <2>9 DEF Measured, Sampled
  <2>12. PassTotal'  BY <2>3, <2>11, SumNone DEF PassTotal
  <2>13. MemoTotal'
    <3>1. MemoTotal  BY DEF ScanInv
    <3>2. QED  BY <2>4, <2>5, <3>1 DEF MemoTotal, Still, NoDl, Sampled
  <2>14. QED  BY <2>7, <2>8, <2>10, <2>12, <2>13 DEF ScanInv
<1>3. QED  BY <1>1, <1>2

LEMMA SampleKeepsScan == ASSUME ScanInv, NEW e \in ScanEngines, Sample(e) PROVE ScanInv'
<1>0. /\ MaxReceived \in Nat /\ received[e] \in 0 .. MaxReceived /\ early[e] \in 0 .. MaxReceived
      /\ onDisk[e] \in 0 .. MaxReceived /\ memo.prev[e] \in -1 .. MaxReceived
  BY ScanAssumption DEF ScanInv, ScanTyped, MemoRecords, Samples
<1>1. /\ pass.at = "walk" /\ e \in pass.left /\ pass.now = {} /\ late[e] = 0
      /\ late' = [late EXCEPT ![e] = early[e]] /\ early' = [early EXCEPT ![e] = 0]
      /\ loaded' = loaded /\ received' = received /\ onDisk' = onDisk /\ cacheSize' = cacheSize /\ memo' = memo
  BY DEF Sample
<1>2. pass \in PassRecords /\ pass.dl \in Samples  BY DEF ScanInv, ScanTyped, PassRecords
<1>3. PICK d : d = [pass.dl EXCEPT ![e] = received[e]]  OBVIOUS
<1>4. PICK l : l = pass.left \ {e}  OBVIOUS
<1>5. d \in Samples /\ d[e] = received[e] /\ \A x \in ScanEngines : x # e => d[x] = pass.dl[x]
  <2>1. received[e] \in -1 .. MaxReceived  BY <1>0
  <2>2. QED  BY <1>2, <1>3, <2>1 DEF Samples
<1>6. pass' = [pass EXCEPT !.left = l, !.now = {e}, !.dl = d]  BY <1>2, <1>3, <1>4 DEF Sample, PassRecords
<1>7. l \in SUBSET ScanEngines  BY <1>2, <1>4 DEF PassRecords
<1>8. /\ pass' \in PassRecords /\ pass'.at = "walk" /\ pass'.left = l /\ pass'.now = {e} /\ pass'.dl = d
      /\ pass'.total = pass.total
  BY <1>1, <1>2, <1>5, <1>6, <1>7 DEF PassRecords
<1>9. late' \in [ScanEngines -> 0 .. MaxReceived] /\ early' \in [ScanEngines -> 0 .. MaxReceived]
  BY <1>0, <1>1 DEF ScanInv, ScanTyped
<1>10. ScanTyped'  BY <1>1, <1>8, <1>9 DEF ScanInv, ScanTyped
<1>11. /\ late'[e] = early[e] /\ early'[e] = 0
       /\ \A x \in ScanEngines : x # e => late'[x] = late[x] /\ early'[x] = early[x]
  BY <1>1 DEF ScanInv, ScanTyped
<1>12. e \notin Sampled(pass.dl)  BY <1>1 DEF ScanInv, PassShape
<1>13. pass.dl[e] = -1 /\ d[e] # -1  BY <1>0, <1>5, <1>12 DEF Sampled
<1>14. ASSUME NEW x \in ScanEngines PROVE EngineSound(x)'
  <2>1. EngineSound(x)  BY DEF ScanInv
  <2>2. CASE x = e
    <3>1. Conserved(e)'  BY <1>0, <1>1, <1>11, <2>1, <2>2 DEF EngineSound, Conserved
    <3>2. loaded[e] # "new"  BY <1>1, <2>1, <2>2 DEF EngineSound, Unknown
    <3>3. loaded[e] = "live" => SampleSound(e)'
      <4>1. SUFFICES ASSUME SampleSound(e) PROVE SampleSound(e)'  BY <2>1, <2>2 DEF EngineSound
      <4>2. QED  BY <1>0, <1>1, <1>5, <1>8, <1>11, <1>13, <4>1 DEF SampleSound
    <3>4. QED  BY <1>1, <2>2, <3>1, <3>2, <3>3 DEF EngineSound
  <2>3. CASE x # e
    <3>1. d[x] = pass.dl[x] /\ late'[x] = late[x] /\ early'[x] = early[x]  BY <1>5, <1>11, <2>3
    <3>2. x \notin pass.left => x \notin l  BY <1>4
    <3>3. QED  BY <1>1, <1>8, <2>1, <3>1, <3>2 DEF EngineSound, Conserved, Unknown, SampleSound
  <2>4. QED  BY <2>2, <2>3
<1>15. Sampled(d) = Sampled(pass.dl) \cup {e}  BY <1>5, <1>13 DEF Sampled
<1>16. PassShape'
  <2>1. PassShape  BY DEF ScanInv
  <2>2. Sampled(d) \cap l = {}  BY <1>4, <1>15, <2>1 DEF PassShape
  <2>3. QED  BY <1>8, <1>15, <2>2 DEF PassShape, Sampled
<1>17. PICK M : M = Sampled(pass.dl)  OBVIOUS
<1>18. Measured = M /\ Measured' = M  BY <1>1, <1>8, <1>12, <1>15, <1>17 DEF Measured, Sampled
<1>19. \A x \in M : d[x] = pass.dl[x]  BY <1>5, <1>12, <1>17 DEF Sampled
<1>20. SumOver(d, M) = SumOver(pass.dl, M)  BY <1>19, SumSame
<1>21. PassTotal'
  <2>1. ASSUME \A x \in M : loaded[x] = "live" /\ received[x] = d[x], \A x \in M : memo.prev[x] = d[x]
        PROVE  pass.total = SumOver(d, M)
    <3>1. Still(pass.dl, M) /\ \A x \in M : memo.prev[x] = pass.dl[x]  BY <1>19, <2>1 DEF Still
    <3>2. QED  BY <1>18, <1>20, <3>1 DEF ScanInv, PassTotal
  <2>2. QED  BY <1>1, <1>8, <1>18, <2>1 DEF PassTotal, Still
<1>22. MemoTotal'
  <2>1. MemoTotal  BY DEF ScanInv
  <2>2. QED  BY <1>1, <2>1 DEF MemoTotal, Still, NoDl, Sampled
<1>23. QED  BY <1>10, <1>14, <1>16, <1>21, <1>22 DEF ScanInv

LEMMA MeasureKeepsScan == ASSUME ScanInv, NEW e \in ScanEngines, DirAllocated(e) PROVE ScanInv'
<1>1. /\ e \in pass.now /\ pass' = [pass EXCEPT !.now = {}, !.total = pass.total + onDisk[e]]
      /\ UNCHANGED <<loaded, received, late, early, onDisk, cacheSize, memo>>
  BY DEF DirAllocated
<1>2. pass \in PassRecords /\ onDisk[e] \in 0 .. MaxReceived /\ MaxReceived \in Nat  BY ScanAssumption DEF ScanInv, ScanTyped
<1>3. pass.total \in Nat  BY <1>2 DEF PassRecords
<1>4. pass.total + onDisk[e] \in Nat  BY <1>2, <1>3
<1>5. /\ pass' \in PassRecords /\ pass'.at = pass.at /\ pass'.left = pass.left /\ pass'.now = {} /\ pass'.dl = pass.dl
      /\ pass'.total = pass.total + onDisk[e]
  BY <1>1, <1>2, <1>4 DEF PassRecords
<1>6. ScanTyped'  BY <1>1, <1>5 DEF ScanInv, ScanTyped
<1>7. \A x \in ScanEngines : EngineSound(x)'
  BY <1>1, <1>5 DEF ScanInv, EngineSound, Conserved, Unknown, SampleSound
<1>8. PassShape'  BY <1>5 DEF ScanInv, PassShape, Sampled
<1>9. PICK M : M = Sampled(pass.dl) \ {e}  OBVIOUS
<1>10. e \in Sampled(pass.dl) /\ pass.now = {e}  BY <1>1 DEF ScanInv, PassShape
<1>11. Measured = M /\ e \notin M  BY <1>9, <1>10 DEF Measured
<1>12. Measured' = M \cup {e}  BY <1>5, <1>9, <1>10 DEF Measured, Sampled
<1>13. PassTotal'
  <2>1. ASSUME \A x \in M \cup {e} : loaded[x] = "live" /\ received[x] = pass.dl[x],
               \A x \in M \cup {e} : memo.prev[x] = pass.dl[x]
        PROVE  pass.total + onDisk[e] = SumOver(pass.dl, M \cup {e})
    <3>1. pass.total = SumOver(pass.dl, M)
      <4>1. Still(pass.dl, M) /\ \A x \in M : memo.prev[x] = pass.dl[x]  BY <2>1 DEF Still
      <4>2. QED  BY <1>11, <4>1 DEF ScanInv, PassTotal
    <3>2. onDisk[e] = pass.dl[e]
      <4>1. EngineSound(e) /\ loaded[e] = "live" /\ received[e] = pass.dl[e] /\ memo.prev[e] = pass.dl[e] /\ pass.dl[e] # -1
        BY <1>10, <2>1 DEF ScanInv, Sampled
      <4>2. /\ received[e] \in 0 .. MaxReceived /\ late[e] \in 0 .. MaxReceived /\ early[e] \in 0 .. MaxReceived
        BY DEF ScanInv, ScanTyped
      <4>3. QED  BY <1>2, <4>1, <4>2 DEF EngineSound, Conserved, SampleSound
    <3>3. IsFiniteSet(M)
      <4>1. M \subseteq ScanEngines  BY <1>9 DEF Sampled
      <4>2. QED  BY <4>1, ScanAssumption, FS_Subset
    <3>4. ASSUME NEW x \in M \cup {e} PROVE pass.dl[x] \in Nat
      <4>1. x \in ScanEngines /\ pass.dl[x] # -1  BY <1>9, <1>10 DEF Sampled
      <4>2. pass.dl[x] \in -1 .. MaxReceived  BY <1>2, <4>1 DEF PassRecords, Samples
      <4>3. QED  BY <1>2, <4>1, <4>2
    <3>5. PICK q : q = pass.dl  OBVIOUS
    <3>6. SumOver(q, M \cup {e}) = SumOver(q, M) + q[e]  BY <1>11, <3>3, <3>4, <3>5, SumPlus
    <3>7. QED  BY <3>1, <3>2, <3>5, <3>6
  <2>2. QED  BY <1>1, <1>5, <1>12, <2>1 DEF PassTotal, Still
<1>14. MemoTotal'
  <2>1. MemoTotal  BY DEF ScanInv
  <2>2. QED  BY <1>1, <2>1 DEF MemoTotal, Still, NoDl, Sampled
<1>15. QED  BY <1>6, <1>7, <1>8, <1>13, <1>14 DEF ScanInv

LEMMA ObserveKeepsScan == ASSUME ScanInv, Observe PROVE ScanInv'
<1>1. /\ pass.left = {} /\ pass.now = {} /\ pass' = Resting
      /\ UNCHANGED <<loaded, received, late, early, onDisk, cacheSize>>
  BY DEF Observe
<1>2. pass.dl \in Samples /\ pass.total \in Nat /\ memo \in MemoRecords /\ 0 \in 0 .. ScanMaxAge
  BY ScanAssumption DEF ScanInv, ScanTyped, PassRecords
<1>3. memo' \in MemoRecords /\ memo'.prev = pass.dl
      /\ \/ memo'.dl = NoDl
         \/ memo'.dl = pass.dl /\ memo.prev = pass.dl /\ memo'.total = pass.total
  <2>1. CASE pass.total <= pass.budget /\ Stable(memo.prev, pass.dl)
    <3>1. memo' = [dl |-> pass.dl, prev |-> pass.dl, total |-> pass.total, age |-> 0]  BY <2>1 DEF Observe
    <3>2. memo.prev = pass.dl  BY <2>1 DEF Stable
    <3>3. QED  BY <1>2, <3>1, <3>2 DEF MemoRecords
  <2>2. CASE ~(pass.total <= pass.budget /\ Stable(memo.prev, pass.dl))
    <3>1. memo' = [memo EXCEPT !.dl = NoDl, !.prev = pass.dl, !.total = 0, !.age = 0]  BY <2>2 DEF Observe
    <3>2. QED  BY <1>2, <3>1, NoSamples DEF MemoRecords
  <2>3. QED  BY <2>1, <2>2
<1>4. ScanTyped'  BY <1>1, <1>3, RestingTyped DEF ScanInv, ScanTyped
<1>5. ASSUME NEW e \in ScanEngines PROVE EngineSound(e)'
  <2>1. EngineSound(e)  BY DEF ScanInv
  <2>2. pass'.dl[e] = -1 /\ e \notin pass'.left  BY <1>1, RestingTyped DEF NoDl
  <2>3. memo'.dl[e] = -1 \/ memo'.dl[e] = pass.dl[e]  BY <1>3 DEF NoDl
  <2>4. QED  BY <1>1, <1>3, <2>1, <2>2, <2>3 DEF EngineSound, Conserved, Unknown, SampleSound
<1>6. Sampled(pass'.dl) = {}  BY <1>1, RestingTyped, NoSamples
<1>7. PassShape'  BY <1>1, <1>6, RestingTyped DEF PassShape, Sampled, NoDl
<1>8. Measured' = {}  BY <1>6 DEF Measured, Sampled
<1>9. PassTotal'  BY <1>1, <1>8, RestingTyped, SumNone DEF PassTotal
<1>10. MemoTotal'
  <2>1. CASE memo'.dl = NoDl  BY <2>1 DEF MemoTotal, NoDl
  <2>2. CASE memo'.dl = pass.dl /\ memo.prev = pass.dl /\ memo'.total = pass.total
    <3>1. PICK S : S = Sampled(pass.dl)  OBVIOUS
    <3>2. Measured = S  BY <1>1, <3>1 DEF Measured
    <3>3. ASSUME \A e \in S : loaded[e] = "live" /\ received[e] = pass.dl[e] PROVE pass.total = SumOver(pass.dl, S)
      <4>1. Still(pass.dl, S)  BY <3>3 DEF Still
      <4>2. QED  BY <2>2, <3>2, <4>1 DEF ScanInv, PassTotal
    <3>4. QED  BY <1>1, <1>3, <2>2, <3>1, <3>3 DEF MemoTotal, Still, Sampled
  <2>3. QED  BY <1>3, <2>1, <2>2
<1>11. QED  BY <1>4, <1>5, <1>7, <1>9, <1>10 DEF ScanInv

LEMMA ScanStep == ScanInv /\ [ScanNext]_scanVars => ScanInv'
<1> SUFFICES ASSUME ScanInv, [ScanNext]_scanVars PROVE ScanInv'  OBVIOUS
<1>1. CASE UNCHANGED scanVars
  <2>1. ScanTyped'  BY <1>1 DEF scanVars, ScanInv, ScanTyped
  <2>2. \A e \in ScanEngines : EngineSound(e)'  BY <1>1 DEF scanVars, ScanInv, EngineSound, Conserved, Unknown, SampleSound
  <2>3. PassShape' /\ PassTotal' /\ MemoTotal'  BY <1>1, SumsKept DEF scanVars
  <2>4. QED  BY <2>1, <2>2, <2>3 DEF ScanInv
<1>2. CASE SkipWalk  BY <1>2, SkipKeepsScan
<1>3. CASE BeginWalk  BY <1>3, BeginKeepsScan
<1>4. CASE Observe  BY <1>4, ObserveKeepsScan
<1>5. CASE SetCacheSize  BY <1>5, BudgetKeepsScan
<1>6. ASSUME NEW e \in ScanEngines,
             LoadEngine(e) \/ DropEngine(e) \/ Receive(e) \/ Write(e) \/ Sample(e) \/ DirAllocated(e)
      PROVE  ScanInv'
  BY <1>6, LoadKeepsScan, DropKeepsScan, ReceiveKeepsScan, WriteKeepsScan, SampleKeepsScan, MeasureKeepsScan
<1>7. QED  BY <1>1, <1>2, <1>3, <1>4, <1>5, <1>6 DEF ScanNext

\* The invariant of the janitor's memo: bytes are counted, then on their way, then on
\* disk; as long as no byte comes, two walks that read the same counters have added up
\* every byte of them (evict, diskScan.observe).
THEOREM ScanInvariant == ScanSpec => []ScanInv
<1>1. ScanInit => ScanInv  BY ScanStarts
<1>2. ScanInv /\ [ScanNext]_scanVars => ScanInv'  BY ScanStep
<1>3. QED  BY <1>1, <1>2, PTL DEF ScanSpec

LEMMA ScanTypesHold == ScanInv => ScanTypeOK
BY DEF ScanInv, ScanTyped, ScanTypeOK, MemoRecords, PassRecords

\* What a skipped walk would have found.
LEMMA SkipIsTrue == ASSUME ScanInv, SkipWalk PROVE DiskTotal = memo.total /\ DiskTotal <= cacheSize
<1>1. /\ memo.dl # NoDl /\ memo.total <= cacheSize /\ Loaded = Sampled(memo.dl)
      /\ \A e \in Loaded : received[e] = memo.dl[e]
  BY DEF SkipWalk, CacheQuiet
<1>2. PICK S : S = Loaded  OBVIOUS
<1>3. S \subseteq ScanEngines /\ \A e \in S : loaded[e] = "live"  BY <1>2 DEF Loaded
<1>4. Still(memo.dl, S)  BY <1>1, <1>2, <1>3 DEF Still
<1>5. memo.total = SumOver(memo.dl, S)  BY <1>1, <1>2, <1>4 DEF ScanInv, MemoTotal
<1>6. PICK p : p = [e \in ScanEngines |-> onDisk[e] + late[e] + early[e]]  OBVIOUS
<1>7. PICK q : q = memo.dl  OBVIOUS
<1>8. \A e \in S : p[e] = q[e]  BY <1>1, <1>2, <1>3, <1>6, <1>7 DEF ScanInv, EngineSound, Conserved
<1>9. SumOver(p, S) = SumOver(q, S)  BY <1>8, SumSame
<1>10. QED  BY <1>1, <1>2, <1>5, <1>6, <1>7, <1>9 DEF DiskTotal

\* A tick that skips the walk hides no cache over its budget, for any number of engines,
\* bytes, budgets and ages of the memo, and whatever comes, goes or is resized between
\* the walks (cacheQuiet, diskScan.observe).
THEOREM QuietTicksAreTrue == ScanSpec => QuietIsTrue
<1>1. ScanInv /\ ScanInv' /\ [ScanNext]_scanVars
        => [ScanTypeOK' /\ (SkipWalk => DiskTotal = memo.total /\ DiskTotal <= cacheSize)]_scanVars
  <2>1. ScanInv' => ScanTypeOK'  BY ScanTypesHold, PTL
  <2>2. QED  BY <2>1, SkipIsTrue
<1>2. QED  BY <1>1, ScanInvariant, PTL DEF ScanSpec, QuietIsTrue

-----------------------------------------------------------------------------
(* Manifests (ManifestRewrite): the invariant *)

\* The lines gone through are routed, and the loop knows whether the next URI is a
\* variant's.
LinesSound ==
  /\ Len(playlist) <= MaxLines /\ hls.next = Len(hls.out) + 1 /\ Len(hls.out) <= Len(playlist)
  /\ hls.variant <=> IsVariant(hls.next)
  /\ hls.at = "fetch" => hls.next = 1
  /\ hls.at # "fetch" => prebuffered = SegmentLines(playlist, Prebuffer)
  /\ hls.at = "done" => Len(hls.out) = Len(playlist)
  /\ \A i \in 1 .. Len(hls.out) : hls.out[i] = "stream" => playlist[i].tag = "key"

\* Token k opened frame d. The texts before token n that make up the base in effect in
\* frame d, and what is left of such a path: nothing before the last absolute reference.
OpenedBy(k, d) == dash.frames[d].at = k
PathOf(d, n) == {m \in 1 .. n - 1 : \E k \in 0 .. n - 1, e \in 1 .. d : OpenedBy(k, e) /\ m \in FirstBase(k, n)}
InForce(path) == {m \in path : \A j \in path : j > m => mpd[j].ref # "abs"}

\* The frames are the document and the elements open before token n, from the outside in.
FrameOpen(d, k) ==
  /\ OpenedBy(k, d) /\ mpd[k].kind = "start" /\ mpd[k].name = dash.frames[d].name
  /\ Depth(k) = d - 2 /\ \E p \in 0 .. k - 1 : OpenedBy(p, d - 1) /\ Parent(k) = p
FramesOpen(n) ==
  /\ Top >= 1 /\ OpenedBy(0, 1) /\ dash.frames[1].name = "doc" /\ Depth(n) = Top - 1
  /\ \A d \in 2 .. Top : \E k \in 1 .. n - 1 : FrameOpen(d, k)
  /\ \A d \in 1 .. Top, e \in 1 .. Top : e < d => dash.frames[e].at < dash.frames[d].at
  /\ Enclosing(n) = {k \in 1 .. n - 1 : \E d \in 2 .. Top : OpenedBy(k, d)}

\* A BaseURL is innermost, and it is waited for while all in it is blank.
Waiting(n) == dash.frames[Top].name = "BaseURL" /\ \A j \in dash.frames[Top].at + 1 .. n - 1 : mpd[j].ref = "blank"
InnermostBase(n) ==
  /\ \A d \in 1 .. Top - 1 : dash.frames[d].name # "BaseURL"
  /\ dash.inBaseURL <=> Waiting(n)

\* The base of every other frame is the one in effect there.
BaseSound(d, k, n) ==
  /\ dash.frames[d].set <=> BaseTexts(k, n) # {}
  /\ dash.frames[d].name # "BaseURL" => dash.frames[d].base = InForce(PathOf(d, n))
BasesSound(n) == \A d \in 1 .. Top, k \in 0 .. n - 1 : OpenedBy(k, d) => BaseSound(d, k, n)

ReadSound(n) == FramesOpen(n) /\ InnermostBase(n) /\ BasesSound(n)
MpdSound ==
  /\ Len(mpd) <= MaxTokens
  /\ \A o \in {dash.out[i] : i \in 1 .. Len(dash.out)} : o.at \in 1 .. Len(mpd)
  /\ dash.at = "read" => \E n \in 1 .. MaxTokens + 1 : n = Len(mpd) + 1 /\ ReadSound(n)

RewriteInv == RewriteTypeOK /\ LinesSound /\ HlsRouted /\ MpdSound /\ DashResolved
-----------------------------------------------------------------------------
(* Playlists *)

\* What the lines of a playlist can be.
LEMMA LineIs ==
  ASSUME NEW l \in Lines
  PROVE  /\ l.tag \in {"uri", "map", "part", "list", "key", "inf", "note", "blank"}
         /\ l.ref \in {"own", "bare", "m3u8", "data", "none"}
         /\ l.tag = "uri" => l.ref # "none"
         /\ l.tag \in {"inf", "note", "blank"} => l.ref = "none"
         /\ l.ref = "m3u8" => l.tag = "uri"
<1>1. CASE \E r \in {"own", "bare", "m3u8", "data"} : l = Line("uri", r)
  <2>1. PICK r \in {"own", "bare", "m3u8", "data"} : l = Line("uri", r)  BY <1>1
  <2>2. l.tag = "uri" /\ l.ref = r  BY <2>1 DEF Line
  <2>3. QED  BY <2>1, <2>2
<1>2. CASE \E t \in {"inf", "map", "note", "blank"} : l = Line(t, "none")
  <2>1. PICK t \in {"inf", "map", "note", "blank"} : l = Line(t, "none")  BY <1>2
  <2>2. l.tag = t /\ l.ref = "none"  BY <2>1 DEF Line
  <2>3. QED  BY <2>1, <2>2
<1>3. CASE \E t \in {"map", "part", "list", "key"}, r \in {"own", "bare", "data"} : l = Line(t, r)
  <2>1. PICK t \in {"map", "part", "list", "key"}, r \in {"own", "bare", "data"} : l = Line(t, r)  BY <1>3
  <2>2. l.tag = t /\ l.ref = r  BY <2>1 DEF Line
  <2>3. QED  BY <2>1, <2>2
<1>4. QED  BY <1>1, <1>2, <1>3 DEF Lines

\* Where a line is routed.
LEMMA EndpointIs ==
  ASSUME NEW l \in Lines, NEW v \in BOOLEAN
  PROVE  /\ Endpoint(l, v) \in Endpoints
         /\ Endpoint(l, v) = "verbatim" <=> l.ref \in {"none", "data"}
         /\ Endpoint(l, v) = "hls" <=> l.ref \notin {"none", "data"} /\ (l.tag = "list" \/ (l.tag = "uri" /\ (l.ref = "m3u8" \/ v)))
         /\ Endpoint(l, v) = "segment.ts" => SegDefault = "segment.ts"
         /\ Endpoint(l, v) = "segment.mp4" => SegDefault = "segment.mp4" \/ l.tag = "map"
         /\ Endpoint(l, v) = "stream" => l.tag = "key"
<1>1. PICK s \in {"segment.ts", "segment.mp4"} : s = SegDefault  BY DEF SegDefault
<1>2. CASE l.ref \in {"none", "data"}  BY <1>2 DEF Endpoint, Endpoints
<1>3. CASE l.ref \notin {"none", "data"} /\ l.tag = "uri"  BY <1>1, <1>3, LineIs DEF Endpoint, Endpoints, SegmentEndpoint
<1>4. CASE l.ref \notin {"none", "data"} /\ l.tag = "key"  BY <1>1, <1>4, LineIs DEF Endpoint, Endpoints
<1>5. CASE l.ref \notin {"none", "data"} /\ l.tag = "map"  BY <1>1, <1>5, LineIs DEF Endpoint, Endpoints, SegmentEndpoint
<1>6. CASE l.ref \notin {"none", "data"} /\ l.tag = "part"  BY <1>1, <1>6, LineIs DEF Endpoint, Endpoints, SegmentEndpoint
<1>7. CASE l.ref \notin {"none", "data"} /\ l.tag = "list"  BY <1>1, <1>7, LineIs DEF Endpoint, Endpoints
<1>8. QED  BY <1>2, <1>3, <1>4, <1>5, <1>6, <1>7, LineIs

\* Whether the next URI is a variant's follows from the line before it.
LEMMA VariantNext ==
  ASSUME NEW n \in Nat \ {0}
  PROVE  IsVariant(n + 1) <=> playlist[n].tag = "inf" \/ (IsVariant(n) /\ playlist[n].tag # "uri")
<1>1. ASSUME playlist[n].tag = "inf" PROVE IsVariant(n + 1)
  <2>1. n \in 1 .. (n + 1) - 1 /\ \A k \in n + 1 .. (n + 1) - 1 : playlist[k].tag # "uri"  OBVIOUS
  <2>2. QED  BY <1>1, <2>1 DEF IsVariant
<1>2. ASSUME IsVariant(n), playlist[n].tag # "uri" PROVE IsVariant(n + 1)
  <2>1. PICK j \in 1 .. n - 1 : playlist[j].tag = "inf" /\ \A k \in j + 1 .. n - 1 : playlist[k].tag # "uri"
    BY <1>2 DEF IsVariant
  <2>2. j \in 1 .. (n + 1) - 1 /\ \A k \in j + 1 .. (n + 1) - 1 : k = n \/ k \in j + 1 .. n - 1  OBVIOUS
  <2>3. QED  BY <1>2, <2>1, <2>2 DEF IsVariant
<1>3. ASSUME IsVariant(n + 1), playlist[n].tag # "inf" PROVE IsVariant(n) /\ playlist[n].tag # "uri"
  <2>1. PICK j \in 1 .. (n + 1) - 1 : playlist[j].tag = "inf" /\ \A k \in j + 1 .. (n + 1) - 1 : playlist[k].tag # "uri"
    BY <1>3 DEF IsVariant
  <2>2. j \in 1 .. n - 1 /\ n \in j + 1 .. (n + 1) - 1 /\ \A k \in j + 1 .. n - 1 : k \in j + 1 .. (n + 1) - 1
    BY <1>3, <2>1
  <2>3. QED  BY <2>1, <2>2 DEF IsVariant
<1>4. QED  BY <1>1, <1>2, <1>3

\* What is said of the tokens stays when they do.
LEMMA SameTokens ==
  ASSUME UNCHANGED mpd
  PROVE  /\ \A i : Depth(i)' = Depth(i) /\ Enclosing(i)' = Enclosing(i) /\ Parent(i)' = Parent(i)
         /\ \A k, i : BaseTexts(k, i)' = BaseTexts(k, i) /\ FirstBase(k, i)' = FirstBase(k, i)
         /\ \A o : WellResolved(o)' <=> WellResolved(o)
<1>1. mpd' = mpd  OBVIOUS
<1>2. \A i : Depth(i)' = Depth(i)  BY <1>1 DEF Depth
<1>3. \A k, i : Encloses(k, i)' <=> Encloses(k, i)  BY <1>1, <1>2 DEF Encloses
<1>4. \A i : Enclosing(i)' = Enclosing(i)  BY <1>3 DEF Enclosing
<1>5. \A i : Parent(i)' = Parent(i)  BY <1>4 DEF Parent
<1>6. \A m, p, k : URLOf(m, p, k)' <=> URLOf(m, p, k)  BY <1>1, <1>5 DEF URLOf
<1>7. \A k, i : BaseTexts(k, i)' = BaseTexts(k, i)  BY <1>6 DEF BaseTexts
<1>8. \A k, i : FirstBase(k, i)' = FirstBase(k, i)  BY <1>7 DEF FirstBase
<1>9. \A i, around : InEffect(i, around)' = InEffect(i, around)  BY <1>1, <1>8 DEF InEffect
<1>10. \A o : WellResolved(o)' <=> WellResolved(o)  BY <1>1, <1>4, <1>6, <1>7, <1>9 DEF WellResolved
<1>11. QED  BY <1>2, <1>4, <1>5, <1>7, <1>8, <1>10

\* While a playlist is worked on the MPD is left alone.
LEMMA DashAside ==
  ASSUME RewriteInv, UNCHANGED dashVars
  PROVE  MpdSound' /\ DashResolved'
<1>1. mpd' = mpd /\ dash' = dash  BY DEF dashVars
<1>2. /\ \A i : Depth(i)' = Depth(i) /\ Enclosing(i)' = Enclosing(i) /\ Parent(i)' = Parent(i)
      /\ \A k, i : BaseTexts(k, i)' = BaseTexts(k, i) /\ FirstBase(k, i)' = FirstBase(k, i)
      /\ \A o : WellResolved(o)' <=> WellResolved(o)
  BY <1>1, SameTokens
<1>3. DashResolved'  BY <1>1, <1>2 DEF RewriteInv, DashResolved
<1>4. Top' = Top /\ \A k, d : OpenedBy(k, d)' <=> OpenedBy(k, d)  BY <1>1 DEF OpenedBy, Top
<1>5. \A d, n : PathOf(d, n)' = PathOf(d, n)  BY <1>2, <1>4 DEF PathOf
<1>6. ASSUME NEW n PROVE FramesOpen(n)' <=> FramesOpen(n)
  <2>1. \A d, k : FrameOpen(d, k)' <=> FrameOpen(d, k)  BY <1>1, <1>2, <1>4 DEF FrameOpen
  <2>2. QED  BY <1>1, <1>2, <1>4, <2>1 DEF FramesOpen
<1>7. ASSUME NEW n PROVE InnermostBase(n)' <=> InnermostBase(n)  BY <1>1, <1>4 DEF InnermostBase, Waiting
<1>8. ASSUME NEW n PROVE BasesSound(n)' <=> BasesSound(n)
  <2>1. \A d : InForce(PathOf(d, n))' = InForce(PathOf(d, n))  BY <1>1, <1>5 DEF InForce
  <2>2. \A d, k : BaseSound(d, k, n)' <=> BaseSound(d, k, n)  BY <1>1, <1>2, <2>1 DEF BaseSound
  <2>3. QED  BY <1>4, <2>2 DEF BasesSound
<1>9. MpdSound'  BY <1>1, <1>6, <1>7, <1>8 DEF RewriteInv, MpdSound, ReadSound
<1>10. QED  BY <1>3, <1>9

LEMMA SamePlaylist ==
  ASSUME UNCHANGED playlist, NEW endpoint, NEW i
  PROVE  /\ IsVariant(i)' <=> IsVariant(i)
         /\ Fits(endpoint, i)' <=> Fits(endpoint, i)
         /\ SegmentLines(playlist, Prebuffer)' = SegmentLines(playlist, Prebuffer)
<1>1. \A j : IsVariant(j)' <=> IsVariant(j)  BY DEF IsVariant
<1>2. NamesPlaylist(i)' <=> NamesPlaylist(i)  BY <1>1 DEF NamesPlaylist
<1>3. Fits(endpoint, i)' <=> Fits(endpoint, i)  BY <1>2 DEF Fits
<1>4. SegmentLines(playlist, Prebuffer)' = SegmentLines(playlist, Prebuffer)  BY DEF SegmentLines, Foremost
<1>5. QED  BY <1>1, <1>3, <1>4

LEMMA FetchKeeps == ASSUME RewriteInv, FetchPlaylist PROVE RewriteInv'
<1>1. PICK l \in Lines : playlist' = Append(playlist, l)  BY DEF FetchPlaylist
<1>2. playlist \in Seq(Lines) /\ Len(playlist) < MaxLines /\ MaxLines \in Nat
  BY RewriteAssumption DEF RewriteInv, RewriteTypeOK, FetchPlaylist
<1>3. playlist' \in Seq(Lines) /\ Len(playlist') = Len(playlist) + 1  BY <1>1, <1>2
<1>4. hls' = hls /\ prebuffered' = prebuffered /\ UNCHANGED dashVars /\ hls.at = "fetch"  BY DEF FetchPlaylist
<1>5. RewriteTypeOK'  BY <1>3, <1>4 DEF RewriteInv, RewriteTypeOK, dashVars
<1>6. hls.next = 1 /\ Len(hls.out) = 0
  <2>1. hls.out \in Seq(Endpoints)  BY DEF RewriteInv, RewriteTypeOK
  <2>2. QED  BY <1>4, <2>1 DEF RewriteInv, LinesSound
<1>7. HlsRouted'
  <2>1. 1 .. Len(hls.out)' = {}  BY <1>4, <1>6
  <2>2. QED  BY <2>1 DEF HlsRouted
<1>8. ~IsVariant(1) /\ ~IsVariant(1)'  BY DEF IsVariant
<1>9. LinesSound'
  <2>1. ~hls.variant  BY <1>6, <1>8 DEF RewriteInv, LinesSound
  <2>2. IsVariant(hls.next)' <=> IsVariant(1)'  BY <1>4, <1>6 DEF IsVariant
  <2>3. QED  BY <1>2, <1>3, <1>4, <1>6, <1>8, <2>1, <2>2 DEF RewriteInv, LinesSound
<1>10. QED  BY <1>4, <1>5, <1>7, <1>9, DashAside DEF RewriteInv

LEMMA PrefetchKeeps == ASSUME RewriteInv, Prefetch PROVE RewriteInv'
<1>1. /\ hls' = [hls EXCEPT !.at = "lines"] /\ prebuffered' = SegmentLines(playlist, Prebuffer)
      /\ playlist' = playlist /\ UNCHANGED dashVars /\ hls.at = "fetch"
  BY DEF Prefetch
<1>2. hls \in [at : {"fetch", "lines", "done"}, next : 1 .. MaxLines + 1, variant : BOOLEAN, out : Seq(Endpoints)]
  BY DEF RewriteInv, RewriteTypeOK
<1>3. /\ hls' \in [at : {"fetch", "lines", "done"}, next : 1 .. MaxLines + 1, variant : BOOLEAN, out : Seq(Endpoints)]
      /\ hls'.at = "lines" /\ hls'.next = hls.next /\ hls'.variant = hls.variant /\ hls'.out = hls.out
  BY <1>1, <1>2
<1>4. SegmentLines(playlist, Prebuffer)' = SegmentLines(playlist, Prebuffer)  BY <1>1 DEF SegmentLines, Foremost
<1>5. prebuffered' \subseteq 1 .. MaxLines
  <2>1. SegmentLines(playlist, Prebuffer) \subseteq 1 .. Len(playlist)  BY DEF SegmentLines, Foremost
  <2>2. Len(playlist) <= MaxLines /\ Len(playlist) \in Nat /\ MaxLines \in Nat
    BY RewriteAssumption DEF RewriteInv, LinesSound, RewriteTypeOK
  <2>3. QED  BY <1>1, <2>1, <2>2
<1>6. RewriteTypeOK'  BY <1>1, <1>3, <1>5 DEF RewriteInv, RewriteTypeOK, dashVars
<1>7. HlsRouted'  BY <1>1, <1>3, SamePlaylist DEF RewriteInv, HlsRouted
<1>8. LinesSound'
  <2>1. IsVariant(hls.next)' <=> IsVariant(hls.next)  BY <1>1, <1>3 DEF IsVariant
  <2>2. QED  BY <1>1, <1>3, <1>4, <2>1 DEF RewriteInv, LinesSound
<1>9. QED  BY <1>1, <1>6, <1>7, <1>8, DashAside DEF RewriteInv

LEMMA LineKeeps == ASSUME RewriteInv, RewriteLine PROVE RewriteInv'
<1>1. PICK n : n = hls.next  OBVIOUS
<1>2. PICK l : l = playlist[n]  OBVIOUS
<1>3. PICK v : v = hls.variant  OBVIOUS
<1>4. PICK x : x = Endpoint(l, v)  OBVIOUS
<1>5. playlist \in Seq(Lines) /\ Len(playlist) \in Nat /\ Len(playlist) <= MaxLines /\ MaxLines \in Nat
  BY RewriteAssumption DEF RewriteInv, LinesSound, RewriteTypeOK
<1>6. hls \in [at : {"fetch", "lines", "done"}, next : 1 .. MaxLines + 1, variant : BOOLEAN, out : Seq(Endpoints)]
  BY DEF RewriteInv, RewriteTypeOK
<1>7. n \in 1 .. Len(playlist) /\ Len(hls.out) = n - 1 /\ hls.out \in Seq(Endpoints) /\ v \in BOOLEAN /\ l \in Lines
  BY <1>1, <1>2, <1>3, <1>5, <1>6 DEF RewriteInv, LinesSound, RewriteLine
<1>8. x \in Endpoints  BY <1>4, <1>7, EndpointIs
<1>9. PICK u \in BOOLEAN : u <=> l.tag = "inf" \/ (v /\ l.tag # "uri")  OBVIOUS
<1>10. /\ hls' = [hls EXCEPT !.next = n + 1, !.out = Append(hls.out, x), !.variant = u]
       /\ hls.at = "lines" /\ playlist' = playlist /\ prebuffered' = prebuffered /\ UNCHANGED dashVars
  BY <1>1, <1>2, <1>3, <1>4, <1>7, <1>9 DEF RewriteLine
<1>11. PICK out : out = Append(hls.out, x)  OBVIOUS
<1>12. /\ out \in Seq(Endpoints) /\ Len(out) = n /\ out[n] = x
       /\ \A i \in 1 .. n : i = n \/ (i \in 1 .. Len(hls.out) /\ out[i] = hls.out[i])
  BY <1>7, <1>8, <1>11
<1>13. /\ hls' \in [at : {"fetch", "lines", "done"}, next : 1 .. MaxLines + 1, variant : BOOLEAN, out : Seq(Endpoints)]
       /\ hls'.at = "lines" /\ hls'.next = n + 1 /\ hls'.variant = u /\ hls'.out = out
  <2>1. hls' = [hls EXCEPT !.next = n + 1, !.out = out, !.variant = u]  BY <1>10, <1>11
  <2>2. n + 1 \in 1 .. MaxLines + 1  BY <1>5, <1>7
  <2>3. QED  BY <1>6, <1>9, <1>10, <1>12, <2>1, <2>2
<1>14. RewriteTypeOK'  BY <1>10, <1>13 DEF RewriteInv, RewriteTypeOK, dashVars
<1>15. v <=> IsVariant(n)  BY <1>1, <1>3 DEF RewriteInv, LinesSound
<1>16. u <=> IsVariant(n + 1)
  <2>1. n \in Nat \ {0}  BY <1>7
  <2>2. IsVariant(n + 1) <=> playlist[n].tag = "inf" \/ (IsVariant(n) /\ playlist[n].tag # "uri")  BY <2>1, VariantNext
  <2>3. QED  BY <1>2, <1>9, <1>15, <2>2
<1>17. LinesSound'
  <2>1. IsVariant(hls.next)' <=> IsVariant(n + 1)  BY <1>10, <1>13 DEF IsVariant
  <2>2. SegmentLines(playlist, Prebuffer)' = SegmentLines(playlist, Prebuffer)  BY <1>10 DEF SegmentLines, Foremost
  <2>3. ASSUME NEW i \in 1 .. n, out[i] = "stream" PROVE playlist[i].tag = "key"
    <3>1. x = "stream" => l.tag = "key"  BY <1>4, <1>7, EndpointIs
    <3>2. QED  BY <1>2, <1>12, <2>3, <3>1 DEF RewriteInv, LinesSound
  <2>4. QED  BY <1>5, <1>7, <1>10, <1>12, <1>13, <1>16, <2>1, <2>2, <2>3 DEF RewriteInv, LinesSound
<1>18. ASSUME NEW i \in 1 .. n PROVE Fits(out[i], i)
  <2>1. CASE i = n
    <3>1. NamesPlaylist(n) <=> l.tag = "list" \/ (l.tag = "uri" /\ (l.ref = "m3u8" \/ v))  BY <1>2, <1>15 DEF NamesPlaylist
    <3>2. SegDefault = "segment.ts" => \A j \in 1 .. Len(playlist) : playlist[j].tag # "map"  BY DEF SegDefault
    <3>3. SegDefault = "segment.mp4" => \E j \in 1 .. Len(playlist) : playlist[j].tag = "map"  BY DEF SegDefault
    <3>4. /\ x = "verbatim" <=> l.ref \in {"none", "data"}
          /\ x = "hls" <=> l.ref \notin {"none", "data"} /\ (l.tag = "list" \/ (l.tag = "uri" /\ (l.ref = "m3u8" \/ v)))
          /\ x = "segment.ts" => SegDefault = "segment.ts"
          /\ x = "segment.mp4" => SegDefault = "segment.mp4" \/ l.tag = "map"
      BY <1>4, <1>7, EndpointIs
    <3>5. Fits(x, n)  BY <1>2, <1>7, <3>1, <3>2, <3>3, <3>4 DEF Fits
    <3>6. QED  BY <1>12, <2>1, <3>5
  <2>2. CASE i # n  BY <1>12, <2>2 DEF RewriteInv, HlsRouted
  <2>3. QED  BY <2>1, <2>2
<1>19. HlsRouted'  BY <1>10, <1>12, <1>13, <1>18, SamePlaylist DEF HlsRouted
<1>20. QED  BY <1>10, <1>14, <1>17, <1>19, DashAside DEF RewriteInv

LEMMA DoneKeeps == ASSUME RewriteInv, PlaylistDone PROVE RewriteInv'
<1>1. /\ hls' = [hls EXCEPT !.at = "done"] /\ prebuffered' = prebuffered /\ hls.at = "lines" /\ hls.next > Len(playlist)
      /\ playlist' = playlist /\ UNCHANGED dashVars
  BY DEF PlaylistDone
<1>2. hls \in [at : {"fetch", "lines", "done"}, next : 1 .. MaxLines + 1, variant : BOOLEAN, out : Seq(Endpoints)]
  BY DEF RewriteInv, RewriteTypeOK
<1>3. /\ hls' \in [at : {"fetch", "lines", "done"}, next : 1 .. MaxLines + 1, variant : BOOLEAN, out : Seq(Endpoints)]
      /\ hls'.at = "done" /\ hls'.next = hls.next /\ hls'.variant = hls.variant /\ hls'.out = hls.out
  BY <1>1, <1>2
<1>4. SegmentLines(playlist, Prebuffer)' = SegmentLines(playlist, Prebuffer)  BY <1>1 DEF SegmentLines, Foremost
<1>5. RewriteTypeOK'  BY <1>1, <1>3 DEF RewriteInv, RewriteTypeOK, dashVars
<1>6. HlsRouted'  BY <1>1, <1>3, SamePlaylist DEF RewriteInv, HlsRouted
<1>7. LinesSound'
  <2>1. IsVariant(hls.next)' <=> IsVariant(hls.next)  BY <1>1, <1>3 DEF IsVariant
  <2>2. Len(hls.out) = Len(playlist)
    <3>1. Len(hls.out) \in Nat /\ Len(playlist) \in Nat  BY <1>2 DEF RewriteInv, RewriteTypeOK
    <3>2. QED  BY <1>1, <3>1 DEF RewriteInv, LinesSound
  <2>3. QED  BY <1>1, <1>3, <1>4, <2>1, <2>2 DEF RewriteInv, LinesSound
<1>8. QED  BY <1>1, <1>5, <1>6, <1>7, DashAside DEF RewriteInv

\* What is prefetched are the foremost of the segments.
LEMMA PrefetchRight == RewriteInv => PrefetchMatches
<1> SUFFICES ASSUME RewriteInv, hls.at = "done", \A i \in 1 .. Len(playlist) : playlist[i].tag # "inf"
             PROVE  PrefetchMatches
  BY DEF PrefetchMatches
<1>1. PICK S : S = {i \in 1 .. Len(playlist) : playlist[i].tag = "uri" /\ hls.out[i] \in {"segment.own", "segment.ts", "segment.mp4"}}
  OBVIOUS
<1>2. PICK T : T = {i \in 1 .. Len(playlist) : playlist[i].tag = "uri" /\ playlist[i].ref \in {"own", "bare"}}  OBVIOUS
<1>3. playlist \in Seq(Lines) /\ Len(playlist) \in Nat /\ hls.out \in Seq(Endpoints) /\ Len(hls.out) = Len(playlist)
  BY DEF RewriteInv, LinesSound, RewriteTypeOK
<1>4. ASSUME NEW i \in 1 .. Len(playlist), playlist[i].tag = "uri"
      PROVE  hls.out[i] \in {"segment.own", "segment.ts", "segment.mp4"} <=> playlist[i].ref \in {"own", "bare"}
  <2>1. ~IsVariant(i)  BY <1>3 DEF IsVariant
  <2>2. playlist[i] \in Lines /\ i \in 1 .. Len(hls.out) /\ hls.out[i] \in Endpoints  BY <1>3
  <2>3. playlist[i].ref \in {"own", "bare", "m3u8", "data"}  BY <1>4, <2>2, LineIs
  <2>4. hls.out[i] # "stream"  BY <1>4, <2>2 DEF RewriteInv, LinesSound
  <2>5. NamesPlaylist(i) <=> playlist[i].ref = "m3u8"  BY <1>4, <2>1 DEF NamesPlaylist
  <2>6. /\ hls.out[i] = "hls" <=> (playlist[i].ref \notin {"none", "data"} /\ NamesPlaylist(i))
        /\ hls.out[i] = "verbatim" <=> playlist[i].ref \in {"none", "data"}
    BY <2>2 DEF RewriteInv, HlsRouted, Fits
  <2>7. QED  BY <2>2, <2>3, <2>4, <2>5, <2>6 DEF Endpoints
<1>5. S = T  BY <1>1, <1>2, <1>4
<1>6. prebuffered = Foremost(T, Prebuffer)  BY <1>2 DEF RewriteInv, LinesSound, SegmentLines
<1>7. QED  BY <1>1, <1>5, <1>6 DEF PrefetchMatches

-----------------------------------------------------------------------------
(* The tokens of an MPD *)

\* One more token.
Follows(t, n) == mpd \in Seq(MpdTokens) /\ t \in MpdTokens /\ mpd' = Append(mpd, t) /\ n = Len(mpd) + 1

LEMMA TokensKept ==
  ASSUME NEW t, NEW n, Follows(t, n)
  PROVE  /\ n \in Nat /\ n >= 1 /\ Len(mpd) = n - 1 /\ mpd' \in Seq(MpdTokens) /\ Len(mpd') = n /\ mpd'[n] = t /\ t \in MpdTokens
         /\ \A i \in 1 .. n - 1 : mpd'[i] = mpd[i]
BY DEF Follows

\* What is said of tokens that are there stays true when another follows.
LEMMA DepthKept ==
  ASSUME NEW t, NEW n, Follows(t, n)
  PROVE  \A i \in 0 .. n : Depth(i)' = Depth(i)
<1>1. SUFFICES ASSUME NEW i \in 0 .. n PROVE Depth(i)' = Depth(i)  OBVIOUS
<1>2. \A j \in 1 .. i - 1 : mpd'[j] = mpd[j]  BY <1>1, TokensKept
<1>3. {j \in 1 .. i - 1 : mpd'[j].kind = "start"} = {j \in 1 .. i - 1 : mpd[j].kind = "start"}  BY <1>2
<1>4. {j \in 1 .. i - 1 : mpd'[j].kind = "end"} = {j \in 1 .. i - 1 : mpd[j].kind = "end"}  BY <1>2
<1>5. QED  BY <1>3, <1>4 DEF Depth

LEMMA EnclosingKept ==
  ASSUME NEW t, NEW n, Follows(t, n), NEW i \in 0 .. n
  PROVE  Enclosing(i)' = Enclosing(i) /\ Parent(i)' = Parent(i)
<1>1. n \in Nat /\ n >= 1 /\ \A j \in 1 .. n - 1 : mpd'[j] = mpd[j]  BY TokensKept
<1>2. ASSUME NEW k \in 1 .. i - 1 PROVE Encloses(k, i)' <=> Encloses(k, i)
  <2>1. k \in 0 .. n /\ mpd'[k] = mpd[k] /\ \A j \in k + 1 .. i : j \in 0 .. n  BY <1>1, <1>2
  <2>2. Depth(k)' = Depth(k) /\ \A j \in k + 1 .. i : Depth(j)' = Depth(j)  BY <2>1, DepthKept
  <2>3. QED  BY <2>1, <2>2 DEF Encloses
<1>3. Enclosing(i)' = Enclosing(i)  BY <1>2 DEF Enclosing
<1>4. QED  BY <1>3 DEF Parent

LEMMA BaseTextsKept ==
  ASSUME NEW t, NEW n, Follows(t, n), NEW i \in 1 .. n, NEW k
  PROVE  /\ BaseTexts(k, i)' = BaseTexts(k, i) /\ FirstBase(k, i)' = FirstBase(k, i)
         /\ \A m \in 1 .. n - 1, p \in 1 .. n - 1 : p < m => (URLOf(m, p, k)' <=> URLOf(m, p, k))
<1>1. n \in Nat /\ n >= 1 /\ \A j \in 1 .. n - 1 : mpd'[j] = mpd[j]  BY TokensKept
<1>2. ASSUME NEW m \in 1 .. n - 1, NEW p \in 1 .. n - 1, p < m PROVE URLOf(m, p, k)' <=> URLOf(m, p, k)
  <2>1. m \in 0 .. n /\ p \in 0 .. n /\ \A j \in p + 1 .. m - 1 : j \in 1 .. n - 1  BY <1>1, <1>2
  <2>2. Parent(m)' = Parent(m) /\ Parent(p)' = Parent(p)  BY <2>1, EnclosingKept
  <2>3. mpd'[m] = mpd[m] /\ mpd'[p] = mpd[p] /\ \A j \in p + 1 .. m - 1 : mpd'[j] = mpd[j]  BY <1>1, <2>1
  <2>4. QED  BY <2>2, <2>3 DEF URLOf
<1>3. \A m \in 1 .. i - 1 : \A p : p \in 1 .. m - 1 => m \in 1 .. n - 1 /\ p \in 1 .. n - 1 /\ p < m  BY <1>1
<1>4. BaseTexts(k, i)' = BaseTexts(k, i)  BY <1>2, <1>3 DEF BaseTexts
<1>5. QED  BY <1>2, <1>4 DEF FirstBase

\* Paths are of earlier tokens.
LEMMA FirstBaseBefore ==
  ASSUME NEW k, NEW i \in Nat
  PROVE  BaseTexts(k, i) \subseteq 1 .. i - 1 /\ FirstBase(k, i) \subseteq 1 .. i - 1
BY DEF BaseTexts, FirstBase

LEMMA InEffectKept ==
  ASSUME NEW t, NEW n, Follows(t, n), NEW i \in 1 .. n - 1, NEW around
  PROVE  InEffect(i, around)' = InEffect(i, around)
<1>1. n \in Nat /\ n >= 1 /\ \A j \in 1 .. n - 1 : mpd'[j] = mpd[j]  BY TokensKept
<1>2. PICK path : path = {m \in 1 .. i : m = i \/ \E k \in around : m \in FirstBase(k, i)}  OBVIOUS
<1>3. \A k : FirstBase(k, i)' = FirstBase(k, i)  BY <1>1, BaseTextsKept
<1>4. {m \in 1 .. i : m = i \/ \E k \in around : m \in FirstBase(k, i)'} = path  BY <1>2, <1>3
<1>5. path \subseteq 1 .. n - 1  BY <1>1, <1>2
<1>6. InEffect(i, around) = {m \in path : \A j \in path : j > m => mpd[j].ref # "abs"}  BY <1>2 DEF InEffect
<1>7. InEffect(i, around)' = {m \in path : \A j \in path : j > m => mpd'[j].ref # "abs"}  BY <1>4 DEF InEffect
<1>8. QED  BY <1>1, <1>5, <1>6, <1>7

LEMMA ResolvedKept ==
  ASSUME NEW t, NEW n, Follows(t, n), NEW o, o.at \in 1 .. n - 1, WellResolved(o)
  PROVE  WellResolved(o)'
<1>1. PICK i : i = o.at  OBVIOUS
<1>2. n \in Nat /\ i \in 1 .. n - 1 /\ i \in 0 .. n /\ i \in 1 .. n /\ mpd'[i] = mpd[i]  BY <1>1, TokensKept
<1>3. Enclosing(i)' = Enclosing(i) /\ \A around : InEffect(i, around)' = InEffect(i, around)
  BY <1>2, EnclosingKept, InEffectKept
<1>4. PICK E : E = Enclosing(i)  OBVIOUS
<1>5. \A around : InEffect(i, around)' = InEffect(i, around)  BY <1>2, InEffectKept
<1>6. CASE mpd[i].name = "ref" /\ o.url = InEffect(i, Enclosing(i) \cup {0})
  <2>1. o.url = InEffect(i, E \cup {0})'  BY <1>4, <1>5, <1>6
  <2>2. InEffect(i, Enclosing(i) \cup {0})' = InEffect(i, E \cup {0})'  BY <1>3, <1>4 DEF InEffect
  <2>3. QED  BY <1>1, <1>2, <1>6, <2>1, <2>2 DEF WellResolved
<1>7. ASSUME NEW p \in 1 .. i - 1, NEW k \in 0 .. i - 1, URLOf(i, p, k),
             BaseTexts(k, i) = {} => o.url = InEffect(i, (Enclosing(i) \cup {0}) \ {p, k})
      PROVE  WellResolved(o)'
  <2>1. p \in 1 .. n - 1 /\ p < i  BY <1>2
  <2>2. URLOf(i, p, k)' /\ BaseTexts(k, i)' = BaseTexts(k, i)  BY <1>2, <1>7, <2>1, BaseTextsKept
  <2>3. InEffect(i, (Enclosing(i) \cup {0}) \ {p, k})' = InEffect(i, (E \cup {0}) \ {p, k})'  BY <1>3, <1>4 DEF InEffect
  <2>4. BaseTexts(k, i)' = {} => o.url = InEffect(i, (Enclosing(i) \cup {0}) \ {p, k})'  BY <1>4, <1>5, <1>7, <2>2, <2>3
  <2>5. QED  BY <1>1, <2>2, <2>4 DEF WellResolved
<1>8. QED  BY <1>1, <1>6, <1>7 DEF WellResolved

LEMMA PathKept ==
  ASSUME NEW t, NEW n, Follows(t, n), NEW path, path \subseteq 1 .. n - 1
  PROVE  InForce(path)' = InForce(path)
<1>1. \A j \in path : mpd'[j] = mpd[j]  BY TokensKept
<1>2. QED  BY <1>1 DEF InForce

\* How deep the next token is.
LEMMA DepthNext ==
  ASSUME NEW t, NEW n, Follows(t, n)
  PROVE  /\ Depth(n) \in Int /\ Depth(n + 1)' \in Int
         /\ t.kind = "start" => Depth(n + 1)' = Depth(n) + 1
         /\ t.kind = "end" => Depth(n + 1)' = Depth(n) - 1
         /\ t.kind = "text" => Depth(n + 1)' = Depth(n)
<1>1. n \in Nat /\ n >= 1 /\ mpd'[n] = t /\ \A i \in 1 .. n - 1 : mpd'[i] = mpd[i]  BY TokensKept
<1>2. PICK S : S = {j \in 1 .. n - 1 : mpd[j].kind = "start"}  OBVIOUS
<1>3. PICK E : E = {j \in 1 .. n - 1 : mpd[j].kind = "end"}  OBVIOUS
<1>4. PICK U : U = {j \in 1 .. n : mpd'[j].kind = "start"}  OBVIOUS
<1>5. PICK F : F = {j \in 1 .. n : mpd'[j].kind = "end"}  OBVIOUS
<1>6. IsFiniteSet(S) /\ IsFiniteSet(E) /\ n \notin S /\ n \notin E
  <2>1. 1 \in Int /\ n - 1 \in Int  BY <1>1
  <2>2. IsFiniteSet(1 .. n - 1)  BY ONLY <2>1, FS_Interval
  <2>3. S \in SUBSET (1 .. n - 1) /\ E \in SUBSET (1 .. n - 1)  BY <1>2, <1>3
  <2>4. IsFiniteSet(S) /\ IsFiniteSet(E)  BY <2>2, <2>3, FS_Subset
  <2>5. n \notin 1 .. n - 1  BY <1>1
  <2>6. QED  BY <2>3, <2>4, <2>5
<1>7. \A j \in 1 .. n : j = n \/ j \in 1 .. n - 1  BY <1>1
<1>8. (t.kind = "start" => U = S \cup {n}) /\ (t.kind # "start" => U = S)  BY <1>1, <1>2, <1>4, <1>7
<1>9. (t.kind = "end" => F = E \cup {n}) /\ (t.kind # "end" => F = E)  BY <1>1, <1>3, <1>5, <1>7
<1>10. /\ Cardinality(S) \in Nat /\ Cardinality(E) \in Nat
       /\ Cardinality(S \cup {n}) = Cardinality(S) + 1 /\ Cardinality(E \cup {n}) = Cardinality(E) + 1
  BY <1>6, FS_AddElement, FS_CardinalityType
<1>11. Depth(n) = Cardinality(S) - Cardinality(E)  BY <1>2, <1>3 DEF Depth
<1>12. Depth(n + 1)' = Cardinality(U) - Cardinality(F)
  <2>1. (n + 1) - 1 = n  BY <1>1
  <2>2. QED  BY <1>4, <1>5, <2>1 DEF Depth
<1>13. /\ Cardinality(U) = IF t.kind = "start" THEN Cardinality(S) + 1 ELSE Cardinality(S)
       /\ Cardinality(F) = IF t.kind = "end" THEN Cardinality(E) + 1 ELSE Cardinality(E)
  BY <1>8, <1>9, <1>10
<1>14. PICK a \in Nat, b \in Nat : a = Cardinality(S) /\ b = Cardinality(E)  BY <1>10
<1>15. QED  BY <1>11, <1>12, <1>13, <1>14

\* Which elements the next token is in.
LEMMA EnclosingNext ==
  ASSUME NEW t, NEW n, Follows(t, n)
  PROVE  /\ t.kind # "start" => Enclosing(n + 1)' = {k \in Enclosing(n) : Depth(n + 1)' > Depth(k)}
         /\ t.kind = "start" => Enclosing(n + 1)' = {k \in Enclosing(n) : Depth(n + 1)' > Depth(k)} \cup {n}
         /\ Enclosing(n) \subseteq 1 .. n - 1
<1>1. n \in Nat /\ n >= 1 /\ mpd'[n] = t /\ \A i \in 1 .. n - 1 : mpd'[i] = mpd[i]  BY TokensKept
<1>2. \A k \in 1 .. n : k = n \/ k \in 1 .. n - 1  BY <1>1
<1>3. ASSUME NEW k \in 1 .. n - 1 PROVE Encloses(k, n + 1)' <=> Encloses(k, n) /\ Depth(n + 1)' > Depth(k)
  <2>1. k \in 0 .. n /\ \A j \in k + 1 .. n : j \in 0 .. n  BY <1>1
  <2>2. Depth(k)' = Depth(k) /\ \A j \in k + 1 .. n : Depth(j)' = Depth(j)  BY <2>1, DepthKept
  <2>3. \A j : j \in k + 1 .. n + 1 <=> j \in k + 1 .. n \/ j = n + 1  BY <1>1
  <2>4. QED  BY <1>1, <2>2, <2>3 DEF Encloses
<1>4. Encloses(n, n + 1)' <=> t.kind = "start"
  <2>1. \A j : j \in n + 1 .. n + 1 <=> j = n + 1  BY <1>1
  <2>2. n \in 0 .. n  BY <1>1
  <2>3. Depth(n)' = Depth(n)  BY <2>2, DepthKept
  <2>4. t.kind = "start" => Depth(n + 1)' > Depth(n)'  BY <2>3, DepthNext
  <2>5. QED  BY <1>1, <2>1, <2>4 DEF Encloses
<1>5. Enclosing(n + 1)' = {k \in 1 .. n : Encloses(k, n + 1)'}
  <2>1. (n + 1) - 1 = n  BY <1>1
  <2>2. QED  BY <2>1 DEF Enclosing
<1>6. Enclosing(n) = {k \in 1 .. n - 1 : Encloses(k, n)}  BY DEF Enclosing
<1>7. n \in 1 .. n /\ \A k \in 1 .. n - 1 : k \in 1 .. n  BY <1>1
<1>8. QED  BY <1>2, <1>3, <1>4, <1>5, <1>6, <1>7

\* Which texts set a base before the next token.
LEMMA BaseTextsNext ==
  ASSUME NEW t, NEW n, Follows(t, n), NEW k
  PROVE  BaseTexts(k, n + 1)' = BaseTexts(k, n) \cup {m \in {n} : \E p \in 1 .. n - 1 : URLOf(n, p, k)'}
<1>1. n \in Nat /\ n >= 1 /\ (n + 1) - 1 = n /\ n \in 1 .. n  BY TokensKept
<1>2. \A m : m \in 1 .. n <=> m = n \/ m \in 1 .. n - 1  BY <1>1
<1>3. BaseTexts(k, n + 1)' = {m \in 1 .. n : \E p \in 1 .. m - 1 : URLOf(m, p, k)'}  BY <1>1 DEF BaseTexts
<1>4. BaseTexts(k, n)' = {m \in 1 .. n - 1 : \E p \in 1 .. m - 1 : URLOf(m, p, k)'}  BY DEF BaseTexts
<1>5. BaseTexts(k, n)' = BaseTexts(k, n)  BY <1>1, BaseTextsKept
<1>6. QED  BY <1>2, <1>3, <1>4, <1>5

\* The innermost of a set with a greatest element.
LEMMA InnermostIs ==
  ASSUME NEW S \in SUBSET Nat, NEW k \in S, \A j \in S : j <= k
  PROVE  Innermost(S) = k
<1>1. PICK x : x = CHOOSE i \in S : \A j \in S : j <= i  OBVIOUS
<1>2. x \in S /\ \A j \in S : j <= x  BY <1>1
<1>3. x = k  BY <1>2
<1>4. QED  BY <1>1, <1>3 DEF Innermost

\* An element that is not open yet is the parent of none.
LEMMA ParentBefore ==
  ASSUME NEW i \in Nat
  PROVE  Parent(i) \in 0 .. i
<1>1. PICK S : S = Enclosing(i)  OBVIOUS
<1>2. S \subseteq 1 .. i - 1  BY <1>1 DEF Enclosing
<1>3. CASE S = {}  BY <1>1, <1>3 DEF Parent, Innermost
<1>4. CASE S # {}
  <2>1. PICK T : T = {b \in Nat : \A j \in S : j <= b}  OBVIOUS
  <2>2. i \in T  BY <1>2, <2>1
  <2>3. T \in SUBSET Nat /\ T # {}  BY <2>1, <2>2
  <2>4. PICK b \in T : \A c \in T : b <= c  BY <2>3, LeastOf
  <2>5. b \in Nat /\ \A j \in S : j \in Nat /\ j >= 1 /\ j <= b  BY <1>2, <2>1, <2>4
  <2>6. b \in S
    <3>1. SUFFICES ASSUME b \notin S PROVE FALSE  OBVIOUS
    <3>2. PICK x \in S : TRUE  BY <1>4
    <3>3. b - 1 \in Nat  BY <2>5, <3>2
    <3>4. \A j \in S : j <= b - 1  BY <2>5, <3>1
    <3>5. b - 1 \in T  BY <2>1, <3>3, <3>4
    <3>6. QED  BY <2>4, <2>5, <3>5
  <2>7. S \in SUBSET Nat  BY <2>5
  <2>8. Innermost(S) = b  BY <2>5, <2>6, <2>7, InnermostIs
  <2>9. QED  BY <1>1, <1>2, <2>6, <2>8 DEF Parent
<1>5. QED  BY <1>3, <1>4

\* An element has no base before it is opened.
LEMMA NoBaseYet ==
  ASSUME NEW n \in Nat
  PROVE  BaseTexts(n, n) = {}
<1>1. ASSUME NEW m \in 1 .. n - 1, NEW p \in 1 .. m - 1, URLOf(m, p, n) PROVE FALSE
  <2>1. n = Parent(p)  BY <1>1 DEF URLOf
  <2>2. p \in Nat /\ p < n  BY <1>1
  <2>3. Parent(p) \in 0 .. p  BY <2>2, ParentBefore
  <2>4. QED  BY <2>1, <2>2, <2>3
<1>2. QED  BY <1>1 DEF BaseTexts

-----------------------------------------------------------------------------
(* The stack of bases *)

LEMMA HlsAside ==
  ASSUME RewriteInv, UNCHANGED hlsVars
  PROVE  /\ LinesSound' /\ HlsRouted' /\ playlist' \in Seq(Lines) /\ prebuffered' \subseteq 1 .. MaxLines
         /\ hls' \in [at : {"fetch", "lines", "done"}, next : 1 .. MaxLines + 1, variant : BOOLEAN, out : Seq(Endpoints)]
<1>1. hls' = hls /\ playlist' = playlist /\ prebuffered' = prebuffered  BY DEF hlsVars
<1>2. HlsRouted'  BY <1>1, SamePlaylist DEF RewriteInv, HlsRouted
<1>3. IsVariant(hls.next)' <=> IsVariant(hls.next)  BY <1>1 DEF IsVariant
<1>4. LinesSound'  BY <1>1, <1>3, SamePlaylist DEF RewriteInv, LinesSound
<1>5. QED  BY <1>1, <1>2, <1>4 DEF RewriteInv, RewriteTypeOK

\* The places of the frames in the document.
LEMMA FramesPlaced ==
  ASSUME NEW n, n = Len(mpd) + 1, mpd \in Seq(MpdTokens), dash.frames \in Seq(Frames), FramesOpen(n)
  PROVE  /\ Top \in Nat /\ Top >= 1 /\ Top = Len(dash.frames) /\ n \in Nat /\ n >= 1 /\ Depth(n) = Top - 1
         /\ \A d \in 1 .. Top : dash.frames[d] \in Frames /\ dash.frames[d].at \in 0 .. n - 1
         /\ \A d \in 2 .. Top : FrameOpen(d, dash.frames[d].at) /\ dash.frames[d].at \in 1 .. n - 1
         /\ dash.frames[1].at = 0 /\ dash.frames[1].name = "doc"
         /\ \A d \in 1 .. Top, e \in 1 .. Top : e < d => dash.frames[e].at < dash.frames[d].at
         /\ Enclosing(n) = {k \in 1 .. n - 1 : \E d \in 2 .. Top : OpenedBy(k, d)}
         /\ Parent(n) = dash.frames[Top].at
<1>1. FramesOpen(n)  OBVIOUS
<1>2. Top \in Nat /\ Top >= 1 /\ Top = Len(dash.frames) /\ n \in Nat /\ n >= 1  BY <1>1 DEF FramesOpen, Top
<1>3. \A d \in 2 .. Top : FrameOpen(d, dash.frames[d].at) /\ dash.frames[d].at \in 1 .. n - 1
  <2>1. SUFFICES ASSUME NEW d \in 2 .. Top PROVE FrameOpen(d, dash.frames[d].at) /\ dash.frames[d].at \in 1 .. n - 1
    OBVIOUS
  <2>2. PICK k \in 1 .. n - 1 : FrameOpen(d, k)  BY <1>1, <2>1 DEF FramesOpen
  <2>3. k = dash.frames[d].at  BY <2>2 DEF FrameOpen, OpenedBy
  <2>4. QED  BY <2>2, <2>3
<1>4. dash.frames[1].at = 0 /\ dash.frames[1].name = "doc"  BY <1>1 DEF FramesOpen, OpenedBy
<1>5. \A d \in 1 .. Top : dash.frames[d] \in Frames /\ dash.frames[d].at \in 0 .. n - 1
  <2>1. SUFFICES ASSUME NEW d \in 1 .. Top PROVE dash.frames[d] \in Frames /\ dash.frames[d].at \in 0 .. n - 1
    OBVIOUS
  <2>2. d = 1 \/ d \in 2 .. Top  BY <1>2, <2>1
  <2>3. QED  BY <1>2, <1>3, <1>4, <2>1, <2>2
<1>6. \A d \in 1 .. Top, e \in 1 .. Top : e < d => dash.frames[e].at < dash.frames[d].at  BY <1>1 DEF FramesOpen
<1>7. Enclosing(n) = {k \in 1 .. n - 1 : \E d \in 2 .. Top : OpenedBy(k, d)}  BY <1>1 DEF FramesOpen
<1>8. Parent(n) = dash.frames[Top].at
  <2>1. PICK S : S = Enclosing(n)  OBVIOUS
  <2>2. CASE Top = 1
    <3>1. S = {}  BY <1>7, <2>1, <2>2
    <3>2. QED  BY <1>4, <2>1, <2>2, <3>1 DEF Parent, Innermost
  <2>3. CASE Top > 1
    <3>1. PICK k : k = dash.frames[Top].at  OBVIOUS
    <3>2. Top \in 2 .. Top /\ Top \in 1 .. Top  BY <1>2, <2>3
    <3>3. k \in S  BY <1>3, <1>7, <2>1, <3>1, <3>2 DEF OpenedBy
    <3>4. ASSUME NEW j \in S PROVE j \in Nat /\ j <= k
      <4>1. PICK d \in 2 .. Top : OpenedBy(j, d)  BY <1>7, <2>1
      <4>2. j = dash.frames[d].at /\ d \in 1 .. Top  BY <4>1 DEF OpenedBy
      <4>3. j \in Nat /\ k \in Nat  BY <1>2, <1>5, <3>1, <3>2, <4>2
      <4>4. d = Top \/ d < Top  BY <1>2, <4>1
      <4>5. QED  BY <1>6, <3>1, <3>2, <4>2, <4>3, <4>4
    <3>5. S \in SUBSET Nat  BY <3>4
    <3>6. Innermost(S) = k  BY <3>3, <3>4, <3>5, InnermostIs
    <3>7. QED  BY <2>1, <3>1, <3>6 DEF Parent
  <2>4. Top = 1 \/ Top > 1
    <3>1. PICK x \in Nat : x = Top /\ x >= 1  BY <1>2
    <3>2. x = 1 \/ x > 1  BY ONLY <3>1
    <3>3. QED  BY <3>1, <3>2
  <2>5. QED  BY <2>2, <2>3, <2>4
<1>9. QED  BY <1>1, <1>2, <1>3, <1>4, <1>5, <1>6, <1>7, <1>8 DEF FramesOpen

\* What is around a token, the document included, are the frames.
LEMMA AroundAre ==
  ASSUME NEW n, n = Len(mpd) + 1, mpd \in Seq(MpdTokens), dash.frames \in Seq(Frames), FramesOpen(n), NEW k
  PROVE  k \in Enclosing(n) \cup {0} <=> k \in 0 .. n - 1 /\ \E e \in 1 .. Top : OpenedBy(k, e)
<1>1. PICK top : top = Top  OBVIOUS
<1>2. top \in Nat /\ top >= 1 /\ n \in Nat /\ n >= 1  BY <1>1, FramesPlaced
<1>3. Enclosing(n) = {j \in 1 .. n - 1 : \E d \in 2 .. top : OpenedBy(j, d)}  BY <1>1, FramesPlaced
<1>4. OpenedBy(k, 1) <=> k = 0
  <2>1. dash.frames[1].at = 0  BY FramesPlaced
  <2>2. QED  BY <2>1 DEF OpenedBy
<1>5. ASSUME NEW e \in 2 .. top, OpenedBy(k, e) PROVE k \in 1 .. n - 1
  <2>1. dash.frames[e].at \in 1 .. n - 1  BY <1>1, FramesPlaced
  <2>2. QED  BY <1>5, <2>1 DEF OpenedBy
<1>6. \A e : e \in 1 .. top <=> e = 1 \/ e \in 2 .. top  BY <1>2
<1>7. 0 \in 0 .. n - 1 /\ \A j : j \in 1 .. n - 1 => j \in 0 .. n - 1  BY <1>2
<1>8. QED  BY <1>1, <1>3, <1>4, <1>5, <1>6, <1>7

\* A frame that stays is open as before.
LEMMA FrameKept ==
  ASSUME NEW t, NEW n, Follows(t, n), NEW d, NEW k \in 1 .. n - 1, FrameOpen(d, k),
         dash'.frames[d].at = dash.frames[d].at, dash'.frames[d].name = dash.frames[d].name,
         dash'.frames[d - 1].at = dash.frames[d - 1].at
  PROVE  FrameOpen(d, k)'
<1>1. n \in Nat /\ k \in 0 .. n /\ mpd'[k] = mpd[k]  BY TokensKept
<1>2. Depth(k)' = Depth(k) /\ Parent(k)' = Parent(k)  BY <1>1, DepthKept, EnclosingKept
<1>3. QED  BY <1>1, <1>2 DEF FrameOpen, OpenedBy

\* When no base of the frames up to d is set by the token, neither is their path.
LEMMA PathNext ==
  ASSUME NEW t, NEW n, Follows(t, n), FramesOpen(n), dash.frames \in Seq(Frames), NEW d \in 1 .. Top,
         \A e \in 1 .. d : dash'.frames[e].at = dash.frames[e].at,
         \A e \in 1 .. d, k \in 0 .. n - 1 : OpenedBy(k, e) => FirstBase(k, n + 1)' = FirstBase(k, n)
  PROVE  /\ PathOf(d, n + 1)' = PathOf(d, n)
         /\ InForce(PathOf(d, n + 1))' = InForce(PathOf(d, n))
<1>1. n \in Nat /\ n >= 1 /\ (n + 1) - 1 = n /\ mpd \in Seq(MpdTokens) /\ n = Len(mpd) + 1  BY TokensKept DEF Follows
<1>2. Top \in Nat /\ \A e \in 1 .. Top : dash.frames[e].at \in 0 .. n - 1  BY <1>1, FramesPlaced
<1>3. \A e \in 1 .. d : e \in 1 .. Top  BY <1>2
<1>4. \A k, e : e \in 1 .. d => (OpenedBy(k, e)' <=> OpenedBy(k, e)) /\ (OpenedBy(k, e) => k \in 0 .. n - 1)
  BY <1>2, <1>3 DEF OpenedBy
<1>5. PathOf(d, n + 1)' = {m \in 1 .. n : \E k \in 0 .. n, e \in 1 .. d : OpenedBy(k, e)' /\ m \in FirstBase(k, n + 1)'}
  BY <1>1 DEF PathOf
<1>6. \A k : FirstBase(k, n) \subseteq 1 .. n - 1  BY <1>1, FirstBaseBefore
<1>7. PathOf(d, n + 1)' = PathOf(d, n)
  <2>1. ASSUME NEW m \in PathOf(d, n + 1)' PROVE m \in PathOf(d, n)
    <3>1. PICK k \in 0 .. n, e \in 1 .. d : OpenedBy(k, e)' /\ m \in FirstBase(k, n + 1)'  BY <1>5, <2>1
    <3>2. OpenedBy(k, e) /\ k \in 0 .. n - 1 /\ m \in FirstBase(k, n)  BY <1>4, <3>1
    <3>3. m \in 1 .. n - 1  BY <1>6, <3>2
    <3>4. QED  BY <3>2, <3>3 DEF PathOf
  <2>2. ASSUME NEW m \in PathOf(d, n) PROVE m \in PathOf(d, n + 1)'
    <3>1. m \in 1 .. n - 1 /\ \E k \in 0 .. n - 1, e \in 1 .. d : OpenedBy(k, e) /\ m \in FirstBase(k, n)  BY <2>2 DEF PathOf
    <3>2. PICK k \in 0 .. n - 1, e \in 1 .. d : OpenedBy(k, e) /\ m \in FirstBase(k, n)  BY <3>1
    <3>3. OpenedBy(k, e)' /\ m \in FirstBase(k, n + 1)'  BY <1>4, <3>2
    <3>4. k \in 0 .. n /\ m \in 1 .. n  BY <1>1, <3>1, <3>2
    <3>5. QED  BY <1>5, <3>3, <3>4
  <2>3. QED  BY <2>1, <2>2
<1>8. PICK P : P = PathOf(d, n)  OBVIOUS
<1>9. P \subseteq 1 .. n - 1  BY <1>8 DEF PathOf
<1>10. InForce(P)' = InForce(P)  BY <1>9, PathKept
<1>11. InForce(PathOf(d, n + 1))' = InForce(P)'  BY <1>7, <1>8 DEF InForce
<1>12. QED  BY <1>7, <1>8, <1>10, <1>11

\* A path with a reference after it.
LEMMA ResolveIs ==
  ASSUME NEW t, NEW n, Follows(t, n), NEW path, path \subseteq 1 .. n - 1
  PROVE  {m \in path \cup {n} : \A j \in path \cup {n} : j > m => mpd'[j].ref # "abs"} = ResolveURL(InForce(path), t.ref, n)
<1>1. n \in Nat /\ mpd'[n] = t /\ \A i \in path : mpd'[i] = mpd[i] /\ i < n /\ i \in Nat
  <2>1. n \in Nat /\ mpd'[n] = t /\ \A i \in 1 .. n - 1 : mpd'[i] = mpd[i]  BY TokensKept
  <2>2. \A i \in 1 .. n - 1 : i < n /\ i \in Nat  BY <2>1
  <2>3. QED  BY <2>1, <2>2
<1>2. CASE t.ref = "abs"
  <2>1. ASSUME NEW m \in path PROVE n > m /\ mpd'[n].ref = "abs"  BY <1>1, <1>2, <2>1
  <2>2. \A j \in path : ~(j > n)  BY <1>1
  <2>3. ~(n > n)  BY <1>1
  <2>4. QED  BY <1>2, <2>1, <2>2, <2>3 DEF ResolveURL
<1>3. CASE t.ref # "abs"  BY <1>1, <1>3 DEF ResolveURL, InForce
<1>4. QED  BY <1>2, <1>3

\* What is in effect for a new token, by the path of the frames around it.
LEMMA InEffectNow ==
  ASSUME NEW t, NEW n, Follows(t, n), NEW around, NEW path, path \subseteq 1 .. n - 1,
         \A m \in 1 .. n - 1 : m \in path <=> \E k \in around : m \in FirstBase(k, n)
  PROVE  InEffect(n, around)' = ResolveURL(InForce(path), t.ref, n)
<1>1. n \in Nat /\ n >= 1  BY TokensKept
<1>2. \A k : FirstBase(k, n)' = FirstBase(k, n)  BY <1>1, BaseTextsKept
<1>3. {m \in 1 .. n : m = n \/ \E k \in around : m \in FirstBase(k, n)'} = path \cup {n}
  <2>1. \A m : m \in 1 .. n <=> m = n \/ m \in 1 .. n - 1  BY <1>1
  <2>2. QED  BY <1>2, <2>1
<1>4. InEffect(n, around)' = {m \in path \cup {n} : \A j \in path \cup {n} : j > m => mpd'[j].ref # "abs"}
  BY <1>3 DEF InEffect
<1>5. QED  BY <1>4, ResolveIs

DashRecords ==
  [at : {"read", "unchanged", "rewritten"}, inBaseURL : BOOLEAN, frames : Seq(Frames),
   out : Seq([at : 1 .. MaxTokens, url : SUBSET (1 .. MaxTokens)])]

\* Reading a token.
LEMMA TokenRead ==
  ASSUME RewriteInv, NEW t \in MpdTokens, Reading(t), NEW n, n = Len(mpd) + 1
  PROVE  /\ Follows(t, n) /\ n \in 1 .. MaxTokens /\ ReadSound(n) /\ UNCHANGED hlsVars
         /\ dash.at = "read" /\ dash \in DashRecords /\ MaxTokens \in Nat /\ n = Position
<1>1. mpd \in Seq(MpdTokens) /\ dash \in DashRecords /\ MaxTokens \in Nat
  BY RewriteAssumption DEF RewriteInv, RewriteTypeOK, DashRecords
<1>2. dash.at = "read" /\ Len(mpd) < MaxTokens /\ mpd' = Append(mpd, t) /\ UNCHANGED hlsVars  BY DEF Reading
<1>3. n \in 1 .. MaxTokens  BY <1>1, <1>2
<1>4. ReadSound(n)  BY <1>2 DEF RewriteInv, MpdSound
<1>5. QED  BY <1>1, <1>2, <1>3, <1>4 DEF Follows, Position

\* What has to be shown of a token read.
LEMMA TokenKeeps ==
  ASSUME RewriteInv, NEW t, NEW n \in 1 .. MaxTokens, Follows(t, n), UNCHANGED hlsVars, dash' \in DashRecords,
         dash'.at = "read" => ReadSound(n + 1)',
         NEW o \in [at : 1 .. MaxTokens, url : SUBSET (1 .. MaxTokens)], o.at = n,
         dash'.out = dash.out \/ (dash'.out = Append(dash.out, o) /\ WellResolved(o)')
  PROVE  RewriteInv'
<1>1. /\ mpd' \in Seq(MpdTokens) /\ Len(mpd') = n /\ Len(mpd) = n - 1 /\ n \in Nat /\ MaxTokens \in Nat
      /\ dash \in DashRecords
  BY TokensKept, RewriteAssumption DEF RewriteInv, RewriteTypeOK, DashRecords
<1>2. RewriteTypeOK' /\ LinesSound' /\ HlsRouted'
  <2>1. /\ LinesSound' /\ HlsRouted' /\ playlist' \in Seq(Lines) /\ prebuffered' \subseteq 1 .. MaxLines
        /\ hls' \in [at : {"fetch", "lines", "done"}, next : 1 .. MaxLines + 1, variant : BOOLEAN, out : Seq(Endpoints)]
    BY HlsAside
  <2>2. QED  BY <1>1, <2>1 DEF RewriteTypeOK, DashRecords
<1>3. \A q \in {dash.out[i] : i \in 1 .. Len(dash.out)} : q.at \in 1 .. n - 1 /\ WellResolved(q)'
  <2>1. SUFFICES ASSUME NEW q \in {dash.out[i] : i \in 1 .. Len(dash.out)} PROVE q.at \in 1 .. n - 1 /\ WellResolved(q)'
    OBVIOUS
  <2>2. q.at \in 1 .. n - 1 /\ WellResolved(q)  BY <1>1, <2>1 DEF RewriteInv, MpdSound, DashResolved
  <2>3. QED  BY <2>2, ResolvedKept
<1>4. ASSUME NEW q \in {dash'.out[i] : i \in 1 .. Len(dash'.out)} PROVE q.at \in 1 .. n /\ WellResolved(q)'
  <2>1. \A j \in 1 .. n - 1 : j \in 1 .. n  BY <1>1
  <2>2. CASE dash'.out = dash.out  BY <1>3, <1>4, <2>1, <2>2
  <2>3. CASE dash'.out = Append(dash.out, o) /\ WellResolved(o)'
    <3>1. dash.out \in Seq([at : 1 .. MaxTokens, url : SUBSET (1 .. MaxTokens)])  BY <1>1 DEF DashRecords
    <3>2. q = o \/ q \in {dash.out[i] : i \in 1 .. Len(dash.out)}  BY <1>4, <2>3, <3>1
    <3>3. n \in 1 .. n  BY <1>1
    <3>4. QED  BY <1>3, <2>1, <2>3, <3>2, <3>3
  <2>4. QED  BY <2>2, <2>3
<1>5. DashResolved'  BY <1>4 DEF DashResolved
<1>6. MpdSound'
  <2>1. n + 1 \in 1 .. MaxTokens + 1 /\ n <= MaxTokens  BY <1>1
  <2>2. QED  BY <1>1, <1>4, <2>1 DEF MpdSound
<1>7. QED  BY <1>2, <1>5, <1>6 DEF RewriteInv

\* Bases are set by the URLs of BaseURLs only, and of elements that are open.
LEMMA SameBases ==
  ASSUME NEW t, NEW n, Follows(t, n), NEW k, \A p \in 1 .. n - 1 : ~URLOf(n, p, k)'
  PROVE  BaseTexts(k, n + 1)' = BaseTexts(k, n)
<1>1. PICK S : S = {m \in {n} : \E p \in 1 .. n - 1 : URLOf(n, p, k)'}  OBVIOUS
<1>2. S = {}  BY <1>1
<1>3. BaseTexts(k, n + 1)' = BaseTexts(k, n) \cup S  BY <1>1, BaseTextsNext
<1>4. QED  BY <1>2, <1>3

\* A token that is not the URL of a BaseURL leaves the bases of the frames that stay.
LEMMA BasesNext ==
  ASSUME NEW t, NEW n, Follows(t, n), ReadSound(n), dash.frames \in Seq(Frames), \A p \in 1 .. n - 1 : \A k : ~URLOf(n, p, k)',
         NEW d \in 1 .. Top, \A e \in 1 .. d : dash'.frames[e] = dash.frames[e], NEW k \in 0 .. n - 1, OpenedBy(k, d)
  PROVE  BaseSound(d, k, n + 1)' /\ InForce(PathOf(d, n + 1))' = InForce(PathOf(d, n))
<1>1. n \in Nat /\ n >= 1  BY TokensKept
<1>2. ASSUME NEW j PROVE BaseTexts(j, n + 1)' = BaseTexts(j, n)  BY SameBases
<1>3. \A j : FirstBase(j, n + 1)' = FirstBase(j, n)  BY <1>2 DEF FirstBase
<1>4. InForce(PathOf(d, n + 1))' = InForce(PathOf(d, n))  BY <1>3, PathNext DEF ReadSound
<1>5. Top \in Nat /\ d \in 1 .. d
  <2>1. Top \in Nat  BY DEF Top
  <2>2. QED  BY <2>1
<1>6. dash'.frames[d] = dash.frames[d]  BY <1>5
<1>7. BaseSound(d, k, n)  BY DEF ReadSound, BasesSound
<1>8. QED  BY <1>2, <1>4, <1>6, <1>7 DEF BaseSound

\* Which elements the next token is in, by depth.
LEMMA StillOpen ==
  ASSUME NEW t, NEW n, Follows(t, n), FramesOpen(n), dash.frames \in Seq(Frames)
  PROVE  {k \in Enclosing(n) : Depth(n + 1)' > Depth(k)} =
           {k \in 1 .. n - 1 : \E d \in 2 .. Top : OpenedBy(k, d) /\ Depth(n + 1)' > d - 2}
<1>1. mpd \in Seq(MpdTokens) /\ n = Len(mpd) + 1  BY DEF Follows
<1>2. Enclosing(n) = {k \in 1 .. n - 1 : \E d \in 2 .. Top : OpenedBy(k, d)}  BY <1>1, FramesPlaced
<1>3. ASSUME NEW k, NEW d \in 2 .. Top, OpenedBy(k, d) PROVE Depth(k) = d - 2
  <2>1. FrameOpen(d, dash.frames[d].at)  BY <1>1, FramesPlaced
  <2>2. k = dash.frames[d].at  BY <1>3 DEF OpenedBy
  <2>3. FrameOpen(d, k)  BY <2>1, <2>2
  <2>4. QED  BY <2>3 DEF FrameOpen
<1>4. QED  BY <1>2, <1>3

\* A start tag opens a frame.
LEMMA FramesPushed ==
  ASSUME NEW t, NEW n, Follows(t, n), FramesOpen(n), dash.frames \in Seq(Frames), t.kind = "start",
         NEW f \in Frames, f.at = n, f.name = t.name, dash'.frames = Append(dash.frames, f)
  PROVE  FramesOpen(n + 1)'
<1>1. PICK fs : fs = dash.frames  OBVIOUS
<1>2. PICK gs : gs = dash'.frames  OBVIOUS
<1>3. PICK top : top = Top  OBVIOUS
<1>4. mpd \in Seq(MpdTokens) /\ n = Len(mpd) + 1  BY DEF Follows
<1>5. top \in Nat /\ top >= 1 /\ n \in Nat /\ n >= 1 /\ top = Len(fs)  BY <1>1, <1>3, <1>4, FramesPlaced
<1>6. \A d \in 1 .. top : fs[d].at \in 0 .. n - 1  BY <1>1, <1>3, <1>4, FramesPlaced
<1>7. \A d \in 2 .. top : FrameOpen(d, fs[d].at) /\ fs[d].at \in 1 .. n - 1  BY <1>1, <1>3, <1>4, FramesPlaced
<1>8. fs[1].at = 0 /\ fs[1].name = "doc" /\ Depth(n) = top - 1 /\ Parent(n) = fs[top].at
  BY <1>1, <1>3, <1>4, FramesPlaced
<1>9. \A d \in 1 .. top, e \in 1 .. top : e < d => fs[e].at < fs[d].at  BY <1>1, <1>3, <1>4, FramesPlaced
<1>10. fs \in Seq(Frames) /\ gs = Append(fs, f)  BY <1>1, <1>2
<1>11. Len(gs) = top + 1 /\ gs[top + 1] = f /\ \A d \in 1 .. top : gs[d] = fs[d]  BY <1>5, <1>10
<1>12. Top' = top + 1  BY <1>2, <1>11 DEF Top
<1>13. Depth(n + 1)' = top
  <2>1. Depth(n + 1)' = Depth(n) + 1  BY DepthNext
  <2>2. QED  BY <1>5, <1>8, <2>1
<1>14. ASSUME NEW d \in 2 .. top + 1 PROVE \E k \in 1 .. n : FrameOpen(d, k)'
  <2>1. CASE d = top + 1
    <3>1. n \in 0 .. n  BY <1>5
    <3>2. Depth(n)' = top - 1 /\ Parent(n)' = fs[top].at  BY <1>8, <3>1, DepthKept, EnclosingKept
    <3>3. mpd'[n] = t  BY TokensKept
    <3>4. d - 2 = top - 1 /\ d - 1 = top /\ top \in 1 .. top  BY <1>5, <2>1
    <3>5. gs[d] = f /\ gs[d - 1] = fs[top] /\ fs[top].at \in 0 .. n - 1  BY <1>6, <1>11, <2>1, <3>4
    <3>6. FrameOpen(d, n)'  BY <1>2, <3>2, <3>3, <3>4, <3>5 DEF FrameOpen, OpenedBy
    <3>7. n \in 1 .. n  BY <1>5
    <3>8. QED  BY <3>6, <3>7
  <2>2. CASE d \in 2 .. top
    <3>1. d \in 1 .. top /\ d - 1 \in 1 .. top  BY <1>5, <2>2
    <3>2. gs[d] = fs[d] /\ gs[d - 1] = fs[d - 1]  BY <1>11, <3>1
    <3>3. PICK k \in 1 .. n - 1 : FrameOpen(d, k)  BY <1>7, <2>2
    <3>4. FrameOpen(d, k)'  BY <1>1, <1>2, <3>2, <3>3, FrameKept
    <3>5. k \in 1 .. n  BY <1>5, <3>3
    <3>6. QED  BY <3>4, <3>5
  <2>3. QED  BY <1>5, <1>14, <2>1, <2>2
<1>15. ASSUME NEW d \in 1 .. top + 1, NEW e \in 1 .. top + 1, e < d PROVE gs[e].at < gs[d].at
  <2>1. e \in 1 .. top  BY <1>5, <1>15
  <2>2. CASE d = top + 1
    <3>1. gs[e].at \in 0 .. n - 1 /\ gs[d].at = n  BY <1>6, <1>11, <2>1, <2>2
    <3>2. QED  BY <1>5, <3>1
  <2>3. CASE d \in 1 .. top  BY <1>9, <1>11, <1>15, <2>1, <2>3
  <2>4. d = top + 1 \/ d \in 1 .. top  BY <1>5
  <2>5. QED  BY <2>2, <2>3, <2>4
<1>16. Enclosing(n + 1)' = {k \in 1 .. n : \E d \in 2 .. top + 1 : OpenedBy(k, d)'}
  <2>1. PICK S : S = {k \in Enclosing(n) : Depth(n + 1)' > Depth(k)}  OBVIOUS
  <2>2. Enclosing(n + 1)' = S \cup {n}  BY <2>1, EnclosingNext
  <2>3. S = {k \in 1 .. n - 1 : \E d \in 2 .. Top : OpenedBy(k, d) /\ Depth(n + 1)' > d - 2}  BY <2>1, StillOpen
  <2>4. \A d \in 2 .. top : top > d - 2  BY <1>5
  <2>5. S = {k \in 1 .. n - 1 : \E d \in 2 .. top : OpenedBy(k, d)}  BY <1>3, <1>13, <2>3, <2>4
  <2>6. ASSUME NEW k, NEW d \in 2 .. top PROVE OpenedBy(k, d)' <=> OpenedBy(k, d)
    <3>1. d \in 1 .. top  BY <1>5, <2>6
    <3>2. QED  BY <1>1, <1>2, <1>11, <3>1 DEF OpenedBy
  <2>7. ASSUME NEW k PROVE OpenedBy(k, top + 1)' <=> k = n  BY <1>2, <1>11 DEF OpenedBy
  <2>8. \A d : d \in 2 .. top + 1 <=> d \in 2 .. top \/ d = top + 1  BY <1>5
  <2>9. ASSUME NEW k, NEW d \in 2 .. top, OpenedBy(k, d) PROVE k \in 1 .. n - 1  BY <1>1, <1>7, <2>9 DEF OpenedBy
  <2>10. \A k : k \in 1 .. n <=> k \in 1 .. n - 1 \/ k = n  BY <1>5
  <2>11. QED  BY <2>2, <2>5, <2>6, <2>7, <2>8, <2>9, <2>10
<1>17. Top' >= 1 /\ OpenedBy(0, 1)' /\ dash'.frames[1].name = "doc" /\ Depth(n + 1)' = Top' - 1
  <2>1. 1 \in 1 .. top /\ top + 1 >= 1 /\ top = (top + 1) - 1  BY <1>5
  <2>2. QED  BY <1>2, <1>8, <1>11, <1>12, <1>13, <2>1 DEF OpenedBy
<1>18. (n + 1) - 1 = n  BY <1>5
<1>19. QED  BY <1>2, <1>12, <1>14, <1>15, <1>16, <1>17, <1>18 DEF FramesOpen

\* An end tag closes the innermost one.
LEMMA FramesPopped ==
  ASSUME NEW t, NEW n, Follows(t, n), FramesOpen(n), dash.frames \in Seq(Frames), t.kind = "end", Top # 1,
         dash'.frames = SubSeq(dash.frames, 1, Top - 1)
  PROVE  FramesOpen(n + 1)'
<1>1. PICK fs : fs = dash.frames  OBVIOUS
<1>2. PICK gs : gs = dash'.frames  OBVIOUS
<1>3. PICK top : top = Top  OBVIOUS
<1>4. mpd \in Seq(MpdTokens) /\ n = Len(mpd) + 1  BY DEF Follows
<1>5. top \in Nat /\ top >= 2 /\ n \in Nat /\ n >= 1 /\ top = Len(fs)
  <2>1. top \in Nat /\ top >= 1 /\ n \in Nat /\ n >= 1 /\ top = Len(fs)  BY <1>1, <1>3, <1>4, FramesPlaced
  <2>2. QED  BY <1>3, <2>1
<1>6. \A d \in 2 .. top : FrameOpen(d, fs[d].at) /\ fs[d].at \in 1 .. n - 1  BY <1>1, <1>3, <1>4, FramesPlaced
<1>7. fs[1].at = 0 /\ fs[1].name = "doc" /\ Depth(n) = top - 1  BY <1>1, <1>3, <1>4, FramesPlaced
<1>8. \A d \in 1 .. top, e \in 1 .. top : e < d => fs[e].at < fs[d].at  BY <1>1, <1>3, <1>4, FramesPlaced
<1>9. fs \in Seq(Frames) /\ gs = SubSeq(fs, 1, top - 1)  BY <1>1, <1>2, <1>3
<1>10. Len(gs) = top - 1 /\ \A d \in 1 .. top - 1 : gs[d] = fs[d]  BY <1>5, <1>9
<1>11. Top' = top - 1  BY <1>2, <1>10 DEF Top
<1>12. Depth(n + 1)' = top - 2
  <2>1. Depth(n + 1)' = Depth(n) - 1  BY DepthNext
  <2>2. QED  BY <1>5, <1>7, <2>1
<1>13. ASSUME NEW d \in 2 .. top - 1 PROVE \E k \in 1 .. n : FrameOpen(d, k)'
  <2>1. d \in 2 .. top /\ d \in 1 .. top - 1 /\ d - 1 \in 1 .. top - 1  BY <1>5, <1>13
  <2>2. gs[d] = fs[d] /\ gs[d - 1] = fs[d - 1]  BY <1>10, <2>1
  <2>3. PICK k \in 1 .. n - 1 : FrameOpen(d, k)  BY <1>6, <2>1
  <2>4. FrameOpen(d, k)'  BY <1>1, <1>2, <2>2, <2>3, FrameKept
  <2>5. k \in 1 .. n  BY <1>5, <2>3
  <2>6. QED  BY <2>4, <2>5
<1>14. ASSUME NEW d \in 1 .. top - 1, NEW e \in 1 .. top - 1, e < d PROVE gs[e].at < gs[d].at
  <2>1. d \in 1 .. top /\ e \in 1 .. top  BY <1>5, <1>14
  <2>2. QED  BY <1>8, <1>10, <1>14, <2>1
<1>15. Enclosing(n + 1)' = {k \in 1 .. n : \E d \in 2 .. top - 1 : OpenedBy(k, d)'}
  <2>1. PICK S : S = {k \in Enclosing(n) : Depth(n + 1)' > Depth(k)}  OBVIOUS
  <2>2. Enclosing(n + 1)' = S  BY <2>1, EnclosingNext
  <2>3. S = {k \in 1 .. n - 1 : \E d \in 2 .. Top : OpenedBy(k, d) /\ Depth(n + 1)' > d - 2}  BY <2>1, StillOpen
  <2>4. \A d : d \in 2 .. top /\ top - 2 > d - 2 <=> d \in 2 .. top - 1  BY <1>5
  <2>5. S = {k \in 1 .. n - 1 : \E d \in 2 .. top - 1 : OpenedBy(k, d)}  BY <1>3, <1>12, <2>3, <2>4
  <2>6. ASSUME NEW k, NEW d \in 2 .. top - 1 PROVE OpenedBy(k, d)' <=> OpenedBy(k, d)
    <3>1. d \in 1 .. top - 1  BY <1>5, <2>6
    <3>2. QED  BY <1>1, <1>2, <1>10, <3>1 DEF OpenedBy
  <2>7. ASSUME NEW k, NEW d \in 2 .. top - 1, OpenedBy(k, d) PROVE k \in 1 .. n - 1
    <3>1. d \in 2 .. top  BY <1>5, <2>7
    <3>2. QED  BY <1>1, <1>6, <2>7, <3>1 DEF OpenedBy
  <2>8. \A k \in 1 .. n - 1 : k \in 1 .. n  BY <1>5
  <2>9. QED  BY <2>2, <2>5, <2>6, <2>7, <2>8
<1>16. Top' >= 1 /\ OpenedBy(0, 1)' /\ dash'.frames[1].name = "doc" /\ Depth(n + 1)' = Top' - 1
  <2>1. 1 \in 1 .. top - 1 /\ top - 1 >= 1 /\ top - 2 = (top - 1) - 1  BY <1>5
  <2>2. QED  BY <1>2, <1>7, <1>10, <1>11, <1>12, <2>1 DEF OpenedBy
<1>17. (n + 1) - 1 = n  BY <1>5
<1>18. QED  BY <1>2, <1>11, <1>13, <1>14, <1>15, <1>16, <1>17 DEF FramesOpen

\* Text opens and closes none.
LEMMA FramesStay ==
  ASSUME NEW t, NEW n, Follows(t, n), FramesOpen(n), dash.frames \in Seq(Frames), t.kind = "text", Top' = Top,
         \A d \in 1 .. Top : dash'.frames[d].at = dash.frames[d].at /\ dash'.frames[d].name = dash.frames[d].name
  PROVE  FramesOpen(n + 1)'
<1>1. PICK fs : fs = dash.frames  OBVIOUS
<1>2. PICK gs : gs = dash'.frames  OBVIOUS
<1>3. PICK top : top = Top  OBVIOUS
<1>4. mpd \in Seq(MpdTokens) /\ n = Len(mpd) + 1  BY DEF Follows
<1>5. top \in Nat /\ top >= 1 /\ n \in Nat /\ n >= 1  BY <1>3, <1>4, FramesPlaced
<1>6. \A d \in 2 .. top : FrameOpen(d, fs[d].at) /\ fs[d].at \in 1 .. n - 1  BY <1>1, <1>3, <1>4, FramesPlaced
<1>7. fs[1].at = 0 /\ fs[1].name = "doc" /\ Depth(n) = top - 1  BY <1>1, <1>3, <1>4, FramesPlaced
<1>8. \A d \in 1 .. top, e \in 1 .. top : e < d => fs[e].at < fs[d].at  BY <1>1, <1>3, <1>4, FramesPlaced
<1>9. \A d \in 1 .. top : gs[d].at = fs[d].at /\ gs[d].name = fs[d].name  BY <1>1, <1>2, <1>3
<1>10. Top' = top /\ Depth(n + 1)' = top - 1
  <2>1. Depth(n + 1)' = Depth(n)  BY DepthNext
  <2>2. QED  BY <1>3, <1>7, <2>1
<1>11. ASSUME NEW d \in 2 .. top PROVE \E k \in 1 .. n : FrameOpen(d, k)'
  <2>1. d \in 1 .. top /\ d - 1 \in 1 .. top  BY <1>5, <1>11
  <2>2. gs[d].at = fs[d].at /\ gs[d].name = fs[d].name /\ gs[d - 1].at = fs[d - 1].at  BY <1>9, <2>1
  <2>3. PICK k \in 1 .. n - 1 : FrameOpen(d, k)  BY <1>6, <1>11
  <2>4. FrameOpen(d, k)'  BY <1>1, <1>2, <2>2, <2>3, FrameKept
  <2>5. k \in 1 .. n  BY <1>5, <2>3
  <2>6. QED  BY <2>4, <2>5
<1>12. \A d \in 1 .. top, e \in 1 .. top : e < d => gs[e].at < gs[d].at  BY <1>8, <1>9
<1>13. Enclosing(n + 1)' = {k \in 1 .. n : \E d \in 2 .. top : OpenedBy(k, d)'}
  <2>1. PICK S : S = {k \in Enclosing(n) : Depth(n + 1)' > Depth(k)}  OBVIOUS
  <2>2. Enclosing(n + 1)' = S  BY <2>1, EnclosingNext
  <2>3. S = {k \in 1 .. n - 1 : \E d \in 2 .. Top : OpenedBy(k, d) /\ Depth(n + 1)' > d - 2}  BY <2>1, StillOpen
  <2>4. \A d \in 2 .. top : top - 1 > d - 2  BY <1>5
  <2>5. S = {k \in 1 .. n - 1 : \E d \in 2 .. top : OpenedBy(k, d)}  BY <1>3, <1>10, <2>3, <2>4
  <2>6. ASSUME NEW k, NEW d \in 2 .. top PROVE OpenedBy(k, d)' <=> OpenedBy(k, d)
    <3>1. d \in 1 .. top  BY <1>5, <2>6
    <3>2. QED  BY <1>1, <1>2, <1>9, <3>1 DEF OpenedBy
  <2>7. ASSUME NEW k, NEW d \in 2 .. top, OpenedBy(k, d) PROVE k \in 1 .. n - 1  BY <1>1, <1>6, <2>7 DEF OpenedBy
  <2>8. \A k \in 1 .. n - 1 : k \in 1 .. n  BY <1>5
  <2>9. QED  BY <2>2, <2>5, <2>6, <2>7, <2>8
<1>14. Top' >= 1 /\ OpenedBy(0, 1)' /\ dash'.frames[1].name = "doc" /\ Depth(n + 1)' = Top' - 1
  <2>1. 1 \in 1 .. top  BY <1>5
  <2>2. QED  BY <1>2, <1>5, <1>7, <1>9, <1>10, <2>1 DEF OpenedBy
<1>15. (n + 1) - 1 = n  BY <1>5
<1>16. QED  BY <1>2, <1>10, <1>11, <1>12, <1>13, <1>14, <1>15 DEF FramesOpen

LEMMA StartKeeps ==
  ASSUME RewriteInv, NEW tag \in {"el", "BaseURL", "ref"}, NEW url \in {"none", "rel", "abs"}, StartElement(tag, url)
  PROVE  RewriteInv'
<1>1. PICK t : t = [kind |-> "start", name |-> tag, ref |-> url]  OBVIOUS
<1>2. PICK n : n = Len(mpd) + 1  OBVIOUS
<1>3. t \in MpdTokens /\ t.kind = "start" /\ t.name = tag /\ t.ref = url  BY <1>1 DEF MpdTokens
<1>4. Reading(t)  BY <1>1 DEF StartElement
<1>5. /\ Follows(t, n) /\ n \in 1 .. MaxTokens /\ ReadSound(n) /\ UNCHANGED hlsVars
      /\ dash.at = "read" /\ dash \in DashRecords /\ MaxTokens \in Nat /\ n = Position
  BY <1>2, <1>3, <1>4, TokenRead
<1>6. PICK top : top = Top  OBVIOUS
<1>7. /\ dash.frames \in Seq(Frames) /\ FramesOpen(n) /\ InnermostBase(n) /\ BasesSound(n) /\ mpd \in Seq(MpdTokens)
      /\ dash.out \in Seq([at : 1 .. MaxTokens, url : SUBSET (1 .. MaxTokens)])
  BY <1>5 DEF DashRecords, ReadSound, Follows
<1>8. top \in Nat /\ top >= 1 /\ n \in Nat /\ n >= 1 /\ top = Len(dash.frames)  BY <1>2, <1>6, <1>7, FramesPlaced
<1>9. \A d \in 1 .. top : dash.frames[d] \in Frames /\ dash.frames[d].at \in 0 .. n - 1  BY <1>2, <1>6, <1>7, FramesPlaced
<1>10. top \in 1 .. top  BY <1>8
<1>11. PICK b : b = dash.frames[top].base  OBVIOUS
<1>12. PICK f : f = [at |-> n, base |-> b, set |-> FALSE, name |-> tag]  OBVIOUS
<1>13. b \in SUBSET (1 .. MaxTokens) /\ f \in Frames /\ f.at = n /\ f.base = b /\ f.set = FALSE /\ f.name = tag
  <2>1. b \in SUBSET (1 .. MaxTokens)  BY <1>9, <1>10, <1>11 DEF Frames
  <2>2. QED  BY <1>8, <1>12, <2>1 DEF Frames
<1>14. PICK o : o = [at |-> n, url |-> ResolveURL(b, url, n)]  OBVIOUS
<1>15. o \in [at : 1 .. MaxTokens, url : SUBSET (1 .. MaxTokens)] /\ o.at = n /\ o.url = ResolveURL(b, url, n)
  <2>1. ResolveURL(b, url, n) \in SUBSET (1 .. MaxTokens)  BY <1>5, <1>13 DEF ResolveURL
  <2>2. QED  BY <1>5, <1>14, <2>1
<1>16. dash.frames[top].name # "BaseURL"  BY <1>6 DEF StartElement
<1>17. ~dash.inBaseURL  BY <1>6, <1>7, <1>16 DEF InnermostBase, Waiting
<1>18. PICK in \in BOOLEAN : in <=> tag = "BaseURL"  OBVIOUS
<1>19. PICK outs : outs = IF tag # "ref" THEN dash.out ELSE Append(dash.out, o)  OBVIOUS
<1>20. PICK gs : gs = Append(dash.frames, f)  OBVIOUS
<1>21. dash' = [dash EXCEPT !.frames = gs, !.inBaseURL = in, !.out = outs]
  <2>1. (dash.inBaseURL \/ tag = "BaseURL") = in  BY <1>17, <1>18
  <2>2. QED  BY <1>5, <1>6, <1>11, <1>12, <1>14, <1>19, <1>20, <2>1 DEF StartElement
<1>22. gs \in Seq(Frames) /\ Len(gs) = top + 1 /\ gs[top + 1] = f /\ \A d \in 1 .. top : gs[d] = dash.frames[d]
  BY <1>7, <1>8, <1>13, <1>20
<1>23. outs \in Seq([at : 1 .. MaxTokens, url : SUBSET (1 .. MaxTokens)])
  <2>1. PICK O : O = [at : 1 .. MaxTokens, url : SUBSET (1 .. MaxTokens)]  OBVIOUS
  <2>2. dash.out \in Seq(O) /\ o \in O  BY <1>7, <1>15, <2>1
  <2>3. Append(dash.out, o) \in Seq(O)  BY <2>2
  <2>4. QED  BY <1>7, <1>19, <2>1, <2>3
<1>24. dash' \in DashRecords /\ dash'.frames = gs /\ dash'.inBaseURL = in /\ dash'.out = outs
  BY <1>5, <1>21, <1>22, <1>23 DEF DashRecords
<1>25. Top' = top + 1  BY <1>22, <1>24 DEF Top
<1>26. FramesOpen(n + 1)'  BY <1>3, <1>5, <1>7, <1>13, <1>20, <1>24, FramesPushed
<1>27. InnermostBase(n + 1)'
  <2>1. ASSUME NEW d \in 1 .. top PROVE gs[d].name # "BaseURL"
    <3>1. d = top \/ d \in 1 .. top - 1  BY <1>8
    <3>2. dash.frames[d].name # "BaseURL"  BY <1>6, <1>7, <1>16, <3>1 DEF InnermostBase
    <3>3. QED  BY <1>22, <2>1, <3>2
  <2>2. Waiting(n + 1)' <=> in
    <3>1. \A j : j \notin n + 1 .. (n + 1) - 1  BY <1>8
    <3>2. dash'.frames[Top'].name = tag /\ dash'.frames[Top'].at = n  BY <1>13, <1>22, <1>24, <1>25
    <3>3. QED  BY <1>18, <3>1, <3>2 DEF Waiting
  <2>3. Top' - 1 = top  BY <1>8, <1>25
  <2>4. QED  BY <1>24, <2>1, <2>2, <2>3 DEF InnermostBase
<1>28. \A p \in 1 .. n - 1 : \A k : ~URLOf(n, p, k)'
  <2>1. mpd'[n] = t  BY <1>5, TokensKept
  <2>2. QED  BY <1>3, <2>1 DEF URLOf
<1>29. b = InForce(PathOf(top, n))
  <2>1. PICK k : k = dash.frames[top].at  OBVIOUS
  <2>2. k \in 0 .. n - 1 /\ OpenedBy(k, top)  BY <1>9, <1>10, <2>1 DEF OpenedBy
  <2>3. BaseSound(top, k, n)  BY <1>6, <1>7, <1>10, <2>2 DEF BasesSound
  <2>4. QED  BY <1>11, <1>16, <2>3 DEF BaseSound
<1>30. BasesSound(n + 1)'
  <2>1. ASSUME NEW d \in 1 .. top + 1, NEW k \in 0 .. n, OpenedBy(k, d)' PROVE BaseSound(d, k, n + 1)'
    <3>1. CASE d \in 1 .. top
      <4>1. \A e \in 1 .. d : e \in 1 .. top  BY <1>8, <3>1
      <4>2. \A e \in 1 .. d : dash'.frames[e] = dash.frames[e]  BY <1>22, <1>24, <4>1
      <4>3. OpenedBy(k, d)  BY <1>22, <1>24, <2>1, <3>1 DEF OpenedBy
      <4>4. k \in 0 .. n - 1  BY <1>9, <3>1, <4>3 DEF OpenedBy
      <4>5. QED  BY <1>5, <1>6, <1>7, <1>28, <3>1, <4>2, <4>3, <4>4, BasesNext
    <3>2. CASE d = top + 1
      <4>1. k = n /\ dash'.frames[d] = f  BY <1>13, <1>22, <1>24, <2>1, <3>2 DEF OpenedBy
      <4>2. BaseTexts(n, n + 1)' = {}
        <5>1. BaseTexts(n, n + 1)' = BaseTexts(n, n)  BY <1>5, <1>28, SameBases
        <5>2. QED  BY <1>8, <5>1, NoBaseYet
      <4>3. InForce(PathOf(top + 1, n + 1))' = b
        <5>1. PICK k0 : k0 = dash.frames[top].at  OBVIOUS
        <5>2. k0 \in 0 .. n - 1 /\ OpenedBy(k0, top)  BY <1>9, <1>10, <5>1 DEF OpenedBy
        <5>3. \A e \in 1 .. top : dash'.frames[e] = dash.frames[e]  BY <1>22, <1>24
        <5>4. InForce(PathOf(top, n + 1))' = b
          BY <1>5, <1>6, <1>7, <1>10, <1>28, <1>29, <5>2, <5>3, BasesNext
        <5>5. PathOf(top + 1, n + 1)' = PathOf(top, n + 1)'
          <6>1. FirstBase(n, n + 1)' = {}  BY <4>2 DEF FirstBase
          <6>2. \A j : OpenedBy(j, top + 1)' <=> j = n  BY <1>13, <1>22, <1>24 DEF OpenedBy
          <6>3. \A e : e \in 1 .. top + 1 <=> e \in 1 .. top \/ e = top + 1  BY <1>8
          <6>4. QED  BY <6>1, <6>2, <6>3 DEF PathOf
        <5>6. InForce(PathOf(top + 1, n + 1))' = InForce(PathOf(top, n + 1))'  BY <5>5 DEF InForce
        <5>7. QED  BY <5>4, <5>6
      <4>4. dash'.frames[d].set = FALSE /\ dash'.frames[d].base = b  BY <1>13, <4>1
      <4>5. PICK q : q = top + 1  OBVIOUS
      <4>6. d = q /\ BaseTexts(k, n + 1)' = {} /\ InForce(PathOf(q, n + 1))' = b  BY <3>2, <4>1, <4>2, <4>3, <4>5
      <4>7. QED  BY <4>4, <4>6 DEF BaseSound
    <3>3. d \in 1 .. top \/ d = top + 1  BY <1>8
    <3>4. QED  BY <3>1, <3>2, <3>3
  <2>2. (n + 1) - 1 = n  BY <1>8
  <2>3. QED  BY <1>25, <2>1, <2>2 DEF BasesSound
<1>31. ASSUME tag = "ref" PROVE WellResolved(o)'
  <2>1. PICK P : P = PathOf(top, n)  OBVIOUS
  <2>2. PICK A : A = Enclosing(n) \cup {0}  OBVIOUS
  <2>3. P \subseteq 1 .. n - 1  BY <2>1 DEF PathOf
  <2>4. ASSUME NEW m \in 1 .. n - 1 PROVE m \in P <=> \E k \in A : m \in FirstBase(k, n)
    <3>1. ASSUME NEW k PROVE k \in A <=> k \in 0 .. n - 1 /\ \E e \in 1 .. top : OpenedBy(k, e)
      BY <1>2, <1>6, <1>7, <2>2, AroundAre
    <3>2. QED  BY <2>1, <2>4, <3>1 DEF PathOf
  <2>5. InEffect(n, A)' = ResolveURL(InForce(P), url, n)  BY <1>3, <1>5, <2>3, <2>4, InEffectNow
  <2>6. o.url = InEffect(n, A)'  BY <1>15, <1>29, <2>1, <2>5
  <2>7. n \in 0 .. n  BY <1>8
  <2>8. Enclosing(n)' = Enclosing(n)  BY <1>5, <2>7, EnclosingKept
  <2>9. InEffect(n, Enclosing(n) \cup {0})' = InEffect(n, A)'  BY <2>2, <2>8 DEF InEffect
  <2>10. mpd'[n].name = "ref"  BY <1>3, <1>5, <1>31, TokensKept
  <2>11. QED  BY <1>15, <2>6, <2>9, <2>10 DEF WellResolved
<1>32. dash'.out = dash.out \/ (dash'.out = Append(dash.out, o) /\ WellResolved(o)')  BY <1>19, <1>24, <1>31
<1>33. ReadSound(n + 1)'  BY <1>26, <1>27, <1>30 DEF ReadSound
<1>34. QED  BY <1>5, <1>15, <1>24, <1>32, <1>33, TokenKeeps

LEMMA EndKeeps == ASSUME RewriteInv, NEW matches \in BOOLEAN, EndElement(matches) PROVE RewriteInv'
<1>1. PICK t : t = [kind |-> "end", name |-> IF matches THEN dash.frames[Top].name ELSE "other", ref |-> "none"]  OBVIOUS
<1>2. PICK n : n = Len(mpd) + 1  OBVIOUS
<1>3. Reading(t)  BY <1>1 DEF EndElement
<1>4. mpd \in Seq(MpdTokens) /\ dash \in DashRecords /\ FramesOpen(n) /\ dash.frames \in Seq(Frames)
  <2>1. mpd \in Seq(MpdTokens) /\ dash \in DashRecords  BY DEF RewriteInv, RewriteTypeOK, DashRecords
  <2>2. dash.at = "read"  BY <1>3 DEF Reading
  <2>3. FramesOpen(n)  BY <1>2, <2>2 DEF RewriteInv, MpdSound, ReadSound
  <2>4. QED  BY <2>1, <2>3 DEF DashRecords
<1>5. PICK top : top = Top  OBVIOUS
<1>6. top \in Nat /\ top >= 1 /\ n \in Nat /\ n >= 1 /\ top = Len(dash.frames)  BY <1>2, <1>4, <1>5, FramesPlaced
<1>7. \A d \in 1 .. top : dash.frames[d] \in Frames /\ dash.frames[d].at \in 0 .. n - 1  BY <1>2, <1>4, <1>5, FramesPlaced
<1>8. t \in MpdTokens /\ t.kind = "end"
  <2>1. top \in 1 .. top  BY <1>6
  <2>2. dash.frames[top].name \in {"doc", "el", "BaseURL", "ref"}  BY <1>7, <2>1 DEF Frames
  <2>3. PICK x : x = IF matches THEN dash.frames[Top].name ELSE "other"  OBVIOUS
  <2>4. x \in {"el", "BaseURL", "ref", "other", "doc", "none"}  BY <1>5, <2>2, <2>3
  <2>5. QED  BY <1>1, <2>3, <2>4 DEF MpdTokens
<1>9. /\ Follows(t, n) /\ n \in 1 .. MaxTokens /\ ReadSound(n) /\ UNCHANGED hlsVars
      /\ dash.at = "read" /\ MaxTokens \in Nat
  BY <1>2, <1>3, <1>8, TokenRead
<1>10. PICK o \in [at : 1 .. MaxTokens, url : SUBSET (1 .. MaxTokens)] : o.at = n
  <2>1. [at |-> n, url |-> {}] \in [at : 1 .. MaxTokens, url : SUBSET (1 .. MaxTokens)]  BY <1>9
  <2>2. QED  BY <2>1
<1>11. CASE dash' = [dash EXCEPT !.at = "unchanged"]
  <2>1. dash' \in DashRecords /\ dash'.at = "unchanged" /\ dash'.out = dash.out  BY <1>4, <1>11 DEF DashRecords
  <2>2. QED  BY <1>9, <1>10, <2>1, TokenKeeps
<1>12. CASE Top # 1 /\ dash' = [dash EXCEPT !.inBaseURL = FALSE, !.frames = SubSeq(dash.frames, 1, Top - 1)]
  <2>1. PICK gs : gs = SubSeq(dash.frames, 1, top - 1)  OBVIOUS
  <2>2. top >= 2
    <3>1. top # 1  BY <1>5, <1>12
    <3>2. PICK x \in Nat : x = top /\ x >= 1  BY <1>6
    <3>3. x # 1 => x >= 2  BY ONLY <3>2
    <3>4. QED  BY <3>1, <3>2, <3>3
  <2>3. gs \in Seq(Frames) /\ Len(gs) = top - 1 /\ \A d \in 1 .. top - 1 : gs[d] = dash.frames[d]
    BY <1>4, <1>6, <2>1, <2>2
  <2>4. dash' = [dash EXCEPT !.inBaseURL = FALSE, !.frames = gs]  BY <1>5, <1>12, <2>1
  <2>5. dash' \in DashRecords /\ dash'.frames = gs /\ dash'.inBaseURL = FALSE /\ dash'.out = dash.out
    BY <1>4, <2>3, <2>4 DEF DashRecords
  <2>6. Top' = top - 1  BY <2>3, <2>5 DEF Top
  <2>7. FramesOpen(n + 1)'  BY <1>4, <1>5, <1>8, <1>9, <1>12, <2>1, <2>5, FramesPopped
  <2>8. ASSUME NEW d \in 1 .. top - 1 PROVE gs[d].name # "BaseURL"
    BY <1>5, <1>9, <2>3, <2>8 DEF ReadSound, InnermostBase
  <2>9. InnermostBase(n + 1)'
    <3>1. top - 1 \in 1 .. top - 1 /\ \A d \in 1 .. (top - 1) - 1 : d \in 1 .. top - 1  BY <1>6, <2>2
    <3>2. ~Waiting(n + 1)'  BY <2>5, <2>6, <2>8, <3>1 DEF Waiting
    <3>3. QED  BY <2>5, <2>6, <2>8, <3>1, <3>2 DEF InnermostBase
  <2>10. \A p \in 1 .. n - 1 : \A k : ~URLOf(n, p, k)'
    <3>1. mpd'[n] = t  BY <1>9, TokensKept
    <3>2. QED  BY <1>8, <3>1 DEF URLOf
  <2>11. ASSUME NEW d \in 1 .. top - 1, NEW k \in 0 .. n, OpenedBy(k, d)' PROVE BaseSound(d, k, n + 1)'
    <3>1. d \in 1 .. top /\ \A e \in 1 .. d : e \in 1 .. top - 1  BY <1>6, <2>11
    <3>2. \A e \in 1 .. d : dash'.frames[e] = dash.frames[e]  BY <2>3, <2>5, <3>1
    <3>3. OpenedBy(k, d)  BY <2>3, <2>5, <2>11 DEF OpenedBy
    <3>4. k \in 0 .. n - 1  BY <1>7, <3>1, <3>3 DEF OpenedBy
    <3>5. QED  BY <1>4, <1>5, <1>9, <2>10, <3>1, <3>2, <3>3, <3>4, BasesNext
  <2>12. BasesSound(n + 1)'
    <3>1. (n + 1) - 1 = n  BY <1>6
    <3>2. QED  BY <2>6, <2>11, <3>1 DEF BasesSound
  <2>13. ReadSound(n + 1)'  BY <2>7, <2>9, <2>12 DEF ReadSound
  <2>14. QED  BY <1>9, <1>10, <2>5, <2>13, TokenKeeps
<1>13. QED  BY <1>11, <1>12 DEF EndElement

\* Text that is not the URL of a BaseURL.
LEMMA TextPasses ==
  ASSUME RewriteInv, NEW ref \in {"rel", "abs", "blank"}, CharData(ref), ~dash.inBaseURL \/ ref = "blank"
  PROVE  RewriteInv'
<1>1. PICK t : t = [kind |-> "text", name |-> "none", ref |-> ref]  OBVIOUS
<1>2. PICK n : n = Len(mpd) + 1  OBVIOUS
<1>3. t \in MpdTokens /\ t.kind = "text" /\ t.ref = ref  BY <1>1 DEF MpdTokens
<1>4. Reading(t) /\ dash' = dash  BY <1>1 DEF CharData
<1>5. /\ Follows(t, n) /\ n \in 1 .. MaxTokens /\ ReadSound(n) /\ UNCHANGED hlsVars
      /\ dash.at = "read" /\ dash \in DashRecords /\ MaxTokens \in Nat
  BY <1>2, <1>3, <1>4, TokenRead
<1>6. dash.frames \in Seq(Frames) /\ FramesOpen(n) /\ InnermostBase(n) /\ mpd \in Seq(MpdTokens)
  BY <1>5 DEF DashRecords, ReadSound, Follows
<1>7. PICK top : top = Top  OBVIOUS
<1>8. top \in Nat /\ top >= 1 /\ n \in Nat /\ n >= 1  BY <1>2, <1>6, <1>7, FramesPlaced
<1>9. \A d \in 1 .. top : dash.frames[d].at \in 0 .. n - 1  BY <1>2, <1>6, <1>7, FramesPlaced
<1>10. Parent(n) = dash.frames[top].at  BY <1>2, <1>6, <1>7, FramesPlaced
<1>11. PICK k0 : k0 = dash.frames[top].at  OBVIOUS
<1>12. k0 \in 0 .. n - 1
  <2>1. top \in 1 .. top  BY <1>8
  <2>2. QED  BY <1>9, <1>11, <2>1
<1>13. mpd'[n] = t /\ \A i \in 1 .. n - 1 : mpd'[i] = mpd[i]  BY <1>5, TokensKept
<1>14. Top' = top /\ \A d : dash'.frames[d] = dash.frames[d]  BY <1>4, <1>7 DEF Top
<1>15. FramesOpen(n + 1)'  BY <1>3, <1>5, <1>6, <1>7, <1>14, FramesStay
<1>16. \A j : j \in k0 + 1 .. (n + 1) - 1 <=> j \in k0 + 1 .. n - 1 \/ j = n  BY <1>8, <1>12
<1>17. \A j \in k0 + 1 .. n - 1 : mpd'[j] = mpd[j]
  <2>1. \A j \in k0 + 1 .. n - 1 : j \in 1 .. n - 1  BY <1>8, <1>12
  <2>2. QED  BY <1>13, <2>1
<1>18. Waiting(n) <=> dash.frames[top].name = "BaseURL" /\ \A j \in k0 + 1 .. n - 1 : mpd[j].ref = "blank"
  BY <1>7, <1>11 DEF Waiting
<1>19. Waiting(n + 1)' <=> Waiting(n) /\ ref = "blank"
  <2>1. Waiting(n + 1)' <=> dash.frames[top].name = "BaseURL" /\ \A j \in k0 + 1 .. (n + 1) - 1 : mpd'[j].ref = "blank"
    BY <1>11, <1>14 DEF Waiting
  <2>2. QED  BY <1>3, <1>13, <1>16, <1>17, <1>18, <2>1
<1>20. InnermostBase(n + 1)'
  <2>1. dash'.inBaseURL <=> Waiting(n + 1)'  BY <1>4, <1>6, <1>19 DEF InnermostBase
  <2>2. \A d \in 1 .. top - 1 : dash'.frames[d].name # "BaseURL"  BY <1>6, <1>7, <1>14 DEF InnermostBase
  <2>3. QED  BY <1>14, <2>1, <2>2 DEF InnermostBase
<1>21. ASSUME NEW p \in 1 .. n - 1, NEW k, URLOf(n, p, k)' PROVE FALSE
  <2>1. n \in 0 .. n  BY <1>8
  <2>2. Parent(n)' = k0  BY <1>5, <1>10, <1>11, <2>1, EnclosingKept
  <2>3. /\ p = k0 /\ ref # "blank" /\ mpd'[p].name = "BaseURL"
        /\ \A j \in p + 1 .. n - 1 : mpd'[j].ref = "blank"
    BY <1>3, <1>13, <1>21, <2>2 DEF URLOf
  <2>4. top # 1
    <3>1. dash.frames[1].at = 0  BY <1>2, <1>6, FramesPlaced
    <3>2. p # 0  BY <1>8
    <3>3. QED  BY <1>11, <2>3, <3>1, <3>2
  <2>5. top \in 2 .. top  BY <1>8, <2>4
  <2>6. FrameOpen(top, k0)  BY <1>2, <1>6, <1>7, <1>11, <2>5, FramesPlaced
  <2>7. dash.frames[top].name = "BaseURL"  BY <1>13, <2>3, <2>6 DEF FrameOpen
  <2>8. Waiting(n)  BY <1>17, <1>18, <2>3, <2>7
  <2>9. QED  BY <1>6, <2>3, <2>8 DEF InnermostBase
<1>22. ASSUME NEW d \in 1 .. top, NEW k \in 0 .. n, OpenedBy(k, d)' PROVE BaseSound(d, k, n + 1)'
  <2>1. OpenedBy(k, d)  BY <1>14, <1>22 DEF OpenedBy
  <2>2. k \in 0 .. n - 1  BY <1>9, <2>1 DEF OpenedBy
  <2>3. QED  BY <1>5, <1>6, <1>7, <1>14, <1>21, <2>1, <2>2, BasesNext
<1>23. BasesSound(n + 1)'
  <2>1. (n + 1) - 1 = n  BY <1>8
  <2>2. QED  BY <1>14, <1>22, <2>1 DEF BasesSound
<1>24. PICK o \in [at : 1 .. MaxTokens, url : SUBSET (1 .. MaxTokens)] : o.at = n
  <2>1. [at |-> n, url |-> {}] \in [at : 1 .. MaxTokens, url : SUBSET (1 .. MaxTokens)]  BY <1>5
  <2>2. QED  BY <2>1
<1>25. ReadSound(n + 1)'  BY <1>15, <1>20, <1>23 DEF ReadSound
<1>26. dash' \in DashRecords /\ dash'.out = dash.out  BY <1>4, <1>5
<1>27. QED  BY <1>5, <1>24, <1>25, <1>26, TokenKeeps

\* The first URL of an element's BaseURLs is the one that counts.
LEMMA FirstBaseNext ==
  ASSUME NEW t, NEW n, Follows(t, n), NEW k, NEW p \in 1 .. n - 1, URLOf(n, p, k)'
  PROVE  /\ BaseTexts(k, n + 1)' # {}
         /\ FirstBase(k, n + 1)' = IF BaseTexts(k, n) = {} THEN {n} ELSE FirstBase(k, n)
<1>1. n \in Nat /\ n >= 1  BY TokensKept
<1>2. PICK B : B = BaseTexts(k, n)  OBVIOUS
<1>3. B \subseteq 1 .. n - 1  BY <1>1, <1>2, FirstBaseBefore
<1>4. BaseTexts(k, n + 1)' = B \cup {n}
  <2>1. PICK S : S = {m \in {n} : \E j \in 1 .. n - 1 : URLOf(n, j, k)'}  OBVIOUS
  <2>2. S = {n}  BY <2>1
  <2>3. QED  BY <1>2, <2>1, <2>2, BaseTextsNext
<1>5. FirstBase(k, n + 1)' = {m \in B \cup {n} : \A j \in B \cup {n} : m <= j}  BY <1>4 DEF FirstBase
<1>6. FirstBase(k, n) = {m \in B : \A j \in B : m <= j}  BY <1>2 DEF FirstBase
<1>7. \A m \in B : m <= n /\ ~(n <= m)  BY <1>1, <1>3
<1>8. n <= n  BY <1>1
<1>9. QED  BY <1>2, <1>4, <1>5, <1>6, <1>7, <1>8

\* The URL of a BaseURL.
LEMMA BaseKeeps ==
  ASSUME RewriteInv, NEW ref \in {"rel", "abs"}, CharData(ref), dash.inBaseURL
  PROVE  RewriteInv'
<1>1. PICK t : t = [kind |-> "text", name |-> "none", ref |-> ref]  OBVIOUS
<1>2. PICK n : n = Len(mpd) + 1  OBVIOUS
<1>3. t \in MpdTokens /\ t.kind = "text" /\ t.ref = ref /\ ref # "blank"  BY <1>1 DEF MpdTokens
<1>4. Reading(t)  BY <1>1 DEF CharData
<1>5. /\ Follows(t, n) /\ n \in 1 .. MaxTokens /\ ReadSound(n) /\ UNCHANGED hlsVars
      /\ dash.at = "read" /\ dash \in DashRecords /\ MaxTokens \in Nat /\ n = Position
  BY <1>2, <1>3, <1>4, TokenRead
<1>6. /\ dash.frames \in Seq(Frames) /\ FramesOpen(n) /\ InnermostBase(n) /\ BasesSound(n) /\ mpd \in Seq(MpdTokens)
      /\ dash.out \in Seq([at : 1 .. MaxTokens, url : SUBSET (1 .. MaxTokens)])
  BY <1>5 DEF DashRecords, ReadSound, Follows
<1>7. PICK top : top = Top  OBVIOUS
<1>8. PICK fs : fs = dash.frames  OBVIOUS
<1>9. Waiting(n)  BY <1>6 DEF InnermostBase
<1>10. fs[top].name = "BaseURL"  BY <1>7, <1>8, <1>9 DEF Waiting
<1>11. top \in Nat /\ top >= 2 /\ n \in Nat /\ n >= 1
  <2>1. top \in Nat /\ top >= 1 /\ n \in Nat /\ n >= 1  BY <1>2, <1>6, <1>7, FramesPlaced
  <2>2. fs[1].name = "doc"  BY <1>2, <1>6, <1>8, FramesPlaced
  <2>3. top # 1  BY <1>10, <2>2
  <2>4. QED  BY <2>1, <2>3
<1>12. top = Len(fs) /\ fs \in Seq(Frames)  BY <1>6, <1>7, <1>8 DEF Top
<1>13. \A d \in 1 .. top : fs[d] \in Frames /\ fs[d].at \in 0 .. n - 1  BY <1>2, <1>6, <1>7, <1>8, FramesPlaced
<1>14. \A d \in 1 .. top, e \in 1 .. top : e < d => fs[e].at < fs[d].at  BY <1>2, <1>6, <1>7, <1>8, FramesPlaced
<1>15. PICK pi : pi = top - 1  OBVIOUS
<1>16. /\ pi \in 1 .. top /\ top \in 1 .. top /\ top \in 2 .. top /\ pi # top /\ pi \in 1 .. top - 1 /\ pi \in Nat
       /\ \A d \in 1 .. top : d = top \/ d = pi \/ d \in 1 .. pi - 1
  BY <1>11, <1>15
<1>17. PICK p : p = fs[top].at  OBVIOUS
<1>18. PICK k : k = fs[pi].at  OBVIOUS
<1>19. p \in 1 .. n - 1 /\ k \in 0 .. n - 1 /\ FrameOpen(top, p) /\ Parent(n) = p
  <2>1. FrameOpen(top, p) /\ p \in 1 .. n - 1  BY <1>2, <1>6, <1>7, <1>8, <1>16, <1>17, FramesPlaced
  <2>2. Parent(n) = p  BY <1>2, <1>6, <1>7, <1>8, <1>17, FramesPlaced
  <2>3. QED  BY <1>13, <1>16, <1>18, <2>1, <2>2
<1>20. Parent(p) = k /\ mpd[p].name = "BaseURL"
  BY <1>8, <1>10, <1>15, <1>18, <1>19 DEF FrameOpen, OpenedBy
<1>21. mpd'[n] = t /\ \A i \in 1 .. n - 1 : mpd'[i] = mpd[i]  BY <1>5, TokensKept
<1>22. n \in 0 .. n /\ p \in 0 .. n  BY <1>11, <1>19
<1>23. Parent(n)' = p /\ Parent(p)' = k /\ Enclosing(n)' = Enclosing(n)  BY <1>5, <1>19, <1>20, <1>22, EnclosingKept
<1>24. URLOf(n, p, k)'
  <2>1. \A j \in p + 1 .. n - 1 : mpd[j].ref = "blank"  BY <1>7, <1>8, <1>9, <1>17 DEF Waiting
  <2>2. \A j \in p + 1 .. n - 1 : j \in 1 .. n - 1  BY <1>11, <1>19
  <2>3. \A j \in p + 1 .. n - 1 : mpd'[j].ref = "blank"  BY <1>21, <2>1, <2>2
  <2>4. mpd'[p] = mpd[p]  BY <1>19, <1>21
  <2>5. QED  BY <1>3, <1>20, <1>21, <1>23, <2>3, <2>4 DEF URLOf
<1>25. ASSUME NEW j, j # k PROVE \A q \in 1 .. n - 1 : ~URLOf(n, q, j)'
  <2>1. SUFFICES ASSUME NEW q \in 1 .. n - 1, URLOf(n, q, j)' PROVE FALSE  OBVIOUS
  <2>2. q = p  BY <1>23, <2>1 DEF URLOf
  <2>3. URLOf(n, p, j)'  BY <2>1, <2>2
  <2>4. QED  BY <1>23, <1>25, <2>3 DEF URLOf
<1>26. \A j : j # k => BaseTexts(j, n + 1)' = BaseTexts(j, n) /\ FirstBase(j, n + 1)' = FirstBase(j, n)
  <2>1. SUFFICES ASSUME NEW j, j # k PROVE BaseTexts(j, n + 1)' = BaseTexts(j, n) /\ FirstBase(j, n + 1)' = FirstBase(j, n)
    OBVIOUS
  <2>2. BaseTexts(j, n + 1)' = BaseTexts(j, n)  BY <1>5, <1>25, <2>1, SameBases
  <2>3. QED  BY <2>2 DEF FirstBase
<1>27. /\ BaseTexts(k, n + 1)' # {}
       /\ FirstBase(k, n + 1)' = IF BaseTexts(k, n) = {} THEN {n} ELSE FirstBase(k, n)
  BY <1>5, <1>19, <1>24, FirstBaseNext
<1>28. PICK P : P = PathOf(pi, n)  OBVIOUS
<1>29. P \subseteq 1 .. n - 1  BY <1>28 DEF PathOf
<1>30. fs[pi].name # "BaseURL"  BY <1>6, <1>7, <1>8, <1>16 DEF InnermostBase
<1>31. fs[pi].base = InForce(P) /\ (fs[pi].set <=> BaseTexts(k, n) # {})
  <2>1. OpenedBy(k, pi)  BY <1>8, <1>18 DEF OpenedBy
  <2>2. BaseSound(pi, k, n)  BY <1>6, <1>7, <1>16, <1>19, <2>1 DEF BasesSound
  <2>3. QED  BY <1>8, <1>28, <1>30, <2>2 DEF BaseSound
<1>32. PICK url : url = ResolveURL(fs[pi].base, ref, n)  OBVIOUS
<1>33. url \in SUBSET (1 .. MaxTokens)
  <2>1. fs[pi].base \in SUBSET (1 .. MaxTokens)  BY <1>13, <1>16 DEF Frames
  <2>2. QED  BY <1>5, <1>32, <2>1 DEF ResolveURL
<1>34. PICK o : o = [at |-> n, url |-> url]  OBVIOUS
<1>35. o \in [at : 1 .. MaxTokens, url : SUBSET (1 .. MaxTokens)] /\ o.at = n /\ o.url = url  BY <1>5, <1>33, <1>34
<1>36. PICK gs : gs = WithBase(fs, url)  OBVIOUS
<1>37. PICK outs : outs = Append(dash.out, o)  OBVIOUS
<1>38. outs \in Seq([at : 1 .. MaxTokens, url : SUBSET (1 .. MaxTokens)])
  <2>1. PICK O : O = [at : 1 .. MaxTokens, url : SUBSET (1 .. MaxTokens)]  OBVIOUS
  <2>2. dash.out \in Seq(O) /\ o \in O  BY <1>6, <1>35, <2>1
  <2>3. Append(dash.out, o) \in Seq(O)  BY <2>2
  <2>4. QED  BY <1>37, <2>1, <2>3
<1>39. PICK g : g = IF fs[pi].set THEN fs[pi] ELSE [fs[pi] EXCEPT !.base = url, !.set = TRUE]  OBVIOUS
<1>40. /\ g \in Frames /\ g.at = fs[pi].at /\ g.name = fs[pi].name /\ g.set = TRUE
       /\ g.base = IF fs[pi].set THEN fs[pi].base ELSE url
  <2>1. PICK x : x = fs[pi]  OBVIOUS
  <2>2. x \in Frames /\ x.set \in BOOLEAN  BY <1>13, <1>16, <2>1 DEF Frames
  <2>3. CASE x.set = TRUE  BY <1>39, <2>1, <2>2, <2>3
  <2>4. CASE x.set = FALSE
    <3>1. g = [x EXCEPT !.base = url, !.set = TRUE]  BY <1>39, <2>1, <2>4
    <3>2. g \in Frames /\ g.at = x.at /\ g.name = x.name /\ g.set = TRUE /\ g.base = url
      BY <1>33, <2>2, <3>1 DEF Frames
    <3>3. QED  BY <2>1, <2>4, <3>2
  <2>5. QED  BY <2>2, <2>3, <2>4
<1>41. gs = [fs EXCEPT ![pi] = g]
  <2>1. Len(fs) - 1 = pi  BY <1>12, <1>15
  <2>2. CASE fs[pi].set
    <3>1. gs = fs /\ g = fs[pi]  BY <1>36, <1>39, <2>1, <2>2 DEF WithBase
    <3>2. QED  BY <1>12, <1>16, <3>1
  <2>3. CASE ~fs[pi].set
    <3>1. gs = [fs EXCEPT ![pi].base = url, ![pi].set = TRUE]  BY <1>36, <2>1, <2>3 DEF WithBase
    <3>2. g = [fs[pi] EXCEPT !.base = url, !.set = TRUE]  BY <1>39, <2>3
    <3>3. QED  BY <1>12, <1>16, <3>1, <3>2
  <2>4. QED  BY <2>2, <2>3
<1>42. gs \in Seq(Frames) /\ Len(gs) = top /\ gs[pi] = g /\ \A d \in 1 .. top : d # pi => gs[d] = fs[d]
  BY <1>12, <1>16, <1>40, <1>41
<1>43. dash' = [dash EXCEPT !.frames = gs, !.inBaseURL = FALSE, !.out = outs]
  BY <1>3, <1>5, <1>7, <1>8, <1>15, <1>32, <1>34, <1>36, <1>37 DEF CharData
<1>44. dash' \in DashRecords /\ dash'.frames = gs /\ dash'.inBaseURL = FALSE /\ dash'.out = outs
  BY <1>5, <1>38, <1>42, <1>43 DEF DashRecords
<1>45. Top' = top  BY <1>42, <1>44 DEF Top
<1>46. \A d \in 1 .. top : gs[d].at = fs[d].at /\ gs[d].name = fs[d].name  BY <1>40, <1>42
<1>47. FramesOpen(n + 1)'  BY <1>3, <1>5, <1>6, <1>7, <1>8, <1>44, <1>45, <1>46, FramesStay
<1>48. InnermostBase(n + 1)'
  <2>1. n \in p + 1 .. (n + 1) - 1  BY <1>11, <1>19
  <2>2. ~Waiting(n + 1)'
    <3>1. dash'.frames[Top'].at = p  BY <1>16, <1>17, <1>42, <1>44, <1>45
    <3>2. QED  BY <1>3, <1>21, <2>1, <3>1 DEF Waiting
  <2>3. ASSUME NEW d \in 1 .. top - 1 PROVE dash'.frames[d].name # "BaseURL"
    <3>1. d \in 1 .. top  BY <1>11
    <3>2. QED  BY <1>6, <1>7, <1>8, <1>44, <1>46, <3>1 DEF InnermostBase
  <2>4. QED  BY <1>44, <1>45, <2>2, <2>3 DEF InnermostBase
<1>49. WellResolved(o)'
  <2>1. ASSUME BaseTexts(k, n) = {} PROVE InEffect(n, (Enclosing(n) \cup {0}) \ {p, k})' = url
    <3>1. PICK A : A = Enclosing(n) \cup {0}  OBVIOUS
    <3>2. \A j : j \in A <=> j \in 0 .. n - 1 /\ \E e \in 1 .. top : OpenedBy(j, e)  BY <1>2, <1>6, <1>7, <3>1, AroundAre
    <3>3. FirstBase(k, n) = {}  BY <2>1 DEF FirstBase
    <3>4. ASSUME NEW m \in P PROVE \E j \in A \ {p, k} : m \in FirstBase(j, n)
      <4>1. PICK j \in 0 .. n - 1, e \in 1 .. pi : OpenedBy(j, e) /\ m \in FirstBase(j, n)  BY <1>28, <3>4 DEF PathOf
      <4>2. e \in 1 .. top /\ e < top  BY <1>11, <1>15
      <4>3. j = fs[e].at /\ j # k  BY <1>8, <3>3, <4>1 DEF OpenedBy
      <4>4. j # p
        <5>1. fs[e].at < fs[top].at  BY <1>14, <1>16, <4>2
        <5>2. QED  BY <1>17, <1>19, <4>1, <4>3, <5>1
      <4>5. QED  BY <3>2, <4>1, <4>2, <4>3, <4>4
    <3>5. ASSUME NEW m \in 1 .. n - 1, NEW j \in A \ {p, k}, m \in FirstBase(j, n) PROVE m \in P
      <4>1. PICK e \in 1 .. top : OpenedBy(j, e)  BY <3>2
      <4>2. e # top  BY <1>8, <1>17, <4>1 DEF OpenedBy
      <4>3. e \in 1 .. pi /\ j \in 0 .. n - 1  BY <1>11, <1>15, <3>2, <4>2
      <4>4. QED  BY <1>28, <3>5, <4>1, <4>3 DEF PathOf
    <3>6. InEffect(n, A \ {p, k})' = ResolveURL(InForce(P), t.ref, n)  BY <1>5, <1>29, <3>4, <3>5, InEffectNow
    <3>7. InEffect(n, (Enclosing(n) \cup {0}) \ {p, k})' = InEffect(n, A \ {p, k})'  BY <1>23, <3>1 DEF InEffect
    <3>8. QED  BY <1>3, <1>31, <1>32, <3>6, <3>7
  <2>2. n \in 1 .. n  BY <1>11
  <2>3. BaseTexts(k, n)' = BaseTexts(k, n)  BY <1>5, <2>2, BaseTextsKept
  <2>4. QED  BY <1>19, <1>24, <1>35, <2>1, <2>3 DEF WellResolved
<1>50. k < p /\ \A d \in 1 .. pi - 1 : \A j : OpenedBy(j, d) => j # k
  <2>1. pi < top  BY <1>11, <1>15
  <2>2. k < p  BY <1>14, <1>16, <1>17, <1>18, <2>1
  <2>3. ASSUME NEW d \in 1 .. pi - 1, NEW j, OpenedBy(j, d) PROVE j # k
    <3>1. d \in 1 .. top /\ d < pi  BY <1>11, <1>15
    <3>2. fs[d].at < k  BY <1>14, <1>16, <1>18, <3>1
    <3>3. j = fs[d].at  BY <1>8, <2>3 DEF OpenedBy
    <3>4. j \in Nat  BY <1>13, <3>1, <3>3
    <3>5. QED  BY <1>19, <3>2, <3>3, <3>4
  <2>4. QED  BY <2>2, <2>3
<1>51. \A e \in 1 .. top : dash'.frames[e].at = dash.frames[e].at  BY <1>8, <1>44, <1>46
<1>52. ASSUME NEW d \in 1 .. top, NEW j, OpenedBy(j, d) PROVE j \in 0 .. n - 1 /\ BaseSound(d, j, n)
  <2>1. j \in 0 .. n - 1  BY <1>8, <1>13, <1>52 DEF OpenedBy
  <2>2. QED  BY <1>6, <1>7, <1>52, <2>1 DEF BasesSound
<1>53. BaseSound(top, p, n + 1)'
  <2>1. OpenedBy(p, top)  BY <1>8, <1>17 DEF OpenedBy
  <2>2. BaseSound(top, p, n)  BY <1>16, <1>52, <2>1
  <2>3. p # k  BY <1>19, <1>50
  <2>4. BaseTexts(p, n + 1)' = BaseTexts(p, n)  BY <1>26, <2>3
  <2>5. dash'.frames[top] = fs[top]  BY <1>16, <1>42, <1>44
  <2>6. QED  BY <1>8, <1>10, <2>2, <2>4, <2>5 DEF BaseSound
<1>54. ASSUME NEW d \in 1 .. pi - 1, NEW j, OpenedBy(j, d) PROVE BaseSound(d, j, n + 1)'
  <2>1. d \in 1 .. top /\ d # pi /\ \A e \in 1 .. d : e \in 1 .. pi - 1 /\ e \in 1 .. top  BY <1>11, <1>15
  <2>2. BaseSound(d, j, n) /\ j # k  BY <1>50, <1>52, <1>54, <2>1
  <2>3. \A e \in 1 .. d, i \in 0 .. n - 1 : OpenedBy(i, e) => FirstBase(i, n + 1)' = FirstBase(i, n)
    BY <1>26, <1>50, <2>1
  <2>4. InForce(PathOf(d, n + 1))' = InForce(PathOf(d, n))  BY <1>5, <1>6, <1>7, <1>51, <2>1, <2>3, PathNext
  <2>5. dash'.frames[d] = dash.frames[d]  BY <1>8, <1>42, <1>44, <2>1
  <2>6. BaseTexts(j, n + 1)' = BaseTexts(j, n)  BY <1>26, <2>2
  <2>7. QED  BY <2>2, <2>4, <2>5, <2>6 DEF BaseSound
<1>55. g.base = InForce(PathOf(pi, n + 1))'
  <2>1. OpenedBy(k, pi) /\ \A e \in 1 .. pi : e = pi \/ e \in 1 .. pi - 1
    <3>1. OpenedBy(k, pi)  BY <1>8, <1>18 DEF OpenedBy
    <3>2. QED  BY <1>16, <3>1
  <2>2. \A e \in 1 .. pi : e \in 1 .. top  BY <1>11, <1>15
  <2>3. CASE BaseTexts(k, n) # {}
    <3>1. \A j : FirstBase(j, n + 1)' = FirstBase(j, n)  BY <1>26, <1>27, <2>3
    <3>2. InForce(PathOf(pi, n + 1))' = InForce(P)
      BY <1>5, <1>6, <1>7, <1>16, <1>28, <1>51, <2>2, <3>1, PathNext
    <3>3. QED  BY <1>31, <1>40, <2>3, <3>2
  <2>4. CASE BaseTexts(k, n) = {}
    <3>1. FirstBase(k, n) = {} /\ FirstBase(k, n + 1)' = {n}  BY <1>27, <2>4 DEF FirstBase
    <3>2. \A j, e : e \in 1 .. pi => (OpenedBy(j, e)' <=> OpenedBy(j, e)) /\ (OpenedBy(j, e) => j \in 0 .. n - 1)
      <4>1. ASSUME NEW j, NEW e \in 1 .. pi PROVE OpenedBy(j, e)' <=> OpenedBy(j, e)  BY <1>51, <2>2 DEF OpenedBy
      <4>2. ASSUME NEW j, NEW e \in 1 .. pi, OpenedBy(j, e) PROVE j \in 0 .. n - 1  BY <1>52, <2>2, <4>2
      <4>3. QED  BY <4>1, <4>2
    <3>3. PathOf(pi, n + 1)' = {m \in 1 .. n : \E j \in 0 .. n, e \in 1 .. pi : OpenedBy(j, e)' /\ m \in FirstBase(j, n + 1)'}
      <4>1. (n + 1) - 1 = n  BY <1>11
      <4>2. QED  BY <4>1 DEF PathOf
    <3>4. ASSUME NEW m \in PathOf(pi, n + 1)' PROVE m \in P \cup {n}
      <4>1. PICK j \in 0 .. n, e \in 1 .. pi : OpenedBy(j, e)' /\ m \in FirstBase(j, n + 1)'  BY <3>3, <3>4
      <4>2. CASE j = k  BY <3>1, <4>1, <4>2
      <4>3. CASE j # k
        <5>1. m \in FirstBase(j, n) /\ OpenedBy(j, e) /\ j \in 0 .. n - 1  BY <1>26, <3>2, <4>1, <4>3
        <5>2. m \in 1 .. n - 1  BY <1>11, <5>1, FirstBaseBefore
        <5>3. QED  BY <1>28, <5>1, <5>2 DEF PathOf
      <4>4. QED  BY <4>2, <4>3
    <3>5. ASSUME NEW m \in P PROVE m \in PathOf(pi, n + 1)'
      <4>1. PICK j \in 0 .. n - 1, e \in 1 .. pi : OpenedBy(j, e) /\ m \in FirstBase(j, n)  BY <1>28, <3>5 DEF PathOf
      <4>2. m \in FirstBase(j, n + 1)'  BY <1>26, <3>1, <4>1
      <4>3. j \in 0 .. n /\ m \in 1 .. n  BY <1>11, <1>29, <3>5, <4>1
      <4>4. QED  BY <3>2, <3>3, <4>1, <4>2, <4>3
    <3>6. n \in PathOf(pi, n + 1)'
      <4>1. k \in 0 .. n /\ n \in 1 .. n /\ pi \in 1 .. pi  BY <1>11, <1>16, <1>19
      <4>2. QED  BY <2>1, <3>1, <3>2, <3>3, <4>1
    <3>7. PathOf(pi, n + 1)' = P \cup {n}  BY <3>4, <3>5, <3>6
    <3>8. InForce(PathOf(pi, n + 1))' = {m \in P \cup {n} : \A j \in P \cup {n} : j > m => mpd'[j].ref # "abs"}
      BY <3>7 DEF InForce
    <3>9. {m \in P \cup {n} : \A j \in P \cup {n} : j > m => mpd'[j].ref # "abs"} = ResolveURL(InForce(P), t.ref, n)
      <4>1. Follows(t, n) /\ P \subseteq 1 .. n - 1  BY <1>5, <1>29
      <4>2. QED  BY <4>1, ResolveIs, Zenon
    <3>10. InForce(PathOf(pi, n + 1))' = ResolveURL(InForce(P), t.ref, n)  BY <3>8, <3>9
    <3>11. QED  BY <1>3, <1>31, <1>32, <1>40, <2>4, <3>10
  <2>5. QED  BY <2>3, <2>4
<1>56. BaseSound(pi, k, n + 1)'
  <2>1. dash'.frames[pi] = g  BY <1>42, <1>44
  <2>2. QED  BY <1>27, <1>40, <1>55, <2>1 DEF BaseSound
<1>57. BasesSound(n + 1)'
  <2>1. SUFFICES ASSUME NEW d \in 1 .. top, NEW j \in 0 .. n, OpenedBy(j, d)' PROVE BaseSound(d, j, n + 1)'
    <3>1. (n + 1) - 1 = n  BY <1>11
    <3>2. QED  BY <1>45, <3>1 DEF BasesSound
  <2>2. OpenedBy(j, d) /\ j = fs[d].at  BY <1>8, <1>51, <2>1 DEF OpenedBy
  <2>3. CASE d = top  BY <1>17, <1>53, <2>2, <2>3
  <2>4. CASE d = pi  BY <1>18, <1>56, <2>2, <2>4
  <2>5. CASE d \in 1 .. pi - 1  BY <1>54, <2>2, <2>5
  <2>6. QED  BY <1>16, <2>3, <2>4, <2>5
<1>58. ReadSound(n + 1)'  BY <1>47, <1>48, <1>57 DEF ReadSound
<1>59. QED  BY <1>5, <1>35, <1>37, <1>44, <1>49, <1>58, TokenKeeps

\* The end of the document.
LEMMA EndOfMpdKeeps == ASSUME RewriteInv, EndOfMPD PROVE RewriteInv'
<1>1. dash.at = "read" /\ mpd' = mpd /\ UNCHANGED hlsVars  BY DEF EndOfMPD
<1>2. PICK x \in {"rewritten", "unchanged"} : dash' = [dash EXCEPT !.at = x]
  <2>1. CASE Top = 1  BY <2>1 DEF EndOfMPD
  <2>2. CASE Top # 1  BY <2>2 DEF EndOfMPD
  <2>3. QED  BY <2>1, <2>2
<1>3. dash \in DashRecords /\ mpd \in Seq(MpdTokens)  BY DEF RewriteInv, RewriteTypeOK, DashRecords
<1>4. dash' \in DashRecords /\ dash'.at = x /\ dash'.out = dash.out  BY <1>2, <1>3 DEF DashRecords
<1>5. /\ LinesSound' /\ HlsRouted' /\ playlist' \in Seq(Lines) /\ prebuffered' \subseteq 1 .. MaxLines
      /\ hls' \in [at : {"fetch", "lines", "done"}, next : 1 .. MaxLines + 1, variant : BOOLEAN, out : Seq(Endpoints)]
  BY <1>1, HlsAside
<1>6. RewriteTypeOK'  BY <1>1, <1>3, <1>4, <1>5 DEF RewriteTypeOK, DashRecords
<1>7. \A o : WellResolved(o)' <=> WellResolved(o)  BY <1>1, SameTokens
<1>8. DashResolved'  BY <1>4, <1>7 DEF RewriteInv, DashResolved
<1>9. dash'.at # "read"  BY <1>4
<1>10. MpdSound'  BY <1>1, <1>4, <1>9 DEF RewriteInv, MpdSound
<1>11. QED  BY <1>5, <1>6, <1>8, <1>10 DEF RewriteInv

LEMMA RewriteInitially == RewriteInit => RewriteInv
<1> SUFFICES ASSUME RewriteInit PROVE RewriteInv  OBVIOUS
<1>1. MaxLines \in Nat /\ MaxTokens \in Nat  BY RewriteAssumption
<1>2. playlist = <<>> /\ prebuffered = {} /\ hls = [at |-> "fetch", next |-> 1, variant |-> FALSE, out |-> <<>>] /\ mpd = <<>>
  BY DEF RewriteInit
<1>3. PICK fs : fs = <<Root>>  OBVIOUS
<1>4. dash = [at |-> "read", frames |-> fs, inBaseURL |-> FALSE, out |-> <<>>]  BY <1>3 DEF RewriteInit
<1>5. fs \in Seq(Frames) /\ Len(fs) = 1 /\ fs[1] = Root
  <2>1. Root \in Frames  BY <1>1 DEF Root, Frames
  <2>2. QED  BY <1>3, <2>1
<1>6. Root.at = 0 /\ Root.base = {} /\ Root.set = FALSE /\ Root.name = "doc"  BY DEF Root
<1>7. dash.at = "read" /\ dash.frames = fs /\ dash.inBaseURL = FALSE /\ dash.out = <<>>  BY <1>4
<1>8. RewriteTypeOK
  <2>1. hls \in [at : {"fetch", "lines", "done"}, next : 1 .. MaxLines + 1, variant : BOOLEAN, out : Seq(Endpoints)]
    BY <1>1, <1>2
  <2>2. dash \in DashRecords  BY <1>4, <1>5 DEF DashRecords
  <2>3. QED  BY <1>2, <2>1, <2>2 DEF RewriteTypeOK, DashRecords
<1>9. HlsRouted  BY <1>2 DEF HlsRouted
<1>10. LinesSound
  <2>1. ~IsVariant(1)  BY DEF IsVariant
  <2>2. hls.next = 1 /\ hls.variant = FALSE /\ hls.at = "fetch" /\ hls.out = <<>>  BY <1>2
  <2>3. Len(playlist) = 0 /\ Len(hls.out) = 0 /\ 1 .. 0 = {}  BY <1>2, <2>2
  <2>4. IsVariant(hls.next) <=> IsVariant(1)  BY <2>2
  <2>5. QED  BY <1>1, <2>1, <2>2, <2>3, <2>4 DEF LinesSound
<1>11. DashResolved /\ \A o \in {dash.out[i] : i \in 1 .. Len(dash.out)} : o.at \in 1 .. Len(mpd)
  <2>1. 1 .. Len(dash.out) = {}  BY <1>7
  <2>2. QED  BY <2>1 DEF DashResolved
<1>12. Top = 1  BY <1>5, <1>7 DEF Top
<1>13. FramesOpen(1)
  <2>1. Depth(1) = 0
    <3>1. {j \in 1 .. 1 - 1 : mpd[j].kind = "start"} = {} /\ {j \in 1 .. 1 - 1 : mpd[j].kind = "end"} = {}  OBVIOUS
    <3>2. Cardinality({}) = 0  BY FS_EmptySet
    <3>3. QED  BY <3>1, <3>2 DEF Depth
  <2>2. Enclosing(1) = {}  BY DEF Enclosing
  <2>3. QED  BY <1>5, <1>6, <1>7, <1>12, <2>1, <2>2 DEF FramesOpen, OpenedBy
<1>14. InnermostBase(1)  BY <1>5, <1>6, <1>7, <1>12 DEF InnermostBase, Waiting
<1>15. BasesSound(1)
  <2>1. \A k : BaseTexts(k, 1) = {}  BY DEF BaseTexts
  <2>2. PathOf(1, 1) = {} /\ InForce(PathOf(1, 1)) = {}  BY DEF PathOf, InForce
  <2>3. ASSUME NEW k PROVE BaseSound(1, k, 1)  BY <1>5, <1>6, <1>7, <2>1, <2>2 DEF BaseSound
  <2>4. QED  BY <1>12, <2>3 DEF BasesSound
<1>16. MpdSound
  <2>1. Len(mpd) = 0 /\ 1 \in 1 .. MaxTokens + 1 /\ 1 = 0 + 1 /\ 0 <= MaxTokens  BY <1>1, <1>2
  <2>2. QED  BY <1>11, <1>13, <1>14, <1>15, <2>1 DEF MpdSound, ReadSound
<1>17. QED  BY <1>8, <1>9, <1>10, <1>11, <1>16 DEF RewriteInv

LEMMA RewriteStep == RewriteInv /\ [RewriteNext]_rewriteVars => RewriteInv'
<1> SUFFICES ASSUME RewriteInv, [RewriteNext]_rewriteVars PROVE RewriteInv'  OBVIOUS
<1>1. CASE HlsNext  BY <1>1, FetchKeeps, PrefetchKeeps, LineKeeps, DoneKeeps DEF HlsNext
<1>2. CASE DashNext
  <2>1. CASE StartElement("el", "none") \/ StartElement("BaseURL", "none")  BY <2>1, StartKeeps
  <2>2. CASE \E r \in {"rel", "abs"} : StartElement("ref", r)  BY <2>2, StartKeeps
  <2>3. CASE \E m \in BOOLEAN : EndElement(m)  BY <2>3, EndKeeps
  <2>4. CASE \E r \in {"rel", "abs", "blank"} : CharData(r)
    <3>1. PICK r \in {"rel", "abs", "blank"} : CharData(r)  BY <2>4
    <3>2. CASE ~dash.inBaseURL \/ r = "blank"  BY <3>1, <3>2, TextPasses
    <3>3. CASE dash.inBaseURL /\ r # "blank"  BY <3>1, <3>3, BaseKeeps
    <3>4. QED  BY <3>2, <3>3
  <2>5. CASE EndOfMPD  BY <2>5, EndOfMpdKeeps
  <2>6. QED  BY <1>2, <2>1, <2>2, <2>3, <2>4, <2>5 DEF DashNext
<1>3. CASE UNCHANGED rewriteVars
  <2>1. UNCHANGED hlsVars /\ UNCHANGED dashVars  BY <1>3 DEF rewriteVars
  <2>2. MpdSound' /\ DashResolved'  BY <2>1, DashAside
  <2>3. /\ LinesSound' /\ HlsRouted' /\ playlist' \in Seq(Lines) /\ prebuffered' \subseteq 1 .. MaxLines
        /\ hls' \in [at : {"fetch", "lines", "done"}, next : 1 .. MaxLines + 1, variant : BOOLEAN, out : Seq(Endpoints)]
    BY <2>1, HlsAside
  <2>4. RewriteTypeOK'  BY <2>1, <2>3 DEF RewriteInv, RewriteTypeOK, dashVars
  <2>5. QED  BY <2>2, <2>3, <2>4 DEF RewriteInv
<1>4. QED  BY <1>1, <1>2, <1>3 DEF RewriteNext

\* The loops of hlsRewrite and dashRewrite keep in step with the document they go through:
\* the flag says whether the next URI is a variant's, the stack holds the open elements and
\* the base in effect in each.
THEOREM RewriteInvariant == RewriteSpec => []RewriteInv
<1>1. RewriteInit => RewriteInv  BY RewriteInitially
<1>2. RewriteInv /\ [RewriteNext]_rewriteVars => RewriteInv'  BY RewriteStep
<1>3. QED  BY <1>1, <1>2, PTL DEF RewriteSpec

\* For playlists and MPDs of any length and depth, every line is routed to the endpoint
\* that can serve it (hlsRewrite), the segments prefetched are the first the player asks
\* for (hlsSegmentURLs), and every URL is resolved against the base in effect where it
\* stands (dashRewrite).
THEOREM ManifestsStayRouted == RewriteSpec => []ManifestsRouted
<1>1. RewriteInv => ManifestsRouted  BY PrefetchRight DEF RewriteInv, ManifestsRouted
<1>2. QED  BY <1>1, RewriteInvariant, PTL

=============================================================================
