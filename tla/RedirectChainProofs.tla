------------------------ MODULE RedirectChainProofs ------------------------
(***************************************************************************)
(* Proofs about RedirectChain: for any set of URLs, requests, responses    *)
(* and grants and any limits, nothing secret leaves its place, a detour is *)
(* never forgotten, what the chain leaves in the stores is true, and the   *)
(* chain comes to its end.                                                 *)
(*                                                                         *)
(* The argument is about the chain as a value.  Between keeps together     *)
(* what is true of it between two hops, wherever it is kept (chain, from,  *)
(* later): where it has been and what its flags say of that.  AtUrl is     *)
(* what the checks of a hop add.                                           *)
(***************************************************************************)
EXTENDS RedirectChain, TLAPS

Sites == {"same-origin", "same-site", "cross-site"}

ChainType ==
    [url: Urls, method: Methods, secret: BOOLEAN, cookie: {"none", "caller", "jar"},
     asked: {None} \cup (Urls \X Methods), cookie_from_jar: BOOLEAN, url_list: Seq(Urls),
     referrer: Levels, policy: Policies, site: Sites, origin_tainted: BOOLEAN,
     tainting: {"basic", "cors", "opaque"}, redirects: 0..(MaxRedirects + 1)]

\* What the caller put in by hand is still at the host it named.
HomeBound(q, c) ==
    c.secret \/ c.cookie = "caller" =>
        c.url.host = q.url.host /\ (q.url.scheme = "https" => c.url.scheme = "https")

CorsModes == {"cors", "no-cors", "same-origin"}

\* Sec-Fetch-Site and the tainting know of u.
Shown(q, c, u) ==
    /\ Worse(c.site, classify_site(q.origin, u)) = c.site
    /\ c.tainting = "basic" /\ q.mode \in CorsModes => u = q.origin

\* Where the chain went after the URL i of its list.
After(c, i) == IF i = Len(c.url_list) THEN c.url ELSE c.url_list[i + 1]

\* Of an untainted chain: it was at home, or is still where it went first.
Stayed(q, c, i) ==
    /\ Moved(c.url_list[i], q.origin) \/ Moved(c.url_list[i], c.url)
    /\ c.url_list[i] = q.origin \/ Moved(c.url_list[i], After(c, i))

Visited(q, c) ==
    q.origin # None =>
        \A i \in 1..Len(c.url_list) :
            Shown(q, c, c.url_list[i]) /\ (~c.origin_tainted => Stayed(q, c, i))

Between(q, c) ==
    /\ c \in ChainType
    /\ HomeBound(q, c) /\ Visited(q, c)
    /\ c.cookie = "jar" => c.cookie_from_jar

AtUrl(q, c) == q.origin # None => Shown(q, c, c.url)

\* The jar's cookies fit the hop.
JarFits(q, c) ==
    c.cookie = "jar" => c.asked = <<c.url, c.method>> /\ attach_credentials(q, c)

Answers == [space: Spaces, secret: Passwords \cup {Raw}]
SlotType == [header: {None} \cup Answers, unproven: {None} \cup Answers, attempt: 0..MaxAuth]

Typed ==
    /\ req \in Requests
    /\ pc \in {"hop", "preflight", "plan", "send", "done"} /\ outcome \in Nat
    /\ resumed \in BOOLEAN
    /\ plan.revalidating \in BOOLEAN
    /\ creds \in [Spaces -> Passwords \cup {None}]

ChainsOK ==
    /\ Between(req, chain)
    /\ later # None => Between(req, later) /\ later.cookie # "jar"
    /\ pc \in {"preflight", "plan"} => Between(req, from) /\ from.cookie # "jar"

Staged ==
    /\ pc \in {"hop", "preflight", "plan"} => chain.cookie # "jar"
    /\ pc \in {"preflight", "plan", "send"} => AtUrl(req, chain) /\ chain.redirects <= MaxRedirects
    /\ outcome > 2 => AtUrl(req, chain)
    /\ pc # "done" => outcome = 0
    /\ pc = "send" => JarFits(req, chain)
    /\ resumed => later = None

GrantsOK ==
    /\ preflights \subseteq granted
    /\ pc \in {"plan", "send"} /\ NeedsPreflight(req, chain) => \E g \in granted : fits(g, req, chain)

SlotOK(s) == s \in SlotType /\ (s.unproven # None => s.header = s.unproven)

SlotsOK ==
    pc = "send" =>
        /\ SlotOK(slots.server) /\ SlotOK(slots.proxy)
        /\ slots.server.header # None => slots.server.header.space = chain.url
        /\ slots.proxy.header # None =>
              slots.proxy.header.space = Proxy /\ chain.url.scheme = "http" /\ chain.url \in Proxied

ChainInv == Typed /\ ChainsOK /\ Staged /\ GrantsOK /\ SlotsOK

-----------------------------------------------------------------------------
(* URLs and sites.                                                         *)

LEMMA Upgrades ==
    ASSUME NEW u \in Urls
    PROVE  /\ Upgrade(u) \in Urls /\ Upgrade(u).host = u.host /\ Upgrade(u).scheme = "https"
           /\ Upgrade(Upgrade(u)) = Upgrade(u) /\ Moved(u, u) /\ Moved(u, Upgrade(u))
           /\ \A v \in Urls : Moved(v, u) => Moved(v, Upgrade(u))
<1> USE ChainAssumption DEF ChainAssumption
<1>1. \A v \in Urls : v \in [scheme: {"http", "https"}, host: STRING, site: STRING]
  OBVIOUS
<1>2. \A v \in Urls : Upgrade(v) \in Urls /\ Upgrade(v).host = v.host /\ Upgrade(v).scheme = "https"
                      /\ Upgrade(v).site = v.site
  BY <1>1 DEF Upgrade
<1>3. \A v \in Urls : Upgrade(Upgrade(v)) = Upgrade(v)
  BY <1>1, <1>2 DEF Upgrade
<1> QED
  BY <1>2, <1>3 DEF Moved

LEMMA WorseIsWorst ==
    ASSUME NEW s \in Sites, NEW t \in Sites
    PROVE  /\ Worse(s, t) \in Sites /\ Worse(Worse(s, t), t) = Worse(s, t)
           /\ \A u \in Sites : Worse(s, u) = s => Worse(Worse(s, t), u) = Worse(s, t)
  BY DEF Worse, Sites

LEMMA SiteType == ASSUME NEW o, NEW u PROVE classify_site(o, u) \in Sites
  BY DEF classify_site, Sites

LEMMA RequestFields ==
    ASSUME NEW q \in Requests
    PROVE  /\ q.url \in Urls /\ q.method \in Methods /\ q.mode \in Modes /\ q.origin \in Urls \cup {None}
           /\ q.credentials \in {"include", "same-origin", "omit"} /\ q.secret \in BOOLEAN
           /\ q.cookie \in {"none", "caller"} /\ q.referrer \in Levels /\ q.policy \in Policies
<1>1. q \in RequestType
  BY ChainAssumption DEF ChainAssumption
<1> QED
  BY <1>1 DEF RequestType

\* Where the checks send a hop to.
LEMMA SecureUrl ==
    ASSUME NEW q \in Requests, NEW c \in ChainType, secure_url(q, c) # None
    PROVE  secure_url(q, c) \in {c.url, Upgrade(c.url)} /\ secure_url(q, c) \in Urls
<1>1. c.url \in Urls
  BY DEF ChainType
<1>2. apply_hsts(c.url) \in {c.url, Upgrade(c.url)} /\ apply_hsts(c.url) \in Urls
  BY <1>1, Upgrades DEF apply_hsts
<1>3. evaluate(q, apply_hsts(c.url)) \in {apply_hsts(c.url), Upgrade(apply_hsts(c.url)), None}
  BY DEF evaluate, evaluate_for
<1>4. Upgrade(apply_hsts(c.url)) \in {c.url, Upgrade(c.url)} /\ Upgrade(c.url) \in Urls
  BY <1>1, <1>2, Upgrades
<1> QED
  BY <1>1, <1>2, <1>3, <1>4 DEF secure_url

-----------------------------------------------------------------------------
(* The chain as a value.                                                   *)

LEMMA StartBetween ==
    ASSUME NEW q \in Requests
    PROVE  Between(q, start(q)) /\ start(q).cookie # "jar" /\ start(q).redirects = 0
<1> USE RequestFields, ChainAssumption DEF ChainAssumption
<1>1. start(q) \in ChainType
  BY DEF start, ChainType, Sites
<1>2. Len(start(q).url_list) = 0 /\ start(q).url = q.url /\ start(q).cookie = q.cookie
      /\ start(q).redirects = 0
  BY DEF start
<1> QED
  BY <1>1, <1>2 DEF Between, HomeBound, Visited

LEMMA NoCookieBetween ==
    ASSUME NEW q \in Requests, NEW c, Between(q, c)
    PROVE  Between(q, NoCookie(c)) /\ NoCookie(c).cookie # "jar" /\ NoCookie(c).redirects = c.redirects
<1>1. c \in ChainType
  BY DEF Between
<1>2. /\ NoCookie(c) \in ChainType /\ NoCookie(c).cookie = "none"
      /\ NoCookie(c).url = c.url /\ NoCookie(c).secret = c.secret /\ NoCookie(c).url_list = c.url_list
      /\ NoCookie(c).site = c.site /\ NoCookie(c).tainting = c.tainting
      /\ NoCookie(c).origin_tainted = c.origin_tainted /\ NoCookie(c).redirects = c.redirects
  BY <1>1 DEF NoCookie, ChainType
<1> QED
  BY <1>2 DEF Between, HomeBound, Visited, Shown, Stayed, After

\* What a hop's checks make of the chain: a new URL perhaps, and flags that know of it.
LEMMA EnteredChain ==
    ASSUME NEW q \in Requests, NEW c \in ChainType, Entered(q, c) # None
    PROVE  /\ Entered(q, c) = [c EXCEPT !.url = secure_url(q, c), !.tainting = Entered(q, c).tainting,
                                        !.referrer = set_referrer(q, c),
                                        !.site = set_fetch_metadata(q, c, secure_url(q, c))]
           /\ secure_url(q, c) # None
           /\ Entered(q, c).tainting = enter_cors_regime(q, [c EXCEPT !.url = secure_url(q, c)])
           /\ Entered(q, c).tainting \in {"basic", "cors", "opaque"} \ {None}
<1> DEFINE u == secure_url(q, c)
           t == enter_cors_regime(q, [c EXCEPT !.url = u])
<1>1. u # None /\ t # None
  BY DEF Entered
<1>2. Entered(q, c) = [c EXCEPT !.url = u, !.tainting = t, !.referrer = set_referrer(q, c),
                                !.site = set_fetch_metadata(q, c, u)]
  BY <1>1 DEF Entered
<1>3. Entered(q, c).tainting = t
  BY <1>2 DEF ChainType
<1>4. t \in {"basic", "cors", "opaque"}
  <2>1. [c EXCEPT !.url = u].tainting \in {"basic", "cors", "opaque"}
    BY DEF ChainType
  <2> QED
    BY <1>1, <2>1 DEF enter_cors_regime
<1> QED
  BY <1>1, <1>2, <1>3, <1>4

LEMMA ReferrerShrinks ==
    ASSUME NEW q \in Requests, NEW c \in ChainType
    PROVE  set_referrer(q, c) \in Levels /\ set_referrer(q, c) <= c.referrer
<1>1. c.referrer \in 0..2 /\ c.policy \in Policies
  BY DEF ChainType, Levels
<1>2. ASSUME NEW u, NEW v PROVE determine(c.policy, u, v) \in 0..2
  BY <1>1 DEF determine, Reveals, Policies
<1> QED
  BY <1>1, <1>2 DEF set_referrer, cut_down, Levels

LEMMA EnteredBetween ==
    ASSUME NEW q \in Requests, NEW c, Between(q, c), Entered(q, c) # None
    PROVE  /\ Between(q, Entered(q, c)) /\ AtUrl(q, Entered(q, c))
           /\ Entered(q, c).cookie = c.cookie /\ Entered(q, c).redirects = c.redirects
           /\ Entered(q, c).referrer <= c.referrer
<1>1. c \in ChainType
  BY DEF Between
<1>2. PICK u \in Urls : u = secure_url(q, c) /\ u \in {c.url, Upgrade(c.url)}
  BY <1>1, EnteredChain, SecureUrl
<1>3. PICK s \in Sites : s = set_fetch_metadata(q, c, u) /\ (q.origin # None => s = Worse(c.site, classify_site(q.origin, u)))
  <2>1. c.site \in Sites
    BY <1>1 DEF ChainType
  <2> QED
    BY <2>1, SiteType, WorseIsWorst DEF set_fetch_metadata
<1>4. PICK t \in {"basic", "cors", "opaque"} \ {None} : t = enter_cors_regime(q, [c EXCEPT !.url = u]) /\ t = Entered(q, c).tainting
  BY <1>1, <1>2, EnteredChain
<1>5. PICK x : x = Entered(q, c) /\ x = [c EXCEPT !.url = u, !.tainting = t, !.referrer = set_referrer(q, c), !.site = s]
  <2>1. Entered(q, c) = [c EXCEPT !.url = secure_url(q, c), !.tainting = Entered(q, c).tainting,
                                  !.referrer = set_referrer(q, c),
                                  !.site = set_fetch_metadata(q, c, secure_url(q, c))]
    BY <1>1, EnteredChain
  <2>2. Entered(q, c) = [c EXCEPT !.url = u, !.tainting = t, !.referrer = set_referrer(q, c), !.site = s]
    BY <1>2, <1>3, <1>4, <2>1, Zenon
  <2> QED
    BY <2>2, Zenon
<1>6. /\ x \in ChainType /\ x.url = u /\ x.tainting = t /\ x.site = s /\ x.referrer = set_referrer(q, c)
      /\ x.url_list = c.url_list /\ x.secret = c.secret /\ x.cookie = c.cookie
      /\ x.origin_tainted = c.origin_tainted /\ x.cookie_from_jar = c.cookie_from_jar /\ x.redirects = c.redirects
  <2>1. PICK n \in Levels : n = set_referrer(q, c)
    BY <1>1, ReferrerShrinks
  <2>2. x = [c EXCEPT !.url = u, !.tainting = t, !.referrer = n, !.site = s]
    BY <1>5, <2>1, Zenon
  <2> QED
    BY <1>1, <2>1, <2>2 DEF ChainType
<1>7. ASSUME q.origin # None, t = "basic", q.mode \in CorsModes
      PROVE  c.tainting = "basic" /\ u = q.origin
  <2>1. [c EXCEPT !.url = u].url = u /\ [c EXCEPT !.url = u].tainting = c.tainting
    BY <1>1 DEF ChainType
  <2>2. ~left(q, [c EXCEPT !.url = u])
    BY <1>4, <1>7 DEF enter_cors_regime, CorsModes
  <2> QED
    BY <1>4, <1>7, <2>1, <2>2 DEF enter_cors_regime, left
<1>8. HomeBound(q, x)
  BY <1>1, <1>2, <1>6, Upgrades DEF Between, HomeBound, ChainType
<1>9. AtUrl(q, x)
  <2>1. ASSUME q.origin # None PROVE Worse(s, classify_site(q.origin, u)) = s
    BY <1>1, <1>3, <2>1, SiteType, WorseIsWorst DEF ChainType
  <2> QED
    BY <1>6, <1>7, <2>1 DEF AtUrl, Shown
<1>10. Visited(q, x)
  <2> SUFFICES ASSUME q.origin # None, NEW i \in 1..Len(c.url_list)
               PROVE  Shown(q, x, c.url_list[i]) /\ (~c.origin_tainted => Stayed(q, x, i))
    BY <1>6 DEF Visited
  <2>1. Shown(q, c, c.url_list[i]) /\ (~c.origin_tainted => Stayed(q, c, i))
    BY DEF Between, Visited
  <2>2. Shown(q, x, c.url_list[i])
    BY <1>1, <1>3, <1>6, <1>7, <2>1, SiteType, WorseIsWorst DEF Shown, ChainType
  <2>3. c.url_list[i] \in Urls /\ c.url \in Urls
    BY <1>1 DEF ChainType
  <2>4. Moved(c.url_list[i], c.url) => Moved(c.url_list[i], u)
    BY <1>2, <2>3, Upgrades
  <2>5. ASSUME ~c.origin_tainted PROVE Stayed(q, x, i)
    BY <1>6, <2>1, <2>4, <2>5 DEF Stayed, After
  <2> QED
    BY <2>2, <2>5
<1> QED
  BY <1>1, <1>5, <1>6, <1>8, <1>9, <1>10, ReferrerShrinks DEF Between

LEMMA CookiesBetween ==
    ASSUME NEW q \in Requests, NEW c, NEW jar \in BOOLEAN, Between(q, c), AtUrl(q, c), c.cookie # "jar"
    PROVE  LET x == WithCookies(c, attach_credentials(q, c), jar)
           IN  /\ Between(q, x) /\ AtUrl(q, x) /\ JarFits(q, x)
               /\ x.redirects = c.redirects /\ x.referrer = c.referrer /\ x.url = c.url
               /\ x.method = c.method /\ x.secret = c.secret
               /\ x.tainting = c.tainting /\ x.origin_tainted = c.origin_tainted
<1> DEFINE a == attach_credentials(q, c)
<1>1. c \in ChainType
  BY DEF Between
<1>2. PICK x : x = WithCookies(c, a, jar)
  OBVIOUS
<1>3. CASE a /\ jar /\ c.cookie = "none"
  <2>1. x = [c EXCEPT !.cookie = "jar", !.asked = <<c.url, c.method>>, !.cookie_from_jar = TRUE]
    BY <1>2, <1>3 DEF WithCookies
  <2>2. /\ x \in ChainType /\ x.url = c.url /\ x.method = c.method /\ x.asked = <<c.url, c.method>>
        /\ x.cookie = "jar" /\ x.secret = c.secret /\ x.url_list = c.url_list
        /\ x.site = c.site /\ x.tainting = c.tainting
        /\ x.origin_tainted = c.origin_tainted /\ x.redirects = c.redirects /\ x.referrer = c.referrer
    BY <1>1, <2>1 DEF ChainType
  <2>3. x.cookie_from_jar
    <3>1. x.cookie_from_jar = TRUE
      BY <1>1, <2>1 DEF ChainType
    <3> QED
      BY <3>1
  <2>4. attach_credentials(q, x)
    BY <1>3, <2>2 DEF attach_credentials
  <2>5. Between(q, x) /\ AtUrl(q, x) /\ JarFits(q, x)
    BY <2>2, <2>3, <2>4 DEF Between, AtUrl, JarFits, HomeBound, Visited, Shown, Stayed, After
  <2> QED
    BY <1>2, <2>2, <2>5
<1>4. CASE ~(a /\ jar /\ c.cookie = "none")
  <2>1. x = c
    BY <1>2, <1>4 DEF WithCookies
  <2>2. JarFits(q, c)
    BY DEF JarFits
  <2> QED
    BY <1>2, <2>1, <2>2
<1> QED
  BY <1>3, <1>4

\* What a redirect leaves of the headers.
LEMMA Stripped ==
    ASSUME NEW c \in ChainType, NEW set, NEW abroad, c.cookie = "jar" => c.cookie_from_jar
    PROVE  LET d == strip(drop_cookie(c, set), abroad)
           IN  /\ d \in ChainType /\ d.cookie # "jar"
               /\ d.url = c.url /\ d.url_list = c.url_list /\ d.site = c.site /\ d.tainting = c.tainting
               /\ d.origin_tainted = c.origin_tainted /\ d.redirects = c.redirects
               /\ d.referrer = c.referrer /\ d.policy = c.policy /\ d.method = c.method
               /\ d.secret \/ d.cookie = "caller" => ~abroad /\ (c.secret \/ c.cookie = "caller")
<1>1. ASSUME NEW b \in ChainType
      PROVE  /\ NoCookie(b) \in ChainType /\ NoCookie(b).cookie = "none"
             /\ NoCookie(b).url = b.url /\ NoCookie(b).secret = b.secret /\ NoCookie(b).url_list = b.url_list
             /\ NoCookie(b).site = b.site /\ NoCookie(b).tainting = b.tainting
             /\ NoCookie(b).origin_tainted = b.origin_tainted /\ NoCookie(b).redirects = b.redirects
             /\ NoCookie(b).referrer = b.referrer /\ NoCookie(b).policy = b.policy /\ NoCookie(b).method = b.method
  BY DEF NoCookie, ChainType
<1>2. PICK e : e = drop_cookie(c, set)
  OBVIOUS
<1>3. /\ e \in ChainType /\ e.cookie # "jar"
      /\ e.url = c.url /\ e.url_list = c.url_list /\ e.site = c.site /\ e.tainting = c.tainting
      /\ e.origin_tainted = c.origin_tainted /\ e.redirects = c.redirects
      /\ e.referrer = c.referrer /\ e.policy = c.policy /\ e.method = c.method
      /\ e.secret = c.secret /\ (e.cookie = "caller" => c.cookie = "caller")
  BY <1>1, <1>2 DEF drop_cookie
<1>4. PICK d : d = strip(e, abroad)
  OBVIOUS
<1>5. CASE ~abroad
  BY <1>2, <1>3, <1>4, <1>5 DEF strip
<1>6. CASE abroad
  <2>1. d = [NoCookie(e) EXCEPT !.secret = FALSE]
    BY <1>4, <1>6 DEF strip
  <2>2. /\ d \in ChainType /\ d.cookie = "none"
        /\ d.url = e.url /\ d.url_list = e.url_list /\ d.site = e.site /\ d.tainting = e.tainting
        /\ d.origin_tainted = e.origin_tainted /\ d.redirects = e.redirects
        /\ d.referrer = e.referrer /\ d.policy = e.policy /\ d.method = e.method
    <3>1. PICK b \in ChainType :
             /\ b = NoCookie(e) /\ b.cookie = "none"
             /\ b.url = e.url /\ b.url_list = e.url_list /\ b.site = e.site /\ b.tainting = e.tainting
             /\ b.origin_tainted = e.origin_tainted /\ b.redirects = e.redirects
             /\ b.referrer = e.referrer /\ b.policy = e.policy /\ b.method = e.method
      BY <1>1, <1>3
    <3>2. d = [b EXCEPT !.secret = FALSE]
      BY <2>1, <3>1
    <3>3. /\ d \in ChainType /\ d.cookie = b.cookie
          /\ d.url = b.url /\ d.url_list = b.url_list /\ d.site = b.site /\ d.tainting = b.tainting
          /\ d.origin_tainted = b.origin_tainted /\ d.redirects = b.redirects
          /\ d.referrer = b.referrer /\ d.policy = b.policy /\ d.method = b.method
      BY <3>2 DEF ChainType
    <3> QED
      BY <3>1, <3>3
  <2>3. ~d.secret
    <3>1. NoCookie(e) \in ChainType
      BY <1>1, <1>3
    <3>2. d.secret = FALSE
      BY <2>1, <3>1 DEF ChainType
    <3> QED
      BY <3>2
  <2> QED
    BY <1>2, <1>3, <1>4, <2>2, <2>3
<1> QED
  BY <1>5, <1>6

LEMMA AppendUrl == ASSUME NEW l \in Seq(Urls), NEW u \in Urls PROVE Append(l, u) \in Seq(Urls)
  OBVIOUS

LEMMA FollowBetween ==
    ASSUME NEW q \in Requests, NEW c, NEW r, NEW attach, Between(q, c), AtUrl(q, c),
           c.redirects <= MaxRedirects, r.to \in Urls, r.head.policy \in Policies \cup {None}
    PROVE  LET x == follow_redirect(q, c, r, attach)
           IN  /\ Between(q, x) /\ x.cookie # "jar" /\ x.referrer = c.referrer
               /\ x.redirects = c.redirects + 1
<1> USE ChainAssumption DEF ChainAssumption
<1>1. c \in ChainType /\ c.url \in Urls /\ c.url_list \in Seq(Urls) /\ c.redirects \in 0..(MaxRedirects + 1)
  BY DEF Between, ChainType
<1>2. PICK abroad \in BOOLEAN : abroad = (c.url # r.to)
  OBVIOUS
<1>3. PICK d : d = strip(drop_cookie(c, attach /\ r.head.cookies), abroad)
  OBVIOUS
<1>4. /\ d \in ChainType /\ d.cookie # "jar"
      /\ d.url = c.url /\ d.url_list = c.url_list /\ d.site = c.site /\ d.tainting = c.tainting
      /\ d.origin_tainted = c.origin_tainted /\ d.redirects = c.redirects
      /\ d.referrer = c.referrer /\ d.policy = c.policy /\ d.method = c.method
      /\ d.secret \/ d.cookie = "caller" => ~abroad /\ (c.secret \/ c.cookie = "caller")
  <2>1. c.cookie = "jar" => c.cookie_from_jar
    BY DEF Between
  <2> QED
    BY <1>1, <1>3, <2>1, Stripped
<1>5. PICK p \in Policies : p = IF r.head.policy = None THEN d.policy ELSE r.head.policy
  BY <1>4 DEF ChainType
<1>6. PICK m \in Methods : m = IF to_get(r.status, d.method) THEN "GET" ELSE d.method
  BY <1>4 DEF ChainType, Methods
<1>7. PICK f \in BOOLEAN : f = (d.origin_tainted \/ (q.origin # None /\ abroad /\ q.origin # c.url))
  OBVIOUS
<1>8. PICK l \in Seq(Urls) : l = Append(c.url_list, c.url)
  BY <1>1, AppendUrl
<1>9. PICK n \in 0..(MaxRedirects + 1) : n = c.redirects + 1
  BY <1>1
<1>10. PICK x : x = follow_redirect(q, c, r, attach)
  OBVIOUS
<1>11. x = [d EXCEPT !.policy = p, !.method = m, !.origin_tainted = f, !.url_list = l, !.url = r.to,
                     !.redirects = n]
  BY <1>2, <1>3, <1>4, <1>5, <1>6, <1>7, <1>8, <1>9, <1>10, ZenonT(60) DEF follow_redirect, ChainType
<1>12. /\ x \in ChainType /\ x.cookie = d.cookie /\ x.referrer = c.referrer /\ x.redirects = n /\ x.url = r.to
       /\ x.origin_tainted = f /\ x.url_list = l /\ x.secret = d.secret /\ x.site = c.site
       /\ x.tainting = c.tainting
  BY <1>4, <1>11, ZenonT(60) DEF ChainType
<1>13. HomeBound(q, x)
  <2>1. HomeBound(q, c)
    BY DEF Between
  <2>2. ASSUME x.secret \/ x.cookie = "caller" PROVE x.url = c.url /\ (c.secret \/ c.cookie = "caller")
    <3>1. d.secret \/ d.cookie = "caller"
      BY <1>12, <2>2
    <3> QED
      BY <1>2, <1>4, <1>12, <3>1
  <2> QED
    BY <2>1, <2>2 DEF HomeBound
<1>14. /\ Len(l) = Len(c.url_list) + 1 /\ Len(c.url_list) \in Nat /\ l[Len(l)] = c.url
       /\ \A i \in 1..Len(c.url_list) : l[i] = c.url_list[i]
  BY <1>1, <1>8
<1>15. ASSUME q.origin # None, NEW i \in 1..Len(l)
       PROVE  Shown(q, x, l[i]) /\ (~f => Stayed(q, x, i))
  <2>1. CASE i = Len(l)
    <3>1. Shown(q, x, l[i])
      BY <1>12, <1>14, <1>15, <2>1 DEF AtUrl, Shown
    <3>2. ASSUME ~f PROVE Stayed(q, x, i)
      <4>1. c.url = q.origin \/ r.to = c.url
        BY <1>2, <1>7, <1>15, <3>2
      <4>2. Moved(c.url, c.url)
        BY DEF Moved
      <4> QED
        BY <1>12, <1>14, <2>1, <4>1, <4>2 DEF Stayed, After
    <3> QED
      BY <3>1, <3>2
  <2>2. CASE i # Len(l)
    <3>1. i \in 1..Len(c.url_list) /\ l[i] = c.url_list[i]
      BY <1>14, <2>2
    <3>2. Shown(q, c, c.url_list[i]) /\ (~c.origin_tainted => Stayed(q, c, i))
      BY <1>15, <3>1 DEF Between, Visited
    <3>3. Shown(q, x, l[i])
      BY <1>12, <3>1, <3>2 DEF Shown
    <3>4. ASSUME ~f PROVE Stayed(q, x, i)
      <4>1. ~c.origin_tainted /\ (c.url = q.origin \/ r.to = c.url)
        BY <1>2, <1>4, <1>7, <1>15, <3>4
      <4>2. After(x, i) = After(c, i)
        <5>1. After(x, i) = l[i + 1]
          BY <1>12, <1>14, <2>2 DEF After
        <5>2. CASE i = Len(c.url_list)
          BY <1>14, <5>1, <5>2 DEF After
        <5>3. CASE i # Len(c.url_list)
          <6>1. i + 1 \in 1..Len(c.url_list)
            BY <1>14, <3>1, <5>3
          <6> QED
            BY <1>14, <5>1, <5>3, <6>1 DEF After
        <5> QED
          BY <5>2, <5>3
      <4> QED
        BY <1>12, <3>1, <3>2, <4>1, <4>2 DEF Stayed
    <3> QED
      BY <3>3, <3>4
  <2> QED
    BY <2>1, <2>2
<1>16. Visited(q, x)
  BY <1>12, <1>15 DEF Visited
<1> QED
  BY <1>4, <1>9, <1>10, <1>12, <1>13, <1>16 DEF Between

-----------------------------------------------------------------------------
(* The steps of the chain.                                                 *)

\* What the lemmas need to know of a response.
Response(r) ==
    /\ r.status \in {200, 302, 303, 304, 307, 401, 407} /\ r.head.policy \in Policies \cup {None}
    /\ r.location \notin {"none", "bad"} => r.to \in Urls

LEMMA ResponsesAre == ASSUME NEW h \in Heads, NEW r \in Responses(h) PROVE Response(r)
<1>1. h.policy \in Policies \cup {None}
  BY ChainAssumption DEF ChainAssumption, HeadType
<1>2. r.head = h
  BY DEF Responses
<1>3. r.status \in {200, 302, 303, 304, 307, 401, 407} /\ (r.location \notin {"none", "bad"} => r.to \in Urls)
  BY DEF Responses, Redirections
<1> QED
  BY <1>1, <1>2, <1>3 DEF Response

LEMMA StoredAre == ASSUME NEW r \in Stored PROVE Response(r)
<1>1. PICK h \in Heads : r \in Responses(h)
  BY DEF Stored
<1> QED
  BY <1>1, ResponsesAre

LEMMA InitChain == Init => ChainInv
<1> SUFFICES ASSUME Init PROVE ChainInv
  OBVIOUS
<1> USE ChainAssumption DEF ChainAssumption
<1>1. req \in Requests /\ chain = start(req) /\ later = None /\ pc = "hop" /\ outcome = 0
      /\ preflights = Granted /\ granted = Granted /\ creds = Known
  BY DEF Init
<1>2. resumed \in BOOLEAN /\ ~resumed
  BY Zenon DEF Init
<1>3. plan.revalidating \in BOOLEAN
  <2>1. plan.revalidating = FALSE
    BY DEF Init, NoPlan
  <2> QED
    BY <2>1, Zenon
<1>4. Typed
  BY <1>1, <1>2, <1>3 DEF Typed
<1> QED
  BY <1>1, <1>2, <1>4, StartBetween DEF ChainInv, ChainsOK, Staged, GrantsOK, SlotsOK

\* Between two hops, and at the end.
LEMMA Rests ==
    ASSUME ChainInv, req' = req, resumed' \in BOOLEAN, plan' = NoPlan, pc' \in {"hop", "done"},
           outcome' \in Nat, outcome' > 2 => AtUrl(req, chain'), pc' = "hop" => outcome' = 0 /\ chain'.cookie # "jar",
           Between(req, chain'), later' # None => Between(req, later') /\ later'.cookie # "jar",
           resumed' => later' = None, preflights' \subseteq granted',
           creds' \in [Spaces -> Passwords \cup {None}]
    PROVE  ChainInv'
<1>1. plan'.revalidating \in BOOLEAN
  <2>1. plan'.revalidating = FALSE
    BY DEF NoPlan
  <2> QED
    BY <2>1, Zenon
<1>2. Typed'
  BY <1>1 DEF ChainInv, Typed
<1>3. ChainsOK'
  BY DEF ChainsOK
<1>4. Staged'
  BY DEF Staged
<1>5. GrantsOK' /\ SlotsOK'
  BY DEF GrantsOK, SlotsOK
<1> QED
  BY <1>2, <1>3, <1>4, <1>5 DEF ChainInv

\* What the inner part of an action that ends the chain, or takes it on, does.
LEMMA EndDoes ==
    ASSUME NEW status, NEW kept, End(status, kept)
    PROVE  /\ pc' = "done" /\ outcome' = status /\ plan' = NoPlan /\ slots' = NoSlots
           /\ preflights' \subseteq preflights /\ (kept = TRUE => preflights' = preflights)
  BY DEF End

LEMMA SettleDoes ==
    ASSUME ChainInv, NEW c, NEW r, NEW attach, Settle(c, r, attach), Response(r),
           Between(req, c), AtUrl(req, c), c.redirects <= MaxRedirects
    PROVE  /\ Between(req, chain') /\ chain'.referrer = c.referrer /\ plan' = NoPlan
           /\ preflights' = preflights
           /\ \/ pc' = "done" /\ chain' = c /\ outcome' \in {r.status, 2}
              \/ pc' = "hop" /\ chain'.cookie # "jar" /\ chain'.redirects = c.redirects + 1 /\ outcome' = outcome
<1>1. CASE r.location = "none"
  BY <1>1, EndDoes DEF Settle
<1>2. CASE r.location # "none" /\ RefusedLocation(req, c, r)
  BY <1>2, EndDoes DEF Settle
<1>3. CASE r.location # "none" /\ ~RefusedLocation(req, c, r)
  <2>1. /\ chain' = follow_redirect(req, c, r, attach) /\ pc' = "hop" /\ plan' = NoPlan
        /\ outcome' = outcome /\ preflights' = preflights
    BY <1>3 DEF Settle
  <2>2. r.to \in Urls /\ r.head.policy \in Policies \cup {None} /\ req \in Requests
    BY <1>3 DEF RefusedLocation, Response, ChainInv, Typed
  <2>3. /\ Between(req, chain') /\ chain'.cookie # "jar" /\ chain'.referrer = c.referrer
        /\ chain'.redirects = c.redirects + 1
    BY <2>1, <2>2, FollowBetween
  <2> QED
    BY <2>1, <2>3
<1> QED
  BY <1>1, <1>2, <1>3

\* A step that settles the hop keeps the invariant.
LEMMA SettleKeeps ==
    ASSUME ChainInv, pc \in {"plan", "send"},
           NEW c, NEW r, NEW attach, Settle(c, r, attach), Response(r),
           Between(req, c), AtUrl(req, c), c.redirects <= MaxRedirects,
           req' = req, resumed' = resumed, granted' = granted, creds' \in [Spaces -> Passwords \cup {None}],
           later' # None => Between(req, later') /\ later'.cookie # "jar", resumed => later' = None
    PROVE  ChainInv'
<1>1. /\ Between(req, chain') /\ plan' = NoPlan /\ preflights' = preflights
      /\ \/ pc' = "done" /\ chain' = c /\ outcome' \in {r.status, 2}
         \/ pc' = "hop" /\ chain'.cookie # "jar" /\ outcome' = outcome
  BY SettleDoes
<1>2. outcome = 0 /\ preflights \subseteq granted /\ resumed \in BOOLEAN
  BY DEF ChainInv, Staged, GrantsOK, Typed
<1>3. outcome' \in Nat /\ (outcome' > 2 => AtUrl(req, chain')) /\ (pc' = "hop" => outcome' = 0)
  BY <1>1, <1>2 DEF Response
<1> QED
  BY <1>1, <1>2, <1>3, Rests

LEMMA StepFail == ASSUME ChainInv, Fail PROVE ChainInv'
<1>1. /\ pc' = "done" /\ outcome' = 1 /\ plan' = NoPlan /\ preflights' \subseteq preflights
      /\ UNCHANGED <<req, chain, later, resumed, creds, granted>>
  BY EndDoes DEF Fail
<1>2. /\ Between(req, chain) /\ (later # None => Between(req, later) /\ later.cookie # "jar")
      /\ (resumed => later = None) /\ preflights \subseteq granted /\ resumed \in BOOLEAN
      /\ creds \in [Spaces -> Passwords \cup {None}]
  BY DEF ChainInv, ChainsOK, Staged, GrantsOK, Typed
<1> QED
  BY <1>1, <1>2, Rests

LEMMA StepHop == ASSUME ChainInv, Hop PROVE ChainInv'
<1> USE DEF ChainInv
<1>1. /\ pc = "hop" /\ chain.redirects <= MaxRedirects /\ from' = chain
      /\ UNCHANGED <<req, later, resumed, creds, granted>>
  BY DEF Hop
<1>2. /\ Between(req, chain) /\ (later # None => Between(req, later) /\ later.cookie # "jar")
      /\ (resumed => later = None) /\ preflights \subseteq granted /\ resumed \in BOOLEAN /\ req \in Requests
      /\ creds \in [Spaces -> Passwords \cup {None}] /\ chain.cookie # "jar" /\ outcome = 0
      /\ plan.revalidating \in BOOLEAN
  BY <1>1 DEF ChainsOK, Staged, GrantsOK, Typed
<1>3. CASE Entered(req, chain) = None
  <2>1. End(1, FALSE) /\ chain' = chain
    BY <1>3 DEF Hop
  <2>2. pc' = "done" /\ outcome' = 1 /\ plan' = NoPlan /\ preflights' \subseteq preflights
    BY <2>1, EndDoes
  <2> QED
    BY <1>1, <1>2, <2>1, <2>2, Rests
<1>4. CASE Entered(req, chain) # None
  <2>1. /\ chain' = Entered(req, chain) /\ UNCHANGED <<outcome, preflights>>
        /\ \/ pc' = "plan" /\ ~NeedsPreflight(req, chain') /\ UNCHANGED plan
           \/ pc' = "plan" /\ (\E g \in preflights : fits(g, req, chain')) /\ plan' = [NoPlan EXCEPT !.grant = GrantOf(chain')]
           \/ pc' = "preflight" /\ UNCHANGED plan
    BY <1>4 DEF Hop
  <2>2. /\ Between(req, chain') /\ AtUrl(req, chain') /\ chain'.cookie = chain.cookie
        /\ chain'.redirects = chain.redirects
    BY <1>2, <1>4, <2>1, EnteredBetween
  <2>3. plan'.revalidating \in BOOLEAN
    <3>1. plan' = plan \/ plan'.revalidating = FALSE
      BY <2>1 DEF NoPlan
    <3> QED
      BY <1>2, <3>1
  <2>4. Typed'
    BY <1>1, <1>2, <2>1, <2>3 DEF Typed
  <2>5. ChainsOK'
    BY <1>1, <1>2, <2>2 DEF ChainsOK
  <2>6. Staged'
    BY <1>1, <1>2, <2>1, <2>2 DEF Staged
  <2>7. GrantsOK' /\ SlotsOK'
    BY <1>1, <1>2, <2>1 DEF GrantsOK, SlotsOK
  <2> QED
    BY <2>4, <2>5, <2>6, <2>7
<1> QED
  BY <1>3, <1>4

LEMMA StepPreflight == ASSUME ChainInv, Preflight PROVE ChainInv'
<1> USE DEF ChainInv
<1>1. /\ pc = "preflight" /\ pc' = "plan"
      /\ UNCHANGED <<req, chain, from, later, resumed, slots, outcome, hsts, creds>>
  BY DEF Preflight
<1>2. PICK a \in Offers :
        LET include == req.credentials = "include"
            g == [origin |-> serialize_origin(chain), url |-> chain.url, include |-> include, allows |-> a]
        IN  /\ permits(a, chain, include)
            /\ granted' = granted \cup {g}
            /\ preflights' = {g} \cup {x \in preflights : x.origin # g.origin \/ x.url # g.url \/ x.include # include}
            /\ plan' = [NoPlan EXCEPT !.grant = GrantOf(chain)]
  BY DEF Preflight
<1>3. PICK g : g = [origin |-> serialize_origin(chain), url |-> chain.url,
                    include |-> req.credentials = "include", allows |-> a]
  OBVIOUS
<1>4. /\ fits(g, req, chain) /\ granted' = granted \cup {g} /\ preflights' \subseteq preflights \cup {g}
      /\ plan' = [NoPlan EXCEPT !.grant = GrantOf(chain)]
  BY <1>2, <1>3 DEF fits
<1>5. plan'.revalidating \in BOOLEAN
  <2>1. plan'.revalidating = FALSE
    BY <1>4 DEF NoPlan
  <2> QED
    BY <2>1, Zenon
<1>6. Typed'
  BY <1>1, <1>5 DEF Typed
<1>7. ChainsOK' /\ Staged'
  BY <1>1 DEF ChainsOK, Staged
<1>8. GrantsOK' /\ SlotsOK'
  BY <1>1, <1>4 DEF GrantsOK, SlotsOK
<1> QED
  BY <1>6, <1>7, <1>8

LEMMA StepHit == ASSUME ChainInv, NEW r \in Stored, Hit(r) PROVE ChainInv'
<1> USE DEF ChainInv
<1>1. pc = "plan" /\ ~resumed /\ UNCHANGED <<req, resumed, creds, granted>>
  BY DEF Hit
<1>2. PICK jar \in BOOLEAN, stale \in BOOLEAN :
        LET attach == attach_credentials(req, chain)
            c      == WithCookies(chain, attach, jar)
        IN  IF chain.tainting = "cors" /\ ~cors_check(req, chain, r.head)
              THEN End(1, FALSE) /\ chain' = c /\ UNCHANGED later
              ELSE /\ Settle(c, r, attach)
                   /\ later' = IF stale THEN revalidation(from) ELSE later
  BY DEF Hit
<1>3. /\ Between(req, chain) /\ AtUrl(req, chain) /\ chain.redirects <= MaxRedirects /\ chain.cookie # "jar"
      /\ (later # None => Between(req, later) /\ later.cookie # "jar") /\ Between(req, from)
      /\ resumed \in BOOLEAN /\ req \in Requests
      /\ preflights \subseteq granted /\ creds \in [Spaces -> Passwords \cup {None}]
  BY <1>1 DEF ChainsOK, Staged, GrantsOK, Typed
<1>4. PICK attach, c : attach = attach_credentials(req, chain) /\ c = WithCookies(chain, attach, jar)
  OBVIOUS
<1>5. Between(req, c) /\ AtUrl(req, c) /\ c.redirects = chain.redirects
  BY <1>3, <1>4, CookiesBetween
<1>6. CASE End(1, FALSE) /\ chain' = c /\ UNCHANGED later
  <2>1. pc' = "done" /\ outcome' = 1 /\ plan' = NoPlan /\ preflights' \subseteq preflights
    BY <1>6, EndDoes
  <2> QED
    BY <1>1, <1>3, <1>5, <1>6, <2>1, Rests
<1>7. CASE Settle(c, r, attach) /\ later' = IF stale THEN revalidation(from) ELSE later
  <2>1. later' # None => Between(req, later') /\ later'.cookie # "jar"
    BY <1>3, <1>7, NoCookieBetween DEF revalidation
  <2>2. Response(r)
    BY StoredAre
  <2> QED
    BY <1>1, <1>3, <1>5, <1>7, <2>1, <2>2, SettleKeeps
<1> QED
  BY <1>2, <1>4, <1>6, <1>7

LEMMA StepSend == ASSUME ChainInv, Send PROVE ChainInv'
<1> USE DEF ChainInv
<1>1. /\ pc = "plan" /\ pc' = "send"
      /\ UNCHANGED <<req, later, resumed, outcome, hsts, creds, preflights, granted>>
  BY DEF Send
<1>2. /\ Between(req, chain) /\ AtUrl(req, chain) /\ chain.redirects <= MaxRedirects /\ chain.cookie # "jar"
      /\ req \in Requests /\ creds \in [Spaces -> Passwords \cup {None}] /\ outcome = 0
  BY <1>1 DEF ChainsOK, Staged, Typed
<1>3. PICK jar \in BOOLEAN : chain' = WithCookies(chain, attach_credentials(req, chain), jar)
  BY DEF Send
<1>4. /\ Between(req, chain') /\ AtUrl(req, chain') /\ JarFits(req, chain') /\ chain'.redirects = chain.redirects
      /\ chain'.url = chain.url /\ chain'.method = chain.method /\ chain'.secret = chain.secret
      /\ chain'.tainting = chain.tainting /\ chain'.origin_tainted = chain.origin_tainted
  BY <1>2, <1>3, CookiesBetween
<1>5. plan'.revalidating \in BOOLEAN
  <2>1. PICK b \in BOOLEAN : plan' = [plan EXCEPT !.attach = attach_credentials(req, chain), !.revalidating = b]
    BY DEF Send
  <2> QED
    BY <2>1 DEF Typed
<1>6. \/ slots' = NoSlots
      \/ creds[chain.url] # None /\ slots' = [NoSlots EXCEPT !.server.header = [space |-> chain.url, secret |-> creds[chain.url]]]
  BY DEF Send
<1>7. SlotsOK'
  <2>1. chain.url \in Spaces
    BY <1>2 DEF Between, ChainType, Spaces
  <2>2. slots'.proxy = NoSlot /\ slots'.server.unproven = None /\ slots'.server.attempt = 0
    BY <1>6 DEF NoSlots, NoSlot
  <2>3. \/ slots'.server = NoSlot
        \/ slots'.server = [NoSlot EXCEPT !.header = [space |-> chain.url, secret |-> creds[chain.url]]]
           /\ creds[chain.url] \in Passwords
    BY <1>2, <1>6, <2>1 DEF NoSlots
  <2>4. slots'.server.header = None \/ (slots'.server.header \in Answers /\ slots'.server.header.space = chain.url)
    BY <2>1, <2>3 DEF NoSlot, Answers
  <2>5. SlotOK(NoSlot) /\ NoSlot.header = None
    BY ChainAssumption DEF ChainAssumption, SlotOK, NoSlot, SlotType
  <2>6. SlotOK(slots'.server)
    BY <2>1, <2>3, <2>5, ChainAssumption DEF ChainAssumption, SlotOK, SlotType, NoSlot, Answers
  <2> QED
    BY <1>4, <2>2, <2>4, <2>5, <2>6 DEF SlotsOK
<1>8. Typed'
  BY <1>1, <1>5 DEF Typed
<1>9. ChainsOK' /\ Staged'
  BY <1>1, <1>2, <1>4 DEF ChainsOK, Staged
<1>10. GrantsOK'
  BY <1>1, <1>4 DEF GrantsOK, NeedsPreflight, fits, permits, serialize_origin
<1> QED
  BY <1>7, <1>8, <1>9, <1>10

LEMMA AcceptedType ==
    ASSUME NEW store \in [Spaces -> Passwords \cup {None}], NEW slot, SlotOK(slot)
    PROVE  accepted(store, slot) \in [Spaces -> Passwords \cup {None}]
<1>1. CASE slot.unproven = None \/ ~Kept(slot.unproven)
  BY <1>1 DEF accepted
<1>2. CASE slot.unproven # None /\ Kept(slot.unproven)
  <2>1. slot.unproven.space \in Spaces /\ slot.unproven.secret \in Passwords
    BY <1>2 DEF SlotOK, SlotType, Answers, Kept
  <2>2. accepted(store, slot) = [store EXCEPT ![slot.unproven.space] = slot.unproven.secret]
    BY <1>2 DEF accepted
  <2> QED
    BY <2>1, <2>2
<1> QED
  BY <1>1, <1>2

LEMMA StepBlocked == ASSUME ChainInv, NEW r, ReceiveBlocked(r) PROVE ChainInv'
<1>1. End(1, FALSE) /\ UNCHANGED <<req, chain, later, resumed, creds, granted>>
  BY DEF ReceiveBlocked
<1>2. pc' = "done" /\ outcome' = 1 /\ plan' = NoPlan /\ preflights' \subseteq preflights
  BY <1>1, EndDoes
<1>3. /\ Between(req, chain) /\ (later # None => Between(req, later) /\ later.cookie # "jar")
      /\ (resumed => later = None) /\ preflights \subseteq granted /\ resumed \in BOOLEAN
      /\ creds \in [Spaces -> Passwords \cup {None}]
  BY DEF ChainInv, ChainsOK, Staged, GrantsOK, Typed
<1> QED
  BY <1>1, <1>2, <1>3, Rests

LEMMA StepContradicted == ASSUME ChainInv, NEW r, Contradicted(r) PROVE ChainInv'
<1>1. /\ pc = "send" /\ plan' = [plan EXCEPT !.revalidating = FALSE, !.grant = None]
      /\ UNCHANGED <<req, chain, from, later, resumed, pc, slots, outcome, creds, preflights, granted>>
  BY DEF Contradicted
<1>2. plan'.revalidating \in BOOLEAN
  BY <1>1 DEF ChainInv, Typed
<1> QED
  BY <1>1, <1>2 DEF ChainInv, Typed, ChainsOK, Staged, GrantsOK, SlotsOK

LEMMA StepValidated ==
    ASSUME ChainInv, NEW r, NEW e \in Stored, Validated(r, e) PROVE ChainInv'
<1>1. pc = "send" /\ Settle(chain, e, plan.attach) /\ UNCHANGED <<req, later, resumed, creds, granted>>
  BY DEF Validated
<1>2. /\ Between(req, chain) /\ AtUrl(req, chain) /\ chain.redirects <= MaxRedirects
      /\ (later # None => Between(req, later) /\ later.cookie # "jar") /\ (resumed => later = None)
      /\ creds \in [Spaces -> Passwords \cup {None}]
  BY <1>1 DEF ChainInv, ChainsOK, Staged, Typed
<1>3. Response(e)
  BY StoredAre
<1> QED
  BY <1>1, <1>2, <1>3, SettleKeeps

LEMMA StepFinal == ASSUME ChainInv, NEW r, Response(r), Final(r) PROVE ChainInv'
<1>1. /\ pc = "send" /\ Settle(chain, r, plan.attach) /\ UNCHANGED <<req, later, resumed, granted>>
      /\ creds' = accepted(accepted(creds, slots.server), slots.proxy)
  BY DEF Final
<1>2. /\ Between(req, chain) /\ AtUrl(req, chain) /\ chain.redirects <= MaxRedirects
      /\ (later # None => Between(req, later) /\ later.cookie # "jar") /\ (resumed => later = None)
      /\ creds \in [Spaces -> Passwords \cup {None}]
      /\ SlotOK(slots.server) /\ SlotOK(slots.proxy)
  BY <1>1 DEF ChainInv, ChainsOK, Staged, Typed, SlotsOK
<1>3. creds' \in [Spaces -> Passwords \cup {None}]
  BY <1>1, <1>2, AcceptedType
<1> QED
  BY <1>1, <1>2, <1>3, SettleKeeps

\* What a challenge does to the slots and the store: the party that asked is answered, or
\* the chain ends with the challenge.
Forgotten(r, tried) ==
    IF tried /\ slots[Asker(r)].unproven # None /\ Kept(slots[Asker(r)].unproven)
      THEN [believed(r) EXCEPT ![slots[Asker(r)].unproven.space] = None] ELSE believed(r)

Answering(r) ==
    /\ slots[Asker(r)].attempt < MaxAuth /\ may_answer(r)
    /\ \E x \in {Raw} \cup Passwords :
          /\ slots'[Asker(r)] = answered(slots[Asker(r)], SpaceOf(r), x)
          /\ r.status = 401 => slots'["proxy"] = [slots.proxy EXCEPT !.unproven = None]
          /\ r.status = 407 => slots'["server"] = slots.server
    /\ plan' = [plan EXCEPT !.grant = None]
    /\ UNCHANGED <<pc, outcome, preflights>>

Quits(r) == End(r.status, TRUE)

LEMMA ChallengeDoes ==
    ASSUME ChainInv, NEW r, Challenged(r)
    PROVE  /\ pc = "send" /\ r.status \in {401, 407} /\ UNCHANGED <<req, chain, from, later, resumed, granted>>
           /\ \E tried \in BOOLEAN : creds' = Forgotten(r, tried)
           /\ creds' \in [Spaces -> Passwords \cup {None}]
           /\ Answering(r) \/ Quits(r)
<1>1. /\ pc = "send" /\ r.status \in {401, 407} /\ UNCHANGED <<req, from, later, resumed, granted>>
  BY DEF Challenged
<1>2. PICK tried \in BOOLEAN : tried = (may_answer(r) /\ slots[Asker(r)].attempt < MaxAuth)
  OBVIOUS
<1>3. creds' = Forgotten(r, tried)
  BY <1>2 DEF Challenged, Forgotten
<1>4. SlotOK(slots.server) /\ SlotOK(slots.proxy) /\ creds \in [Spaces -> Passwords \cup {None}]
  BY <1>1 DEF ChainInv, SlotsOK, Typed
<1>5. believed(r) \in [Spaces -> Passwords \cup {None}]
  BY <1>4, AcceptedType DEF believed
<1>6. creds' \in [Spaces -> Passwords \cup {None}]
  <2>1. SlotOK(slots[Asker(r)])
    BY <1>4 DEF Asker
  <2>2. slots[Asker(r)].unproven # None => slots[Asker(r)].unproven.space \in Spaces
    BY <2>1 DEF SlotOK, SlotType, Answers
  <2> QED
    BY <1>3, <1>5, <2>2 DEF Forgotten
<1>7. CASE Quits(r) /\ chain' = chain
  BY <1>1, <1>3, <1>6, <1>7
<1>8. CASE ~(Quits(r) /\ chain' = chain)
  <2> DEFINE Other == IF r.status = 401 THEN [slots.proxy EXCEPT !.unproven = None] ELSE slots.server
  <2>1. /\ tried /\ plan' = [plan EXCEPT !.grant = None] /\ UNCHANGED <<pc, chain, outcome, preflights>>
        /\ \E x \in {Raw} \cup (IF Forgotten(r, tried)[SpaceOf(r)] # None THEN {Forgotten(r, tried)[SpaceOf(r)]} ELSE Passwords) :
              slots' = [w \in {"server", "proxy"} |->
                          IF w = Asker(r) THEN answered(slots[Asker(r)], SpaceOf(r), x) ELSE Other]
    BY <1>2, <1>8 DEF Challenged, Forgotten, Quits
  <2>2. SpaceOf(r) \in Spaces
    BY DEF SpaceOf, Spaces, ChainInv, ChainsOK, Between, ChainType
  <2>9. Forgotten(r, tried)[SpaceOf(r)] \in Passwords \cup {None}
    BY <1>3, <1>6, <2>2
  <2>3. PICK x \in {Raw} \cup Passwords :
          slots' = [w \in {"server", "proxy"} |->
                          IF w = Asker(r) THEN answered(slots[Asker(r)], SpaceOf(r), x) ELSE Other]
    <3> HIDE DEF Other
    <3>1. PICK x \in {Raw} \cup (IF Forgotten(r, tried)[SpaceOf(r)] # None
                                  THEN {Forgotten(r, tried)[SpaceOf(r)]} ELSE Passwords) :
            slots' = [w \in {"server", "proxy"} |->
                          IF w = Asker(r) THEN answered(slots[Asker(r)], SpaceOf(r), x) ELSE Other]
      BY <2>1, Zenon
    <3>2. x \in {Raw} \cup Passwords
      BY <2>9
    <3> QED
      BY <3>1, <3>2, Zenon
  <2>4. /\ slots'[Asker(r)] = answered(slots[Asker(r)], SpaceOf(r), x)
        /\ r.status = 401 => slots'["proxy"] = [slots.proxy EXCEPT !.unproven = None]
        /\ r.status = 407 => slots'["server"] = slots.server
    BY <2>3 DEF Asker
  <2>5. Answering(r)
    BY <1>2, <2>1, <2>4 DEF Answering
  <2> QED
    BY <1>1, <1>3, <1>6, <2>1, <2>5
<1> QED
  BY <1>7, <1>8

LEMMA AnsweredOK ==
    ASSUME NEW slot, SlotOK(slot), slot.attempt < MaxAuth, NEW space \in Spaces, NEW x \in {Raw} \cup Passwords
    PROVE  /\ SlotOK(answered(slot, space, x)) /\ answered(slot, space, x).header.space = space
           /\ answered(slot, space, x).attempt = slot.attempt + 1
<1>1. MaxAuth \in Nat
  BY ChainAssumption DEF ChainAssumption
<1>2. slot.attempt + 1 \in 0..MaxAuth
  BY <1>1 DEF SlotOK, SlotType
<1>3. [space |-> space, secret |-> x] \in Answers
  BY DEF Answers
<1> QED
  BY <1>2, <1>3 DEF SlotOK, SlotType, answered

LEMMA StepChallenged == ASSUME ChainInv, NEW r, Challenged(r) PROVE ChainInv'
<1>1. /\ pc = "send" /\ r.status \in {401, 407} /\ UNCHANGED <<req, chain, from, later, resumed, granted>>
      /\ creds' \in [Spaces -> Passwords \cup {None}]
  BY ChallengeDoes
<1>2. /\ Between(req, chain) /\ AtUrl(req, chain) /\ (later # None => Between(req, later) /\ later.cookie # "jar")
      /\ (resumed => later = None) /\ resumed \in BOOLEAN /\ preflights \subseteq granted
  BY <1>1 DEF ChainInv, ChainsOK, Staged, Typed, GrantsOK
<1>3. CASE Quits(r)
  <2>1. pc' = "done" /\ outcome' = r.status /\ plan' = NoPlan /\ preflights' \subseteq preflights
    BY <1>3, EndDoes DEF Quits
  <2> QED
    BY <1>1, <1>2, <2>1, Rests
<1>4. CASE Answering(r)
  <2>1. /\ slots[Asker(r)].attempt < MaxAuth /\ may_answer(r)
        /\ plan' = [plan EXCEPT !.grant = None] /\ UNCHANGED <<pc, outcome, preflights>>
    BY <1>4 DEF Answering
  <2>2. PICK x \in {Raw} \cup Passwords :
          /\ slots'[Asker(r)] = answered(slots[Asker(r)], SpaceOf(r), x)
          /\ r.status = 401 => slots'["proxy"] = [slots.proxy EXCEPT !.unproven = None]
          /\ r.status = 407 => slots'["server"] = slots.server
    BY <1>4 DEF Answering
  <2>3. /\ SlotOK(slots.server) /\ SlotOK(slots.proxy)
        /\ slots.server.header # None => slots.server.header.space = chain.url
        /\ slots.proxy.header # None =>
              slots.proxy.header.space = Proxy /\ chain.url.scheme = "http" /\ chain.url \in Proxied
    BY <1>1 DEF ChainInv, SlotsOK
  <2>4. chain.url \in Spaces /\ Proxy \in Spaces
    BY <1>2 DEF Between, ChainType, Spaces
  <2>5. SlotsOK'
    <3>1. CASE r.status = 401
      <4>1. slots'.server = answered(slots.server, chain.url, x) /\ slots.server.attempt < MaxAuth
        BY <2>1, <2>2, <3>1 DEF Asker, SpaceOf
      <4>2. SlotOK(slots'.server) /\ slots'.server.header.space = chain.url
        BY <2>3, <2>4, <4>1, AnsweredOK
      <4>3. slots'.proxy = [slots.proxy EXCEPT !.unproven = None]
        BY <2>2, <3>1
      <4>4. SlotOK(slots'.proxy) /\ slots'.proxy.header = slots.proxy.header
        BY <2>3, <4>3 DEF SlotOK, SlotType
      <4> QED
        BY <1>1, <2>3, <4>2, <4>4 DEF SlotsOK
    <3>2. CASE r.status = 407
      <4>1. slots'.proxy = answered(slots.proxy, Proxy, x) /\ slots.proxy.attempt < MaxAuth
        BY <2>1, <2>2, <3>2 DEF Asker, SpaceOf
      <4>2. SlotOK(slots'.proxy) /\ slots'.proxy.header.space = Proxy
        BY <2>3, <2>4, <4>1, AnsweredOK
      <4>3. slots'.server = slots.server
        BY <2>2, <3>2
      <4>4. chain.url.scheme = "http" /\ chain.url \in Proxied
        BY <2>1, <3>2 DEF may_answer, challenge_proxy
      <4> QED
        BY <1>1, <2>3, <4>2, <4>3, <4>4 DEF SlotsOK
    <3> QED
      BY <1>1, <3>1, <3>2
  <2>6. plan'.revalidating \in BOOLEAN
    BY <2>1 DEF ChainInv, Typed
  <2>7. Typed'
    BY <1>1, <2>1, <2>6 DEF ChainInv, Typed
  <2> QED
    BY <1>1, <2>1, <2>5, <2>7 DEF ChainInv, ChainsOK, Staged, GrantsOK
<1>5. Answering(r) \/ Quits(r)
  BY ChallengeDoes
<1> QED
  BY <1>3, <1>4, <1>5

LEMMA StepResume == ASSUME ChainInv, Resume PROVE ChainInv'
<1>1. /\ pc = "done" /\ later # None /\ chain' = later /\ later' = None /\ pc' = "hop" /\ outcome' = 0
      /\ UNCHANGED <<req, plan, slots, hsts, creds, preflights, granted>>
  BY DEF Resume
<1>2. resumed' \in BOOLEAN
  BY Zenon DEF Resume
<1>3. Between(req, later) /\ later.cookie # "jar" /\ preflights \subseteq granted
  BY <1>1 DEF ChainInv, ChainsOK, GrantsOK
<1>4. Typed'
  BY <1>1, <1>2 DEF ChainInv, Typed
<1> QED
  BY <1>1, <1>3, <1>4 DEF ChainInv, ChainsOK, Staged, GrantsOK, SlotsOK

LEMMA StepChain == ChainInv /\ [Step]_vars => ChainInv'
<1> SUFFICES ASSUME ChainInv, [Step]_vars PROVE ChainInv'
  OBVIOUS
<1>1. CASE Hop
  BY <1>1, StepHop
<1>2. CASE HopRefused \/ TooManyRedirects \/ PreflightRefused \/ NotCached \/ SendFails
  BY <1>2, StepFail DEF HopRefused, TooManyRedirects, PreflightRefused, NotCached, SendFails
<1>3. CASE Preflight
  BY <1>3, StepPreflight
<1>4. CASE Send
  BY <1>4, StepSend
<1>5. CASE Resume
  BY <1>5, StepResume
<1>6. ASSUME NEW r \in Stored, Hit(r) PROVE ChainInv'
  BY <1>6, StepHit
<1>7. ASSUME NEW h \in Heads, NEW r \in Responses(h), Receive(r) PROVE ChainInv'
  <2>1. Response(r)
    BY ResponsesAre
  <2>2. ASSUME NEW e \in Stored, Validated(r, e) PROVE ChainInv'
    BY <2>2, StepValidated
  <2> QED
    BY <1>7, <2>1, <2>2, StepBlocked, StepContradicted, StepFinal, StepChallenged DEF Receive
<1>8. CASE UNCHANGED vars
  BY <1>8 DEF vars, ChainInv, Typed, ChainsOK, Staged, GrantsOK, SlotsOK
<1> QED
  BY <1>1, <1>2, <1>3, <1>4, <1>5, <1>6, <1>7, <1>8 DEF Step

LEMMA ChainInvariant == Spec => []ChainInv
  BY InitChain, StepChain, PTL DEF Spec

-----------------------------------------------------------------------------
(* What the invariant gives.                                               *)

\* Over every redirect, upgrade and challenge, there and back, also when a revalidation takes
\* the chain up again: what the caller set by hand reaches only the host it named, an answer
\* to a challenge only the party that asked, and the jar's cookies are those of the hop and
\* withheld from a chain that has been elsewhere (follow_redirect, attach_credentials,
\* challenge_proxy).
THEOREM NothingSecretLeaks == Spec => []SecretsStayHome
<1>1. ASSUME ChainInv PROVE SecretsStayHome
  <2>1. CredentialsStayHome
    BY <1>1 DEF ChainInv, ChainsOK, Between, HomeBound, SlotsOK, CredentialsStayHome, Sending
  <2>2. CookiesFitHop
    <3> SUFFICES ASSUME Sending, chain.cookie = "jar"
                 PROVE  /\ chain.asked = <<chain.url, chain.method>> /\ req.credentials # "omit"
                        /\ req.credentials = "same-origin" /\ req.origin # None =>
                              \A i \in 1..Len(Path) : Moved(Path[i], req.origin)
      BY DEF CookiesFitHop
    <3>1. chain.asked = <<chain.url, chain.method>> /\ attach_credentials(req, chain)
      BY <1>1 DEF Sending, ChainInv, Staged, JarFits
    <3>2. ASSUME req.credentials = "same-origin", req.origin # None, NEW i \in 1..Len(Path)
          PROVE  Moved(Path[i], req.origin)
      <4>1. ~chain.origin_tainted /\ req.origin = chain.url
        BY <3>1, <3>2 DEF attach_credentials
      <4>2. chain.url_list \in Seq(Urls)
        BY <1>1 DEF ChainInv, ChainsOK, Between, ChainType
      <4>3. Path[i] = chain.url \/ (i \in 1..Len(chain.url_list) /\ Path[i] = chain.url_list[i])
        BY <4>2 DEF Path
      <4>4. \A j \in 1..Len(chain.url_list) : Moved(chain.url_list[j], req.origin)
        BY <1>1, <3>2, <4>1 DEF ChainInv, ChainsOK, Between, Visited, Stayed
      <4> QED
        BY <4>1, <4>3, <4>4 DEF Moved
    <3> QED
      BY <3>1, <3>2 DEF attach_credentials
  <2> QED
    BY <2>1, <2>2 DEF SecretsStayHome
<1> QED
  BY ChainInvariant, <1>1, PTL

\* Over any detour: a basic answer never left the initiating origin, Sec-Fetch-Site tells of
\* the farthest the chain has been, Origin is not revealed after a redirect from one foreign
\* origin to another, and what markup could not ask for is sent abroad only with a grant
\* (enter_cors_regime, set_fetch_metadata, follow_redirect, preflight).
THEOREM DetoursAreKept == Spec => []DetourCounts
<1>1. ASSUME ChainInv PROVE DetourCounts
  <2>1. chain.url_list \in Seq(Urls) /\ Between(req, chain) /\ Len(chain.url_list) \in Nat
    BY <1>1 DEF ChainInv, ChainsOK, Between, ChainType
  <2>2. /\ Len(Path) = Len(chain.url_list) + 1 /\ Path[Len(Path)] = chain.url
        /\ \A i \in 1..Len(chain.url_list) : Path[i] = chain.url_list[i]
    BY <2>1 DEF Path
  <2>3. ASSUME req.origin # None, AtUrl(req, chain), NEW i \in 1..Len(Path)
        PROVE  Shown(req, chain, Path[i])
    <3>1. \A j \in 1..Len(chain.url_list) : Shown(req, chain, chain.url_list[j])
      BY <2>1, <2>3 DEF Between, Visited
    <3>2. i \in 1..Len(chain.url_list) \/ i = Len(Path)
      BY <2>1, <2>2
    <3> QED
      BY <2>2, <2>3, <3>1, <3>2 DEF AtUrl
  <2>4. BasicMeansHome
    <3>1. outcome > 2 => AtUrl(req, chain)
      BY <1>1 DEF ChainInv, Staged
    <3> QED
      BY <2>3, <3>1 DEF BasicMeansHome, Shown, CorsModes
  <2>5. ChainShows
    <3> SUFFICES ASSUME Sending, req.origin # None
                 PROVE  /\ \A i \in 1..Len(Path) : Worse(chain.site, classify_site(req.origin, Path[i])) = chain.site
                        /\ (\E i \in 1..Len(Path) - 1 : ~Moved(Path[i], Path[i + 1]) /\ Path[i] # req.origin)
                              => origin_header(req, chain) # "origin"
      BY DEF ChainShows
    <3>1. AtUrl(req, chain)
      BY <1>1 DEF Sending, ChainInv, Staged
    <3>2. ASSUME NEW i \in 1..Len(Path) - 1, ~Moved(Path[i], Path[i + 1]), Path[i] # req.origin
          PROVE  chain.origin_tainted
      <4>1. i \in 1..Len(chain.url_list) /\ Path[i] = chain.url_list[i]
        BY <2>1, <2>2
      <4>2. Path[i + 1] = After(chain, i)
        <5>1. CASE i = Len(chain.url_list)
          BY <2>2, <5>1 DEF After
        <5>2. CASE i # Len(chain.url_list)
          <6>1. i + 1 \in 1..Len(chain.url_list)
            BY <2>1, <4>1, <5>2
          <6> QED
            BY <2>2, <5>2, <6>1 DEF After
        <5> QED
          BY <5>1, <5>2
      <4> QED
        BY <2>1, <3>2, <4>1, <4>2 DEF Between, Visited, Stayed
    <3>3. chain.origin_tainted => origin_header(req, chain) # "origin"
      BY DEF origin_header
    <3> QED
      BY <2>3, <3>1, <3>2, <3>3 DEF Shown
  <2>6. UnsafeNeedsGrant
    BY <1>1 DEF Sending, ChainInv, GrantsOK, UnsafeNeedsGrant, fits
  <2> QED
    BY <2>4, <2>5, <2>6 DEF DetourCounts
<1> QED
  BY ChainInvariant, <1>1, PTL

-----------------------------------------------------------------------------
(* What a step may do.                                                     *)

Failing ==
    /\ pc # "done" /\ pc' = "done" /\ outcome' = 1
    /\ preflights' = (IF plan.grant = None THEN preflights ELSE preflights \ clear(plan.grant))
    /\ resumed' = resumed /\ chain'.referrer <= chain.referrer

Staging ==
    /\ pc # "done" /\ pc' # "done" /\ resumed' = resumed /\ outcome' = outcome
    /\ chain'.redirects = chain.redirects /\ chain'.referrer <= chain.referrer
    /\ StepsLeft' < StepsLeft

Settling ==
    /\ pc \in {"plan", "send"} /\ resumed' = resumed /\ chain'.referrer <= chain.referrer
    /\ \/ pc' = "done" /\ outcome' # 1
       \/ pc' = "hop" /\ outcome' = outcome /\ chain'.redirects = chain.redirects + 1

\* The steps left are a number between none and those of a hop, less for each stage behind.
LEMMA StepsBound ==
    ASSUME ChainInv
    PROVE  /\ (pc # "done" => StepsLeft \in Nat) /\ HopSize \in Nat /\ HopSize >= 5
           /\ pc = "hop" => StepsLeft = HopSize - 1
           /\ pc = "preflight" => StepsLeft = HopSize - 2
           /\ pc = "plan" => StepsLeft = HopSize - 3
           /\ pc = "send" => /\ StepsLeft = (IF plan.revalidating THEN 1 ELSE 0)
                                            + (MaxAuth - slots.server.attempt) + (MaxAuth - slots.proxy.attempt)
                             /\ StepsLeft <= HopSize - 4
                             /\ slots.server.attempt \in 0..MaxAuth /\ slots.proxy.attempt \in 0..MaxAuth
<1>1. MaxAuth \in Nat /\ HopSize \in Nat /\ HopSize = 2 * MaxAuth + 5
  BY ChainAssumption DEF ChainAssumption, HopSize
<1>2. pc \in {"hop", "preflight", "plan", "send", "done"}
  BY DEF ChainInv, Typed
<1>3. CASE pc = "send"
  <2>1. slots.server.attempt \in 0..MaxAuth /\ slots.proxy.attempt \in 0..MaxAuth
    BY <1>3 DEF ChainInv, SlotsOK, SlotOK, SlotType
  <2>2. StepsLeft = (IF plan.revalidating THEN 1 ELSE 0)
                    + (MaxAuth - slots.server.attempt) + (MaxAuth - slots.proxy.attempt)
    BY <1>3 DEF StepsLeft
  <2> QED
    BY <1>1, <1>3, <2>1, <2>2
<1>4. CASE pc # "send"
  BY <1>1, <1>2, <1>4 DEF StepsLeft
<1> QED
  BY <1>3, <1>4

LEMMA SameReferrer == ASSUME ChainInv PROVE chain.referrer \in Nat /\ chain.referrer <= chain.referrer
  BY DEF ChainInv, ChainsOK, Between, ChainType, Levels

LEMMA FailIsFailing ==
    ASSUME ChainInv, Fail, pc # "done" PROVE Failing
  BY SameReferrer DEF Fail, End, Failing

LEMMA HopKind == ASSUME ChainInv, ChainInv', Hop PROVE Failing \/ Staging
<1>1. pc = "hop" /\ Between(req, chain) /\ req \in Requests
  BY DEF Hop, ChainInv, ChainsOK, Typed
<1>2. CASE Entered(req, chain) = None
  BY <1>1, <1>2, SameReferrer DEF Hop, End, Failing
<1>3. CASE Entered(req, chain) # None
  <2>1. chain' = Entered(req, chain) /\ pc' \in {"plan", "preflight"} /\ UNCHANGED <<outcome, resumed>>
    BY <1>3 DEF Hop
  <2>2. chain'.redirects = chain.redirects /\ chain'.referrer <= chain.referrer
    BY <1>1, <1>3, <2>1, EnteredBetween
  <2>3. StepsLeft = HopSize - 1 /\ HopSize \in Nat
    BY <1>1, StepsBound, ChainAssumption DEF ChainAssumption, HopSize
  <2>4. StepsLeft' = (IF pc' = "preflight" THEN HopSize - 2 ELSE HopSize - 3)
    BY <2>1 DEF StepsLeft
  <2> QED
    BY <1>1, <2>1, <2>2, <2>3, <2>4 DEF Staging
<1> QED
  BY <1>2, <1>3

LEMMA PreflightKind == ASSUME ChainInv, ChainInv', Preflight PROVE Staging
<1>1. pc = "preflight" /\ pc' = "plan" /\ UNCHANGED <<chain, resumed, outcome>>
  BY DEF Preflight
<1>2. StepsLeft = HopSize - 2 /\ HopSize \in Nat
  BY <1>1, StepsBound
<1>3. StepsLeft' = HopSize - 3
  BY <1>1 DEF StepsLeft
<1> QED
  BY <1>1, <1>2, <1>3, SameReferrer DEF Staging

LEMMA SendKind == ASSUME ChainInv, ChainInv', Send PROVE Staging
<1>1. pc = "plan" /\ pc' = "send" /\ UNCHANGED <<resumed, outcome>>
  BY DEF Send
<1>2. PICK jar \in BOOLEAN : chain' = WithCookies(chain, attach_credentials(req, chain), jar)
  BY DEF Send
<1>3. Between(req, chain) /\ AtUrl(req, chain) /\ chain.cookie # "jar" /\ req \in Requests
  BY <1>1 DEF ChainInv, ChainsOK, Staged, Typed
<1>4. chain'.redirects = chain.redirects /\ chain'.referrer = chain.referrer
  BY <1>2, <1>3, CookiesBetween
<1>5. StepsLeft = HopSize - 3 /\ HopSize = 2 * MaxAuth + 5 /\ MaxAuth \in Nat
  BY <1>1, StepsBound, ChainAssumption DEF HopSize, ChainAssumption
<1>6. slots'.server.attempt \in 0..MaxAuth /\ slots'.proxy.attempt \in 0..MaxAuth
  BY <1>1 DEF ChainInv, SlotsOK, SlotOK, SlotType
<1>7. StepsLeft' = (IF plan'.revalidating THEN 1 ELSE 0)
                   + (MaxAuth - slots'.server.attempt) + (MaxAuth - slots'.proxy.attempt)
  BY <1>1 DEF StepsLeft
<1>8. StepsLeft' < StepsLeft
  BY <1>5, <1>6, <1>7
<1> QED
  BY <1>1, <1>4, <1>8, SameReferrer DEF Staging

LEMMA SettleKind ==
    ASSUME ChainInv, pc \in {"plan", "send"}, resumed' = resumed,
           NEW c, NEW r, NEW attach, Settle(c, r, attach), Response(r),
           Between(req, c), AtUrl(req, c), c.redirects = chain.redirects, chain.redirects <= MaxRedirects,
           c.referrer = chain.referrer
    PROVE  Settling
<1>1. /\ chain'.referrer = c.referrer
      /\ \/ pc' = "done" /\ outcome' \in {r.status, 2}
         \/ pc' = "hop" /\ chain'.redirects = c.redirects + 1 /\ outcome' = outcome
  BY SettleDoes
<1> QED
  BY <1>1, SameReferrer DEF Settling, Response

LEMMA HitKind == ASSUME ChainInv, NEW r \in Stored, Hit(r) PROVE Failing \/ Settling
<1>1. pc = "plan" /\ resumed' = resumed
  BY DEF Hit
<1>2. PICK jar \in BOOLEAN :
        LET c == WithCookies(chain, attach_credentials(req, chain), jar)
        IN  (End(1, FALSE) /\ chain' = c) \/ Settle(c, r, attach_credentials(req, chain))
  BY DEF Hit
<1>3. /\ Between(req, chain) /\ AtUrl(req, chain) /\ chain.redirects <= MaxRedirects /\ chain.cookie # "jar"
      /\ req \in Requests
  BY <1>1 DEF ChainInv, ChainsOK, Staged, Typed
<1>4. PICK c : c = WithCookies(chain, attach_credentials(req, chain), jar)
  OBVIOUS
<1>5. Between(req, c) /\ AtUrl(req, c) /\ c.redirects = chain.redirects /\ c.referrer = chain.referrer
  BY <1>3, <1>4, CookiesBetween
<1>6. CASE End(1, FALSE) /\ chain' = c
  BY <1>1, <1>5, <1>6, SameReferrer DEF End, Failing
<1>7. CASE Settle(c, r, attach_credentials(req, chain))
  BY <1>1, <1>3, <1>5, <1>7, SettleKind, StoredAre
<1> QED
  BY <1>2, <1>4, <1>6, <1>7

LEMMA ReceiveKind ==
    ASSUME ChainInv, ChainInv', NEW r, Response(r), Receive(r) PROVE Failing \/ Staging \/ Settling
<1>1. pc = "send" /\ resumed' = resumed
  BY DEF Receive, ReceiveBlocked, Contradicted, Validated, Final, Challenged
<1>2. Between(req, chain) /\ AtUrl(req, chain) /\ chain.redirects <= MaxRedirects
  BY <1>1 DEF ChainInv, ChainsOK, Staged
<1>3. CASE ReceiveBlocked(r)
  BY <1>1, <1>3, SameReferrer DEF ReceiveBlocked, End, Failing
<1>4. ASSUME NEW e \in Stored, Validated(r, e) PROVE Settling
  <2>1. Settle(chain, e, plan.attach)
    BY <1>4 DEF Validated
  <2> QED
    BY <1>1, <1>2, <2>1, SettleKind, StoredAre
<1>5. CASE Final(r)
  <2>1. Settle(chain, r, plan.attach)
    BY <1>5 DEF Final
  <2> QED
    BY <1>1, <1>2, <2>1, SettleKind
<1>6. StepsLeft = (IF plan.revalidating THEN 1 ELSE 0)
                  + (MaxAuth - slots.server.attempt) + (MaxAuth - slots.proxy.attempt)
      /\ slots.server.attempt \in 0..MaxAuth /\ slots.proxy.attempt \in 0..MaxAuth /\ MaxAuth \in Nat
  BY <1>1, StepsBound, ChainAssumption DEF ChainAssumption
<1>7. pc' = "send" => StepsLeft' = (IF plan'.revalidating THEN 1 ELSE 0)
                         + (MaxAuth - slots'.server.attempt) + (MaxAuth - slots'.proxy.attempt)
  BY DEF StepsLeft
<1>8. CASE Contradicted(r)
  <2>1. /\ UNCHANGED <<chain, pc, slots, outcome>> /\ plan.revalidating
        /\ plan' = [plan EXCEPT !.revalidating = FALSE, !.grant = None]
    BY <1>8 DEF Contradicted
  <2>2. ~plan'.revalidating
    <3>1. "revalidating" \in DOMAIN plan => plan'.revalidating = FALSE
      BY <2>1
    <3> QED
      BY <2>1, <3>1
  <2> QED
    BY <1>1, <1>6, <1>7, <2>1, <2>2, SameReferrer DEF Staging
<1>9. CASE Challenged(r)
  <2>1. chain' = chain /\ (Answering(r) \/ Quits(r)) /\ r.status \in {401, 407}
    BY <1>9, ChallengeDoes
  <2>2. CASE Quits(r)
    <3>1. pc' = "done" /\ outcome' = r.status
      BY <2>2, EndDoes DEF Quits
    <3> QED
      BY <1>1, <2>1, <3>1, SameReferrer DEF Settling
  <2>3. CASE Answering(r)
    <3>1. UNCHANGED <<pc, outcome>> /\ plan' = [plan EXCEPT !.grant = None]
      BY <2>3 DEF Answering
    <3>2. plan'.revalidating = plan.revalidating
      BY <3>1
    <3>3. PICK x : /\ slots'[Asker(r)] = answered(slots[Asker(r)], SpaceOf(r), x)
                   /\ r.status = 401 => slots'["proxy"] = [slots.proxy EXCEPT !.unproven = None]
                   /\ r.status = 407 => slots'["server"] = slots.server
      BY <2>3 DEF Answering
    <3>4. slots'[Asker(r)].attempt = slots[Asker(r)].attempt + 1
      BY <3>3 DEF answered
    <3>5. \/ slots'.server.attempt = slots.server.attempt + 1 /\ slots'.proxy.attempt = slots.proxy.attempt
          \/ slots'.proxy.attempt = slots.proxy.attempt + 1 /\ slots'.server.attempt = slots.server.attempt
      <4>1. SlotOK(slots.proxy)
        BY <1>1 DEF ChainInv, SlotsOK
      <4>2. [slots.proxy EXCEPT !.unproven = None].attempt = slots.proxy.attempt
        BY <4>1 DEF SlotOK, SlotType
      <4> QED
        BY ZenonT(60), <2>1, <3>3, <3>4, <4>2 DEF Asker
    <3>6. StepsLeft' = StepsLeft - 1
      BY <1>1, <1>6, <1>7, <3>1, <3>2, <3>5
    <3>7. StepsLeft' < StepsLeft
      BY <1>6, <3>6
    <3> QED
      BY <1>1, <2>1, <3>1, <3>7, SameReferrer DEF Staging
  <2> QED
    BY <2>1, <2>2, <2>3
<1> QED
  BY <1>3, <1>4, <1>5, <1>8, <1>9 DEF Receive

\* Every step fails, goes on within its hop, settles the hop, or takes a revalidation up.
LEMMA StepKinds ==
    ASSUME ChainInv, ChainInv', Step PROVE Failing \/ Staging \/ Settling \/ Resume
<1>1. CASE HopRefused \/ TooManyRedirects \/ PreflightRefused \/ NotCached \/ SendFails
  BY <1>1, FailIsFailing DEF HopRefused, TooManyRedirects, PreflightRefused, NotCached, SendFails
<1>2. ASSUME NEW h \in Heads, NEW r \in Responses(h), Receive(r) PROVE Failing \/ Staging \/ Settling
  BY <1>2, ResponsesAre, ReceiveKind
<1>3. ASSUME NEW r \in Stored, Hit(r) PROVE Failing \/ Settling
  BY <1>3, HitKind
<1> QED
  BY <1>1, <1>2, <1>3, HopKind, PreflightKind, SendKind DEF Step

\* Every step of the chain leaves the referrer as it is or cuts it down further, whatever
\* policy a redirect announced (set_referrer); only a background revalidation starts anew.
THEOREM ReferrerStaysCut == Spec => ReferrerNeverGrows
<1>1. ASSUME ChainInv, ChainInv', [Step]_vars
      PROVE  [pc # "done" => chain'.referrer <= chain.referrer]_vars
  <2>1. CASE Step
    <3>1. CASE Failing \/ Staging \/ Settling
      BY <3>1 DEF Failing, Staging, Settling
    <3>2. CASE Resume
      BY <3>2 DEF Resume
    <3> QED
      BY <1>1, <2>1, <3>1, <3>2, StepKinds
  <2>2. CASE UNCHANGED vars
    BY <2>2
  <2> QED
    BY <1>1, <2>1, <2>2
<1> QED
  BY ChainInvariant, <1>1, PTL DEF Spec, ReferrerNeverGrows

LEMMA Products ==
    ASSUME NEW k \in Nat, NEW h \in Nat
    PROVE  k * h \in Nat /\ (k + 1) * h = k * h + h
  OBVIOUS

LEMMA RestOfChain ==
    ASSUME NEW n \in 0..(MaxRedirects + 1)
    PROVE  /\ (MaxRedirects + 1 - n) * HopSize \in Nat
           /\ n <= MaxRedirects =>
                (MaxRedirects + 1 - n) * HopSize = (MaxRedirects + 1 - (n + 1)) * HopSize + HopSize
           /\ (MaxRedirects + 3) * HopSize \in Nat
           /\ (MaxRedirects + 1 - n) * HopSize + 2 * HopSize <= (MaxRedirects + 3) * HopSize
<1>1. MaxRedirects \in Nat
  BY ChainAssumption DEF ChainAssumption
<1>2. PICK h \in Nat : h = HopSize
  BY ChainAssumption DEF ChainAssumption, HopSize
<1>3. PICK k \in Nat : k = MaxRedirects + 1 - n
  BY <1>1
<1>4. k * h \in Nat
  BY Products
<1>5. n <= MaxRedirects => k * h = (MaxRedirects + 1 - (n + 1)) * h + h
  <2>1. ASSUME n <= MaxRedirects PROVE k * h = (MaxRedirects + 1 - (n + 1)) * h + h
    <3>1. PICK j \in Nat : j = MaxRedirects + 1 - (n + 1) /\ k = j + 1
      BY <1>1, <1>3, <2>1
    <3> QED
      BY <3>1, Products
  <2> QED
    BY <2>1
<1>6. (MaxRedirects + 3) * h \in Nat /\ (MaxRedirects + 3) * h = k * h + n * h + 2 * h /\ n * h \in Nat
  <2>1. MaxRedirects + 3 = k + n + 2 /\ n \in Nat
    BY <1>1, <1>3
  <2>2. (k + n + 2) * h = k * h + n * h + 2 * h
    BY <2>1
  <2> QED
    BY <1>4, <2>1, <2>2, Products
<1> QED
  BY <1>2, <1>3, <1>4, <1>5, <1>6

\* However servers redirect, challenge and contradict a revalidation, and although a stale
\* answer has the chain start again in the background: every step uses up redirects,
\* answers or stages of the hop, of which there are finitely many (MAX_REDIRECTS,
\* MAX_AUTH_ATTEMPTS, one revalidation), so that the chain comes to its end.
THEOREM ChainEnds == Spec => ChainRunsOut
<1>1. ASSUME ChainInv, ChainInv', [Step]_vars
      PROVE  [Rank' >= 0 /\ Rank' < Rank]_vars
  <2> SUFFICES ASSUME Step PROVE Rank' >= 0 /\ Rank' < Rank
    BY <1>1
  <2>1. chain.redirects \in 0..(MaxRedirects + 1) /\ chain'.redirects \in 0..(MaxRedirects + 1)
    BY <1>1 DEF ChainInv, ChainsOK, Between, ChainType
  <2>2. PICK h \in Nat : h = HopSize /\ h >= 5
    BY <1>1, StepsBound
  <2>3. PICK a \in Nat, b \in Nat, z \in Nat :
           /\ a = (MaxRedirects + 1 - chain.redirects) * HopSize
           /\ b = (MaxRedirects + 1 - chain'.redirects) * HopSize
           /\ z = (MaxRedirects + 3) * HopSize
           /\ b + 2 * h <= z
           /\ chain'.redirects = chain.redirects + 1 => a = b + h
    <3>1. chain.redirects <= MaxRedirects \/ chain'.redirects # chain.redirects + 1
      BY <2>1, ChainAssumption DEF ChainAssumption
    <3> QED
      BY <2>1, <2>2, <3>1, RestOfChain
  <2>4. PICK y \in Nat : y = (IF resumed THEN 0 ELSE z)
    OBVIOUS
  <2>5. Rank = y + (IF pc = "done" THEN 0 ELSE 1 + a + StepsLeft)
    BY <2>3, <2>4 DEF Rank
  <2>6. Rank' = (IF resumed' THEN 0 ELSE z) + (IF pc' = "done" THEN 0 ELSE 1 + b + StepsLeft')
    BY <2>3 DEF Rank, HopSize
  <2>7. pc # "done" => StepsLeft \in Nat
    BY <1>1, StepsBound
  <2>8. pc' # "done" => StepsLeft' \in Nat /\ (pc' = "hop" => StepsLeft' = h - 1)
    <3>1. CASE pc' = "hop"
      BY <2>2, <3>1 DEF StepsLeft
    <3>2. CASE pc' = "send"
      <4>1. /\ slots'.server.attempt \in 0..MaxAuth /\ slots'.proxy.attempt \in 0..MaxAuth /\ MaxAuth \in Nat
            /\ plan'.revalidating \in BOOLEAN
        BY <1>1, <3>2, ChainAssumption DEF ChainInv, SlotsOK, SlotOK, SlotType, Typed, ChainAssumption
      <4>2. StepsLeft' = (IF plan'.revalidating THEN 1 ELSE 0)
                   + (MaxAuth - slots'.server.attempt) + (MaxAuth - slots'.proxy.attempt)
        BY <3>2 DEF StepsLeft
      <4> QED
        BY <3>2, <4>1, <4>2
    <3>3. CASE pc' \in {"preflight", "plan"}
      BY <2>2, <3>3 DEF StepsLeft
    <3> QED
      BY <1>1, <3>1, <3>2, <3>3 DEF ChainInv, Typed
  <2>9. CASE Failing \/ (Settling /\ pc' = "done")
    <3>1. pc # "done" /\ pc' = "done" /\ resumed' = resumed
      BY <2>9 DEF Failing, Settling
    <3>2. Rank = y + 1 + a + StepsLeft /\ Rank' = y
      BY <2>4, <2>5, <2>6, <2>7, <3>1
    <3> QED
      BY <2>7, <3>1, <3>2
  <2>10. CASE Staging
    <3>1. /\ pc # "done" /\ pc' # "done" /\ resumed' = resumed /\ chain'.redirects = chain.redirects
          /\ StepsLeft' < StepsLeft
      BY <2>10 DEF Staging
    <3>2. Rank = y + 1 + a + StepsLeft /\ Rank' = y + 1 + a + StepsLeft'
      BY <2>3, <2>4, <2>5, <2>6, <2>7, <2>8, <3>1
    <3> QED
      BY <2>7, <2>8, <3>1, <3>2
  <2>11. CASE Settling /\ pc' # "done"
    <3>1. pc # "done" /\ pc' = "hop" /\ resumed' = resumed /\ chain'.redirects = chain.redirects + 1
      BY <2>11 DEF Settling
    <3>2. Rank = y + 1 + a + StepsLeft /\ Rank' = y + 1 + b + (h - 1) /\ a = b + h
      BY <2>2, <2>3, <2>4, <2>5, <2>6, <2>7, <2>8, <3>1
    <3> QED
      BY <2>2, <2>7, <3>1, <3>2
  <2>12. CASE Resume
    <3>1. pc = "done" /\ pc' = "hop" /\ resumed' = TRUE
      BY <2>12 DEF Resume
    <3>2. ~resumed
      BY <1>1, <2>12 DEF Resume, ChainInv, Staged
    <3>3. Rank = z /\ Rank' = 1 + b + (h - 1)
      BY <2>4, <2>5, <2>6, <2>8, <3>1, <3>2
    <3> QED
      BY <2>2, <2>3, <3>3
  <2> QED
    BY <1>1, <2>9, <2>10, <2>11, <2>12, StepKinds
<1> QED
  BY ChainInvariant, <1>1, PTL DEF Spec, ChainRunsOut

\* What the store learns from a slot is what the slot's party was sent.
LEMMA Learnt ==
    ASSUME NEW store \in [Spaces -> Passwords \cup {None}], NEW slot, SlotOK(slot), NEW s \in Spaces,
           accepted(store, slot)[s] # store[s]
    PROVE  /\ slot.header = [space |-> s, secret |-> accepted(store, slot)[s]] /\ slot.header.space = s
           /\ slot.header # None
<1>1. slot.unproven # None /\ accepted(store, slot) = [store EXCEPT ![slot.unproven.space] = slot.unproven.secret]
  BY DEF accepted
<1>2. slot.unproven \in Answers /\ slot.header = slot.unproven
  BY <1>1 DEF SlotOK, SlotType
<1>3. slot.unproven.space = s /\ slot.unproven.secret = accepted(store, slot)[s]
  BY <1>1, <1>2 DEF Answers
<1> QED
  BY <1>1, <1>2, <1>3 DEF Answers

LEMMA OnlyAcceptedStored ==
    ASSUME ChainInv, Step, NEW s \in Spaces, creds'[s] \notin {creds[s], None}
    PROVE  LET who == IF s = Proxy THEN "proxy" ELSE "server"
           IN  /\ Sending /\ slots[who].header = [space |-> s, secret |-> creds'[s]]
               /\ outcome' # (IF s = Proxy THEN 407 ELSE 401)
               /\ pc' = "send" => slots'[who].attempt = slots[who].attempt
<1>1. PICK r : (\E h \in Heads : r \in Responses(h)) /\ (Final(r) \/ Challenged(r))
  BY DEF Step, Hop, HopRefused, TooManyRedirects, Preflight, PreflightRefused, NotCached, Send, SendFails,
         Resume, Hit, Receive, ReceiveBlocked, Contradicted, Validated, Fail
<1>2. Response(r)
  BY <1>1, ResponsesAre
<1>3. pc = "send" /\ creds \in [Spaces -> Passwords \cup {None}] /\ outcome = 0
  BY <1>1 DEF Final, Challenged, ChainInv, Typed, Staged
<1>4. /\ SlotOK(slots.server) /\ SlotOK(slots.proxy) /\ chain.url \in Urls
      /\ slots.server.header # None => slots.server.header.space = chain.url
      /\ slots.proxy.header # None => slots.proxy.header.space = Proxy
  BY <1>3 DEF ChainInv, SlotsOK, ChainsOK, Between, ChainType
<1>5. Proxy \notin Urls
  BY ChainAssumption DEF ChainAssumption
<1>6. CASE Final(r)
  <2>1. /\ creds' = accepted(accepted(creds, slots.server), slots.proxy) /\ r.status \notin {401, 407}
        /\ Settle(chain, r, plan.attach)
    BY <1>6 DEF Final
  <2>2. Between(req, chain) /\ AtUrl(req, chain) /\ chain.redirects <= MaxRedirects
    BY <1>3 DEF ChainInv, ChainsOK, Staged
  <2>3. pc' # "send" /\ outcome' \in {r.status, 2, 0}
    BY <1>2, <1>3, <2>1, <2>2, SettleDoes
  <2>4. outcome' \notin {401, 407}
    BY <1>2, <2>1, <2>3 DEF Response
  <2>5. PICK store \in [Spaces -> Passwords \cup {None}] : store = accepted(creds, slots.server)
    BY <1>3, <1>4, AcceptedType
  <2>6. CASE creds'[s] # store[s]
    <3>1. slots.proxy.header = [space |-> s, secret |-> creds'[s]] /\ slots.proxy.header.space = s
          /\ slots.proxy.header # None
      BY <1>4, <2>1, <2>5, <2>6, Learnt
    <3>2. s = Proxy
      BY <1>4, <3>1
    <3> QED
      BY <1>3, <2>3, <2>4, <3>1, <3>2 DEF Sending
  <2>7. CASE creds'[s] = store[s]
    <3>1. slots.server.header = [space |-> s, secret |-> creds'[s]] /\ slots.server.header.space = s
          /\ slots.server.header # None
      BY <1>3, <1>4, <2>5, <2>7, Learnt
    <3>2. s # Proxy
      BY <1>4, <1>5, <3>1
    <3> QED
      BY <1>3, <2>3, <2>4, <3>1, <3>2 DEF Sending
  <2> QED
    BY <2>6, <2>7
<1>7. CASE Challenged(r)
  <2>1. r.status \in {401, 407} /\ (Answering(r) \/ Quits(r))
    BY <1>7, ChallengeDoes
  <2>2. PICK tried \in BOOLEAN : creds' = Forgotten(r, tried)
    BY <1>7, ChallengeDoes
  <2>3. believed(r) \in [Spaces -> Passwords \cup {None}]
    BY <1>3, <1>4, AcceptedType DEF believed
  <2>4. creds'[s] = believed(r)[s]
    BY <2>2, <2>3 DEF Forgotten
  <2>5. r.status = 401 /\ creds'[s] = accepted(creds, slots.proxy)[s]
    BY <2>4 DEF believed
  <2>6. slots.proxy.header = [space |-> s, secret |-> creds'[s]] /\ slots.proxy.header.space = s
        /\ slots.proxy.header # None
    BY <1>3, <1>4, <2>5, Learnt
  <2>7. s = Proxy
    BY <1>4, <2>6
  <2>8. CASE Quits(r)
    <3>1. pc' = "done" /\ outcome' = 401
      BY ZenonT(60), <2>5, <2>8, EndDoes DEF Quits
    <3> QED
      BY <1>3, <2>6, <2>7, <3>1 DEF Sending
  <2>9. CASE Answering(r)
    <3>1. outcome' = 0 /\ slots'["proxy"] = [slots.proxy EXCEPT !.unproven = None]
      BY <1>3, <2>5, <2>9 DEF Answering
    <3>2. slots'["proxy"].attempt = slots.proxy.attempt
      BY <1>4, <3>1 DEF SlotOK, SlotType
    <3>3. outcome' = 0
      BY <3>1
    <3> QED
      BY <1>3, <2>6, <2>7, <3>2, <3>3 DEF Sending
  <2> QED
    BY <2>1, <2>8, <2>9
<1> QED
  BY <1>1, <1>6, <1>7

\* The credential store learns a password only from the party it was sent to, when that party
\* did not challenge it (AuthSlot::accepted); and a grant that a hop relied on when it failed
\* is in the preflight cache no more, in neither form (PreflightGrant, clear).
THEOREM StoresAreTrue == Spec => StoresStayTrue
<1>1. ASSUME ChainInv, ChainInv', [Step]_vars
      PROVE  [\A s \in Spaces : creds'[s] \notin {creds[s], None} =>
                LET who == IF s = Proxy THEN "proxy" ELSE "server"
                IN  /\ Sending /\ slots[who].header = [space |-> s, secret |-> creds'[s]]
                    /\ outcome' # (IF s = Proxy THEN 407 ELSE 401)
                    /\ pc' = "send" => slots'[who].attempt = slots[who].attempt]_vars
  BY <1>1, OnlyAcceptedStored
<1>2. ASSUME ChainInv, ChainInv', [Step]_vars
      PROVE  [plan.grant # None /\ outcome' = 1 =>
                \A g \in preflights' : g.origin # plan.grant.origin \/ g.url # plan.grant.url]_vars
  <2> SUFFICES ASSUME Step, plan.grant # None, outcome' = 1, NEW g \in preflights'
               PROVE  g.origin # plan.grant.origin \/ g.url # plan.grant.url
    BY <1>2
  <2>1. pc # "done" => outcome = 0
    BY <1>2 DEF ChainInv, Staged
  <2>2. Failing
    <3>1. ~Resume
      BY DEF Resume
    <3>2. ~Staging /\ ~Settling
      BY <2>1 DEF Staging, Settling
    <3> QED
      BY <1>2, <3>1, <3>2, StepKinds
  <2>3. preflights' = preflights \ clear(plan.grant)
    BY <2>2 DEF Failing
  <2> QED
    BY <2>3 DEF clear
<1>3. Spec => StoredOnlyAccepted
  BY ChainInvariant, <1>1, PTL DEF Spec, StoredOnlyAccepted
<1>4. Spec => GrantDropped
  BY ChainInvariant, <1>2, PTL DEF Spec, GrantDropped
<1> QED
  BY <1>3, <1>4 DEF StoresStayTrue
=============================================================================
