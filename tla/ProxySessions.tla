---------------------------- MODULE ProxySessions ----------------------------
(***************************************************************************)
(* The reverse proxy in every tunnel pod (internal/proxy) and one client   *)
(* of it: routing by host, protocol and longest path prefix, weighted      *)
(* traffic splitting, and sessions kept in cookies or named in a header.   *)
(*                                                                         *)
(* The proxies share no state: each has its own copy of the configuration, *)
(* swapped atomically by its ConfigMap watcher, and a session lives in the *)
(* client's cookie jar.  Requests may overlap, be answered in any order,   *)
(* by any proxy, while time passes and the configuration changes.          *)
(*                                                                         *)
(* A path is a short sequence of its characters, a backend its own ID and  *)
(* the cookie value "ID.createdAt[.lastActivity]" a record.                *)
(***************************************************************************)
EXTENDS Integers, Sequences, FiniteSets

CONSTANTS
    Proxy,       \* the tunnel pods
    Host, Backend, Name,        \* hosts, backends, cookie names
    Char, Path,  \* the characters of paths, and the paths that are requested
    Contents,    \* the contents of the ConfigMap: sequences of routes
    Start,       \* the content of the ConfigMap at first
    MaxUpdates,  \* bound: updates of the ConfigMap and restarts of a proxy
    MaxTime,     \* bound: seconds
    MaxOpen      \* bound: requests in flight

NoBackend == "no backend"

\* The routes of the configuration: the weights of its backends and the session
\* persistence, with timeouts in seconds and 0 for none.
Configured == UNION {{cfg[k] : k \in DOMAIN cfg} : cfg \in Contents}

SessionPersistence ==
    [type : {"None", "Cookie", "Header"}, name : Name,
     absolute : Nat, idle : Nat, permanent : BOOLEAN]

IsRoute(r) ==
    /\ r.host \in Host /\ r.grpc \in BOOLEAN /\ r.prefix \in Seq(Char)
    /\ DOMAIN r.weight \subseteq Backend
    /\ \A b \in DOMAIN r.weight : r.weight[b] \in Nat
    /\ r.session \in SessionPersistence
    /\ r.valid \in BOOLEAN

\* The key is there, and its YAML, URLs and timeouts are valid.
Parse(cfg) == \A k \in DOMAIN cfg : cfg[k].valid

ASSUME ConfigAssumption ==
    /\ Contents \subseteq Seq(Configured)
    /\ \A r \in Configured : IsRoute(r)
    /\ "/" \in Char /\ Path \subseteq Seq(Char)
    /\ NoBackend \notin Backend
    /\ Start \in Contents /\ Parse(Start)
    /\ MaxUpdates \in Nat /\ MaxTime \in Nat /\ MaxOpen \in Nat

VARIABLES
    configMap,  \* the content of the ConfigMap
    config,     \* the configuration each proxy has loaded: {} (nil) or {its routes}
    jar,        \* the cookies of the client
    open,       \* the requests in flight
    now,        \* the time, in seconds
    updates     \* how much of MaxUpdates was used

vars == <<configMap, config, jar, open, now, updates>>

NoSession == [backend |-> NoBackend, created |-> 0, start |-> 0]

-----------------------------------------------------------------------------
(* Routing.                                                                *)

IsPrefixOf(p, path) == Len(p) <= Len(path) /\ SubSeq(path, 1, Len(p)) = p

PrefixOf(route) == IF route.prefix = <<>> THEN <<"/">> ELSE route.prefix

Candidate(route, host, path, grpc) ==
    /\ route.host = host
    /\ grpc = route.grpc
    /\ IsPrefixOf(PrefixOf(route), path)

\* Mutant: the last of the matching routes wins.
matchRoute_Last(cfg, host, path, grpc) ==
    LET best[k \in 0..Len(cfg)] ==
          IF k = 0 THEN 0
          ELSE IF Candidate(cfg[k], host, path, grpc) THEN k ELSE best[k - 1]
    IN best[Len(cfg)]

\* The loop over the routes of the host: a longer prefix replaces the best
\* route so far.  0 stands for nil.
matchRoute(cfg, host, path, grpc) ==
    LET best[k \in 0..Len(cfg)] ==
          IF k = 0 THEN 0
          ELSE LET b == best[k - 1]
               IN IF Candidate(cfg[k], host, path, grpc)
                     /\ (b = 0 \/ Len(PrefixOf(cfg[k])) > Len(PrefixOf(cfg[b])))
                  THEN k ELSE b
    IN best[Len(cfg)]

\* Mutant: a session is kept on a backend of weight 0.
findBackendByID_AnyWeight(route, b) == b \in DOMAIN route.weight

findBackendByID(route, b) == b \in DOMAIN route.weight /\ route.weight[b] > 0

\* The backends the weighted random selection may return.
pickBackend(route) == {b \in DOMAIN route.weight : route.weight[b] > 0}

-----------------------------------------------------------------------------
(* Cookies on the client (RFC 6265).                                       *)

PathMatches(path, cookie) ==
    \/ path = cookie.path
    \/ /\ IsPrefixOf(cookie.path, path)
       /\ cookie.path[Len(cookie.path)] = "/" \/ path[Len(cookie.path) + 1] = "/"

Alive(cookie) == cookie.expires = 0 \/ now < cookie.expires

\* The cookie r.Cookie(name) finds: clients send the longer paths first.
Sent(host, path, name) ==
    {c \in jar : /\ c.host = host /\ c.name = name
                 /\ Alive(c) /\ PathMatches(path, c)
                 /\ \A d \in jar : d.host = host /\ d.name = name /\ Alive(d)
                        /\ PathMatches(path, d) => Len(d.path) <= Len(c.path)}

-----------------------------------------------------------------------------
(* Sessions.                                                               *)

\* Mutant: the idle timeout is compared with the creation of the session.
InTime_IdleFromCreation(sp, c) ==
    /\ sp.absolute > 0 => now - c.created <= sp.absolute
    /\ sp.idle > 0 => now - c.created <= sp.idle

InTime(sp, c) ==
    /\ sp.absolute > 0 => now - c.created <= sp.absolute
    /\ sp.idle > 0 => now - c.active <= sp.idle

\* The session of a request, if its cookie or its header names a backend that
\* is offered.  header is the value of the session header, if any.
resolveSession(route, host, path, header) ==
    LET sp   == route.session
        hits == {c \in Sent(host, path, sp.name) :
                    InTime(sp, c) /\ findBackendByID(route, c.backend)}
    IN CASE sp.type = "Cookie" /\ hits # {} ->
              LET c == CHOOSE c \in hits : TRUE
              IN [backend |-> c.backend, created |-> c.created, start |-> c.start]
         [] sp.type = "Header" /\ findBackendByID(route, header) ->
              [backend |-> header, created |-> 0, start |-> now]
         [] OTHER -> NoSession

needsSessionCookie(route, hit) ==
    route.session.type = "Cookie" /\ (~hit \/ route.session.idle > 0)

Smaller(a, b) == IF a < b THEN a ELSE b

cookieMaxAge(sp, created) ==
    LET remaining == sp.absolute - (now - created)
    IN IF sp.absolute > 0 /\ sp.idle > 0 THEN Smaller(remaining, sp.idle)
       ELSE IF sp.absolute > 0 THEN sp.absolute ELSE sp.idle

\* The cookie of a response to request r; expires = 0: no Max-Age.  start is
\* when the session really began (it is not in the code).
Cookie(r, created, start) ==
    LET sp  == r.route.session
        age == IF sp.permanent THEN cookieMaxAge(sp, created) ELSE 0
    IN [host |-> r.host, path |-> PrefixOf(r.route), name |-> sp.name,
        backend |-> r.backend, created |-> created, start |-> start,
        active  |-> IF sp.idle > 0 THEN now ELSE created,
        expires |-> IF age = 0 THEN 0 ELSE now + age]

\* Mutant: a refreshed session starts again.
setSessionCookie_Fresh(r) == Cookie(r, now, IF r.hit THEN r.start ELSE now)

\* The session keeps its creation time when the cookie is issued again.
setSessionCookie(r) ==
    IF r.hit THEN Cookie(r, r.created, r.start) ELSE Cookie(r, now, now)

\* What the client does with a cookie: it replaces the one of the same name,
\* host and path, and a negative Max-Age only deletes.
Stored(c) ==
    {d \in jar : d.host # c.host \/ d.name # c.name \/ d.path # c.path}
        \cup (IF c.expires # 0 /\ c.expires <= now THEN {} ELSE {c})

-----------------------------------------------------------------------------
Init ==
    /\ configMap = Start
    /\ config = [p \in Proxy |-> {}]
    /\ jar = {} /\ open = {}
    /\ now = 1
    /\ updates = 0

UpdateConfigMap(c) ==
    /\ updates < MaxUpdates /\ c # configMap
    /\ configMap' = c
    /\ updates' = updates + 1
    /\ UNCHANGED <<config, jar, open, now>>

\* A new pod has no configuration until its watcher has seen a good one.
RestartProxy(p) ==
    /\ updates < MaxUpdates /\ config[p] # {}
    /\ config' = [config EXCEPT ![p] = {}]
    /\ updates' = updates + 1
    /\ UNCHANGED <<configMap, jar, open, now>>

\* The handler of the informer.  What cannot be parsed is ignored.
HandleConfigMap(p) ==
    /\ Parse(configMap) /\ config[p] # {configMap}
    /\ config' = [config EXCEPT ![p] = {configMap}]
    /\ UNCHANGED <<configMap, jar, open, now, updates>>

\* The session of a request that has to be honoured: the client sends a cookie
\* of this very route, its session is in time and its backend is offered.
Owed(route, host, path) ==
    {c \in jar : /\ c.host = host /\ c.name = route.session.name
                 /\ c.path = PrefixOf(route) /\ PathMatches(path, c)
                 /\ route.session.type = "Cookie"
                 /\ Alive(c)
                 /\ route.session.absolute > 0 => now - c.start < route.session.absolute
                 /\ route.session.idle > 0 => now - c.active < route.session.idle
                 /\ c.backend \in pickBackend(route)}

\* A request reaches proxy p and is forwarded with the route and the backend
\* that were resolved.  Requests that find no configuration (503), no route
\* (404) or no backend (502) are answered at once and change nothing.
resolveBackend(p, host, path, grpc, header) ==
    /\ Cardinality(open) < MaxOpen
    /\ \E cfg \in config[p] :
       LET k == matchRoute(cfg, host, path, grpc) IN
       /\ k # 0
       /\ LET route   == cfg[k]
              session == resolveSession(route, host, path, header)
              hit     == session # NoSession
          IN \E b \in IF hit THEN {session.backend} ELSE pickBackend(route) :
               open' = open \cup
                 {[route |-> route, host |-> host, backend |-> b, hit |-> hit,
                   created |-> session.created, start |-> session.start,
                   age |-> IF hit THEN now - session.start ELSE 0,
                   owed |-> {c.backend : c \in Owed(route, host, path)}]}
    /\ open' # open
    /\ UNCHANGED <<configMap, config, jar, now, updates>>

\* The backend answers: ModifyResponse in ServeHTTP, or the end of RoundTrip.
Respond(r) ==
    /\ open' = open \ {r}
    /\ jar' = IF needsSessionCookie(r.route, r.hit)
              THEN Stored(setSessionCookie(r)) ELSE jar
    /\ UNCHANGED <<configMap, config, now, updates>>

\* The transport fails: an error without a cookie.
FailRequest(r) ==
    /\ open' = open \ {r}
    /\ UNCHANGED <<configMap, config, jar, now, updates>>

\* A second passes; the client forgets cookies whose Max-Age is over.
Tick ==
    /\ now < MaxTime
    /\ now' = now + 1
    /\ jar' = {c \in jar : c.expires = 0 \/ now + 1 < c.expires}
    /\ UNCHANGED <<configMap, config, open, updates>>

Next ==
    \/ (\E c \in Contents : UpdateConfigMap(c))
    \/ (\E p \in Proxy : RestartProxy(p) \/ HandleConfigMap(p))
    \/ (\E p \in Proxy, host \in Host, path \in Path, grpc \in BOOLEAN,
            header \in Backend \cup {NoBackend} :
          resolveBackend(p, host, path, grpc, header))
    \/ (\E r \in open : Respond(r) \/ FailRequest(r))
    \/ Tick

Spec == Init /\ [][Next]_vars

-----------------------------------------------------------------------------
(* Properties.                                                             *)

\* A client stays on its backend: a request for a route that gave the client a
\* session goes to the backend of that session while the session is in time and
\* the backend is offered, whichever proxy it reaches, whatever cookies of other
\* names the client has and whatever was reloaded meanwhile (resolveSession,
\* setSessionCookie).  owed holds the backend such a request must reach.  Two
\* sessions of one name must not be nested, see NamesApart.
SessionSticks == \A r \in open : r.owed \subseteq {r.backend}

\* Nobody is kept on a backend for longer than the absolute timeout after the
\* session really began, however often its cookie was issued again
\* (setSessionCookie, cookieMaxAge).
SessionsExpire ==
    \A r \in open : r.hit /\ r.route.session.absolute > 0 =>
        r.age <= r.route.session.absolute

\* A backend that is given the weight 0 is drained: once every proxy that has a
\* configuration has loaded the one in the ConfigMap, requests follow its routes
\* and none is forwarded to a backend of weight 0, not even in a session that
\* began before (HandleConfigMap, findBackendByID, pickBackend).
Loaded == \A p \in Proxy : config[p] \subseteq {configMap}

Drained ==
    [][Loaded => \A r \in open' \ open :
          \E k \in DOMAIN configMap : /\ configMap[k] = r.route
                                      /\ configMap[k].weight[r.backend] > 0]_vars

\* For every request the route is one that matches, no matching route has a
\* longer prefix, and among equals the first one wins (matchRoute).
LongestPrefixWins ==
    \A cfg \in UNION {config[p] : p \in Proxy} :
        \A host \in Host, path \in Path, grpc \in BOOLEAN :
            LET k    == matchRoute(cfg, host, path, grpc)
                fits == {j \in DOMAIN cfg : Candidate(cfg[j], host, path, grpc)}
            IN IF fits = {} THEN k = 0
               ELSE /\ k \in fits
                    /\ \A j \in fits : Len(PrefixOf(cfg[j])) < Len(PrefixOf(cfg[k]))
                          \/ (Len(PrefixOf(cfg[j])) = Len(PrefixOf(cfg[k])) /\ k <= j)

-----------------------------------------------------------------------------
(* What the safety properties rest on.                                     *)

\* Of two sessions of one host with one name, neither is on a path below the
\* other's: a client sends the cookie of the longer path first, and the proxy
\* looks at no other.
NamesApart ==
    \A s, t \in Configured :
        /\ s.session.type = "Cookie" /\ t.session.type = "Cookie"
        /\ s.host = t.host /\ s.session.name = t.session.name
        /\ IsPrefixOf(PrefixOf(s), PrefixOf(t))
        => PrefixOf(s) = PrefixOf(t)

ProxyTypeOK ==
    /\ configMap \in Contents
    /\ config \in [Proxy -> SUBSET Contents]
    /\ now \in Nat

\* Every cookie was issued by a route, it says when its session really began,
\* and the client has at most one of a name, host and path.
JarInv ==
    /\ \A c \in jar :
          /\ c.created \in Nat /\ c.created <= now /\ c.start = c.created
          /\ c.active \in Nat
          /\ \E t \in Configured :
                /\ t.session.type = "Cookie" /\ c.host = t.host
                /\ c.name = t.session.name /\ c.path = PrefixOf(t)
    /\ \A c, d \in jar :
          c.host = d.host /\ c.name = d.name /\ c.path = d.path => c = d

\* A request in flight follows a route of its host, and the session it was
\* resolved with is the one its answer will continue.
OpenInv ==
    \A r \in open :
        /\ r.route \in Configured /\ r.host = r.route.host
        /\ r.hit \in BOOLEAN
        /\ r.hit /\ r.route.session.type = "Cookie" =>
              r.created \in Nat /\ r.created <= now /\ r.start = r.created

ProxyInv == ProxyTypeOK /\ JarInv /\ OpenInv /\ SessionsExpire
=============================================================================
