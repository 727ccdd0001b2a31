------------------------- MODULE ProxySessionsProofs -------------------------
(***************************************************************************)
(* The safety properties of ProxySessions, for any number of proxies,      *)
(* hosts, backends and configurations, any timeouts, and any number of     *)
(* requests in flight, updates and restarts.                               *)
(***************************************************************************)
EXTENDS ProxySessions, SequenceTheorems, WellFoundedInduction, TLAPS

\* A set of natural numbers that is not empty has a least element.
LEMMA LeastNumber ==
    ASSUME NEW S \in SUBSET Nat, S # {}
    PROVE  \E x \in S : \A y \in S : x <= y
<1> DEFINE below == OpToRel(<, Nat)
<1>1. PICK x \in S : \A y \in S : <<y, x>> \notin below
  <2>1. IsWellFoundedOn(below, Nat)
    BY NatLessThanWellFounded
  <2> HIDE DEF below
  <2> QED BY <2>1, WFMin
<1>2. \A y \in S : ~(y < x)
  BY <1>1 DEF OpToRel
<1> QED BY <1>2

\* A loop over 1..n whose value is the number of one of the elements seen so far
\* has such a value before and after each iteration.
LEMMA LoopValues ==
    ASSUME NEW n \in Nat, NEW step \in [(0..n) \X (1..n) -> 0..n]
    PROVE  \E f \in [0..n -> 0..n] :
              f[0] = 0 /\ \A k \in 1..n : f[k] = step[<<f[k - 1], k>>]
<1> DEFINE S == 0..n
           Upto(m, f) == f[0] = 0 /\ \A k \in 1..m : f[k] = step[<<f[k - 1], k>>]
           Bad == {m \in 0..n : ~\E f \in [0..m -> S] : Upto(m, f)}
<1>1. 0 \notin Bad
  <2>1. [k \in 0..0 |-> 0] \in [0..0 -> S] /\ Upto(0, [k \in 0..0 |-> 0])
    OBVIOUS
  <2> QED BY <2>1
<1>2. ASSUME NEW m \in 1..n, m - 1 \notin Bad
      PROVE  m \notin Bad
  <2>1. PICK g \in [0..(m - 1) -> S] : Upto(m - 1, g)
    BY <1>2
  <2> DEFINE f == [k \in 0..m |-> IF k < m THEN g[k] ELSE step[<<g[m - 1], m>>]]
  <2>2. f \in [0..m -> S]
    <3>1. g[m - 1] \in S /\ <<g[m - 1], m>> \in S \X (1..n)
      OBVIOUS
    <3>2. step[<<g[m - 1], m>>] \in S
      BY <3>1
    <3> QED BY <3>2
  <2>3. Upto(m, f)
    <3>1. f[0] = 0
      BY <2>1
    <3>2. ASSUME NEW k \in 1..m PROVE f[k] = step[<<f[k - 1], k>>]
      <4>1. f[k - 1] = g[k - 1]
        OBVIOUS
      <4>2. CASE k < m
        <5>1. f[k] = g[k] /\ k \in 1..(m - 1)
          BY <4>2
        <5> QED BY <2>1, <4>1, <5>1
      <4>3. CASE k = m
        <5>1. f[m] = step[<<g[m - 1], m>>]
          OBVIOUS
        <5>2. f[m - 1] = g[m - 1]
          BY <4>1, <4>3
        <5> HIDE DEF f
        <5> QED BY <4>3, <5>1, <5>2
      <4> QED BY <4>2, <4>3
    <3> QED BY <3>1, <3>2
  <2> QED BY <2>2, <2>3
<1>3. Bad = {}
  <2> SUFFICES ASSUME Bad # {} PROVE FALSE
    OBVIOUS
  <2>1. Bad \in SUBSET Nat
    OBVIOUS
  <2> HIDE DEF Bad
  <2>2. PICK m \in Bad : \A y \in Bad : m <= y
    BY <2>1, LeastNumber
  <2>3. m \in 1..n /\ m - 1 \notin Bad
    <3>1. m \in 0..n
      BY <2>2 DEF Bad
    <3> QED BY <1>1, <2>1, <2>2, <3>1
  <2> QED BY <1>2, <2>2, <2>3
<1>4. \E f \in [0..n -> S] : Upto(n, f)
  <2> HIDE DEF Upto, S
  <2> QED BY <1>3
<1>5. PICK f \in [0..n -> S] : Upto(n, f)
  BY <1>4
<1> QED BY <1>5

-----------------------------------------------------------------------------
(* Routing.                                                                *)

\* What the assumptions say of a configuration.
LEMMA ConfiguredRoutes ==
    ASSUME NEW cfg \in Contents
    PROVE  /\ Len(cfg) \in Nat /\ DOMAIN cfg = 1..Len(cfg)
           /\ \A k \in 1..Len(cfg) :
                 /\ cfg[k] \in Configured /\ IsRoute(cfg[k])
                 /\ PrefixOf(cfg[k]) \in Seq(Char)
                 /\ Len(PrefixOf(cfg[k])) \in Nat
<1>1. cfg \in Seq(Configured)
  BY ConfigAssumption
<1>2. Len(cfg) \in Nat /\ DOMAIN cfg = 1..Len(cfg)
  BY <1>1
<1>3. ASSUME NEW k \in 1..Len(cfg)
      PROVE  /\ cfg[k] \in Configured /\ IsRoute(cfg[k])
             /\ PrefixOf(cfg[k]) \in Seq(Char)
             /\ Len(PrefixOf(cfg[k])) \in Nat
  <2>1. cfg[k] \in Configured
    BY <1>1, <1>2
  <2>2. IsRoute(cfg[k])
    BY <2>1, ConfigAssumption
  <2>3. PrefixOf(cfg[k]) \in Seq(Char)
    <3>1. cfg[k].prefix \in Seq(Char)
      BY <2>2 DEF IsRoute
    <3>2. <<"/">> \in Seq(Char)
      <4>1. \A x \in Char : <<x>> \in Seq(Char)
        OBVIOUS
      <4> QED BY <4>1, ConfigAssumption
    <3> QED BY <3>1, <3>2 DEF PrefixOf
  <2> QED BY <2>1, <2>2, <2>3
<1> QED BY <1>2, <1>3

\* What is best among the first n routes: none if none fits, else the first of
\* the routes that fit with the longest prefix.
Best(cfg, host, path, grpc, n, b) ==
    LET fits == {j \in 1..n : Candidate(cfg[j], host, path, grpc)}
    IN IF fits = {} THEN b = 0
       ELSE /\ b \in fits
            /\ \A j \in fits : Len(PrefixOf(cfg[j])) < Len(PrefixOf(cfg[b]))
                  \/ (Len(PrefixOf(cfg[j])) = Len(PrefixOf(cfg[b])) /\ b <= j)

\* The loop of matchRoute keeps the best route so far.
LEMMA BestRoute ==
    ASSUME NEW cfg \in Contents, NEW host, NEW path, NEW grpc
    PROVE  Best(cfg, host, path, grpc, Len(cfg), matchRoute(cfg, host, path, grpc))
<1> DEFINE N == Len(cfg)
           Fit(k) == Candidate(cfg[k], host, path, grpc)
           Longer(k, b) == b = 0 \/ Len(PrefixOf(cfg[k])) > Len(PrefixOf(cfg[b]))
           step == [p \in (0..N) \X (1..N) |->
                      IF Fit(p[2]) /\ Longer(p[2], p[1]) THEN p[2] ELSE p[1]]
           Unrolled(f) ==
              f = [k \in 0..N |->
                     IF k = 0 THEN 0
                     ELSE LET b == f[k - 1]
                          IN IF Fit(k) /\ Longer(k, b) THEN k ELSE b]
<1>1. N \in Nat /\ \A k \in 1..N : Len(PrefixOf(cfg[k])) \in Nat
  BY ConfiguredRoutes
<1> DEFINE best == CHOOSE f : Unrolled(f)
<1>2. Unrolled(best)
  <2>1. step \in [(0..N) \X (1..N) -> 0..N]
    <3>1. \A p \in (0..N) \X (1..N) : p[1] \in 0..N /\ p[2] \in 0..N
      BY <1>1
    <3> HIDE DEF Fit, Longer
    <3> QED BY <3>1
  <2>2. 0 \in 0..N
    BY <1>1
  <2>3. PICK f \in [0..N -> 0..N] :
          f[0] = 0 /\ \A k \in 1..N : f[k] = step[<<f[k - 1], k>>]
    <3> HIDE DEF step, N
    <3> QED BY <1>1, <2>1, LoopValues
  <2>4. ASSUME NEW k \in 1..N
        PROVE  f[k] = IF Fit(k) /\ Longer(k, f[k - 1]) THEN k ELSE f[k - 1]
    <3>1. k - 1 \in 0..N /\ f[k - 1] \in 0..N
      <4>1. k - 1 \in 0..N
        BY <1>1
      <4>2. f \in [0..N -> 0..N]
        BY <2>3
      <4> QED BY <4>1, <4>2
    <3> DEFINE v == f[k - 1]
    <3>2. f[k] = step[<<v, k>>] /\ v \in 0..N
      <4> HIDE DEF step
      <4> QED BY <2>3, <3>1
    <3> HIDE DEF v, Fit, Longer
    <3>3. step[<<v, k>>] = IF Fit(k) /\ Longer(k, v) THEN k ELSE v
      BY <3>2
    <3> QED BY <3>2, <3>3 DEF v
  <2>5. Unrolled(f)
    <3> HIDE DEF Fit, Longer
    <3> QED BY <1>1, <2>3, <2>4
  <2> HIDE DEF Unrolled
  <2> QED BY <2>5
<1>3. matchRoute(cfg, host, path, grpc) = best[N]
  BY DEF matchRoute
<1>4. /\ best[0] = 0
      /\ \A k \in 1..N : best[k] = IF Fit(k) /\ Longer(k, best[k - 1])
                                   THEN k ELSE best[k - 1]
  <2> HIDE DEF best, Fit, Longer
  <2>1. 0 \in 0..N /\ \A k \in 1..N : k \in 0..N /\ k # 0
    BY <1>1
  <2>2. DOMAIN best = 0..N /\ best[0] = 0
    BY <1>2, <2>1
  <2>3. ASSUME NEW k \in 1..N
        PROVE  best[k] = IF Fit(k) /\ Longer(k, best[k - 1]) THEN k ELSE best[k - 1]
    <3>1. k \in 0..N /\ k # 0
      BY <2>1
    <3> QED BY <1>2, <3>1
  <2> QED BY <2>2, <2>3
<1> HIDE DEF best
<1> DEFINE Bad == {n \in 0..N : ~Best(cfg, host, path, grpc, n, best[n])}
<1>5. 0 \notin Bad
  BY <1>4 DEF Best
<1>6. ASSUME NEW n \in 1..N, n - 1 \notin Bad
      PROVE  n \notin Bad
  <2> DEFINE b == best[n - 1]
             before == {j \in 1..(n - 1) : Fit(j)}
             fits == {j \in 1..n : Fit(j)}
  <2>1. Best(cfg, host, path, grpc, n - 1, b)
    BY <1>1, <1>6
  <2>2. fits = IF Fit(n) THEN before \cup {n} ELSE before
    <3> HIDE DEF Fit
    <3>1. \A j \in 1..n : j \in 1..(n - 1) \/ j = n
      BY <1>1
    <3>2. 1..(n - 1) \subseteq 1..n /\ n \in 1..n
      BY <1>1
    <3> QED BY <3>1, <3>2
  <2>3. \/ before = {} /\ b = 0
        \/ /\ before # {} /\ b \in before /\ b # 0
           /\ \A j \in before : Len(PrefixOf(cfg[j])) < Len(PrefixOf(cfg[b]))
                 \/ (Len(PrefixOf(cfg[j])) = Len(PrefixOf(cfg[b])) /\ b <= j)
    BY <2>1 DEF Best
  <2>4. best[n] = IF Fit(n) /\ Longer(n, b) THEN n ELSE b
    BY <1>4
  <2>5. before \subseteq 1..(n - 1) /\ before \subseteq 1..N /\ n \in Nat
    BY <1>1
  <2>6. \A j \in 1..N : Len(PrefixOf(cfg[j])) \in Nat
    BY <1>1
  <2> SUFFICES Best(cfg, host, path, grpc, n, best[n])
    OBVIOUS
  <2>7. IF fits = {} THEN best[n] = 0
        ELSE /\ best[n] \in fits
             /\ \A j \in fits : Len(PrefixOf(cfg[j])) < Len(PrefixOf(cfg[best[n]]))
                  \/ (Len(PrefixOf(cfg[j])) = Len(PrefixOf(cfg[best[n]]))
                      /\ best[n] <= j)
    <3> HIDE DEF Fit, fits, before, b
    <3>1. CASE ~Fit(n)
      BY <2>2, <2>3, <2>4, <3>1
    <3>2. CASE Fit(n) /\ Longer(n, b)
      <4>1. best[n] = n /\ fits = before \cup {n}
        BY <2>2, <2>4, <3>2
      <4>2. \A j \in before : Len(PrefixOf(cfg[j])) < Len(PrefixOf(cfg[n]))
        BY <2>3, <2>5, <2>6, <3>2
      <4> QED BY <2>5, <2>6, <4>1, <4>2
    <3>3. CASE Fit(n) /\ ~Longer(n, b)
      <4>1. best[n] = b /\ fits = before \cup {n}
        BY <2>2, <2>4, <3>3
      <4>2. before # {} /\ b \in before /\ b <= n
        <5>1. before # {} /\ b \in before
          BY <2>3, <3>3
        <5>2. b \in 1..(n - 1)
          BY <2>5, <5>1
        <5> QED BY <2>5, <5>1, <5>2
      <4>3. Len(PrefixOf(cfg[n])) <= Len(PrefixOf(cfg[b]))
        BY <2>5, <2>6, <3>3, <4>2
      <4>4. \A j \in fits : Len(PrefixOf(cfg[j])) < Len(PrefixOf(cfg[b]))
                 \/ (Len(PrefixOf(cfg[j])) = Len(PrefixOf(cfg[b])) /\ b <= j)
        BY <2>3, <2>5, <2>6, <4>1, <4>2, <4>3
      <4> QED BY <4>1, <4>2, <4>4
    <3> QED BY <3>1, <3>2, <3>3
  <2> QED BY <2>7 DEF Best
<1>7. Bad = {}
  <2> SUFFICES ASSUME Bad # {} PROVE FALSE
    OBVIOUS
  <2>1. Bad \in SUBSET Nat
    BY <1>1
  <2> HIDE DEF Bad
  <2>2. PICK m \in Bad : \A y \in Bad : m <= y
    BY <2>1, LeastNumber
  <2>3. m \in 1..N /\ m - 1 \notin Bad
    <3>1. m \in 0..N
      BY <2>2 DEF Bad
    <3> QED BY <1>1, <1>5, <2>1, <2>2, <3>1
  <2> QED BY <1>6, <2>2, <2>3
<1>8. N \notin Bad
  BY <1>7
<1> QED BY <1>1, <1>3, <1>8
\* The route a request follows is configured, and it fits the request.
LEMMA MatchedRoute ==
    ASSUME NEW cfg \in Contents, NEW host, NEW path, NEW grpc,
           matchRoute(cfg, host, path, grpc) # 0
    PROVE  LET k == matchRoute(cfg, host, path, grpc)
           IN /\ k \in 1..Len(cfg) /\ k \in DOMAIN cfg
              /\ cfg[k] \in Configured /\ IsRoute(cfg[k])
              /\ Candidate(cfg[k], host, path, grpc)
<1> DEFINE k == matchRoute(cfg, host, path, grpc)
<1>1. Best(cfg, host, path, grpc, Len(cfg), k)
  BY BestRoute
<1> HIDE DEF k
<1>2. k # 0
  BY DEF k
<1>3. k \in {j \in 1..Len(cfg) : Candidate(cfg[j], host, path, grpc)}
  BY <1>1, <1>2 DEF Best
<1>4. k \in 1..Len(cfg) /\ Candidate(cfg[k], host, path, grpc)
  BY <1>3
<1> QED BY <1>4, ConfiguredRoutes DEF k

\* Of two prefixes of a path the shorter one is a prefix of the longer one.
LEMMA NestedPrefixes ==
    ASSUME NEW p \in Seq(Char), NEW q \in Seq(Char), NEW path \in Seq(Char),
           IsPrefixOf(p, path), IsPrefixOf(q, path), Len(p) <= Len(q)
    PROVE  IsPrefixOf(p, q)
<1>1. Len(p) \in Nat /\ Len(q) \in Nat /\ Len(q) <= Len(path)
  BY DEF IsPrefixOf
<1>2. \A i \in 1..Len(p) : p[i] = path[i]
  BY <1>1 DEF IsPrefixOf
<1>3. \A i \in 1..Len(q) : q[i] = path[i]
  BY <1>1 DEF IsPrefixOf
<1>4. \A i \in 1..Len(p) : SubSeq(q, 1, Len(p))[i] = p[i]
  BY <1>1, <1>2, <1>3
<1>5. SubSeq(q, 1, Len(p)) = p
  <2>1. SubSeq(q, 1, Len(p)) \in Seq(Char) /\ Len(SubSeq(q, 1, Len(p))) = Len(p)
    BY <1>1
  <2> QED BY <1>4, <2>1, SeqEqual
<1> QED BY <1>5 DEF IsPrefixOf

-----------------------------------------------------------------------------
(* Sessions.                                                               *)

\* A session that is found comes from a cookie the client sent, in time, or from
\* the header of the request.
LEMMA ResolvedSession ==
    ASSUME NEW route, NEW host, NEW path, NEW header
    PROVE  LET s  == resolveSession(route, host, path, header)
               sp == route.session
           IN \/ s = NoSession
              \/ /\ sp.type = "Cookie"
                 /\ \E c \in Sent(host, path, sp.name) :
                       /\ InTime(sp, c) /\ findBackendByID(route, c.backend)
                       /\ s = [backend |-> c.backend, created |-> c.created,
                               start |-> c.start]
              \/ /\ sp.type = "Header" /\ findBackendByID(route, header)
                 /\ s = [backend |-> header, created |-> 0, start |-> now]
<1> DEFINE hits == {c \in Sent(host, path, route.session.name) :
                      InTime(route.session, c) /\ findBackendByID(route, c.backend)}
           chosen == CHOOSE c \in hits : TRUE
           s == resolveSession(route, host, path, header)
<1>1. CASE route.session.type = "Cookie" /\ hits # {}
  <2>1. s = [backend |-> chosen.backend, created |-> chosen.created,
             start |-> chosen.start]
    <3> HIDE DEF hits
    <3>1. s = resolveSession(route, host, path, header)
      OBVIOUS
    <3> QED BY <1>1 DEF resolveSession, hits
  <2>2. chosen \in hits
    <3> HIDE DEF hits
    <3> QED BY <1>1
  <2> HIDE DEF chosen, s
  <2>3. chosen \in Sent(host, path, route.session.name)
    BY <2>2
  <2>4. InTime(route.session, chosen) /\ findBackendByID(route, chosen.backend)
    BY <2>2
  <2> QED BY <1>1, <2>1, <2>3, <2>4 DEF s
<1>2. CASE /\ ~(route.session.type = "Cookie" /\ hits # {})
           /\ route.session.type = "Header" /\ findBackendByID(route, header)
  BY <1>2 DEF resolveSession
<1>3. CASE /\ ~(route.session.type = "Cookie" /\ hits # {})
           /\ ~(route.session.type = "Header" /\ findBackendByID(route, header))
  BY <1>3 DEF resolveSession
<1> QED BY <1>1, <1>2, <1>3

\* What is known of a request r when it was just forwarded.
Resolved(r, host, path, grpc, header) ==
    LET session == resolveSession(r.route, host, path, header)
        hit     == session # NoSession
    IN /\ r.route \in Configured /\ IsRoute(r.route)
       /\ Candidate(r.route, host, path, grpc)
       /\ r.backend \in IF hit THEN {session.backend} ELSE pickBackend(r.route)
       /\ r.host = host /\ r.hit = hit
       /\ r.created = session.created /\ r.start = session.start
       /\ r.age = IF hit THEN now - session.start ELSE 0
       /\ r.owed = {c.backend : c \in Owed(r.route, host, path)}

\* A request that is forwarded follows a route its proxy has loaded, to the
\* backend of its session or to one that is offered.
LEMMA Forwarded ==
    ASSUME ProxyTypeOK, NEW p \in Proxy, NEW host, NEW path, NEW grpc, NEW header,
           resolveBackend(p, host, path, grpc, header), NEW r \in open' \ open
    PROVE  /\ Resolved(r, host, path, grpc, header)
           /\ \E cfg \in config[p] : \E k \in DOMAIN cfg : r.route = cfg[k]
<1>1. PICK cfg \in config[p] :
        LET k == matchRoute(cfg, host, path, grpc) IN
        /\ k # 0
        /\ LET route   == cfg[k]
               session == resolveSession(route, host, path, header)
               hit     == session # NoSession
           IN \E b \in IF hit THEN {session.backend} ELSE pickBackend(route) :
                open' = open \cup
                  {[route |-> route, host |-> host, backend |-> b, hit |-> hit,
                    created |-> session.created, start |-> session.start,
                    age |-> IF hit THEN now - session.start ELSE 0,
                    owed |-> {c.backend : c \in Owed(route, host, path)}]}
  BY DEF resolveBackend
<1> DEFINE k == matchRoute(cfg, host, path, grpc)
           route == cfg[k]
           session == resolveSession(route, host, path, header)
           hit == session # NoSession
           owed == {c.backend : c \in Owed(route, host, path)}
<1>2. cfg \in Contents
  BY DEF ProxyTypeOK
<1>3. k # 0
  BY <1>1
<1>4. /\ k \in DOMAIN cfg /\ route \in Configured /\ IsRoute(route)
      /\ Candidate(route, host, path, grpc)
  BY <1>2, <1>3, MatchedRoute
<1>5. PICK b \in IF hit THEN {session.backend} ELSE pickBackend(route) :
        open' = open \cup
          {[route |-> route, host |-> host, backend |-> b, hit |-> hit,
            created |-> session.created, start |-> session.start,
            age |-> IF hit THEN now - session.start ELSE 0,
            owed |-> owed]}
  BY <1>1
<1> HIDE DEF owed, hit
<1>6. r = [route |-> route, host |-> host, backend |-> b, hit |-> hit,
           created |-> session.created, start |-> session.start,
           age |-> IF hit THEN now - session.start ELSE 0,
           owed |-> owed]
  BY <1>5
<1> HIDE DEF k, route, session
<1>7. /\ r.route = route /\ r.host = host /\ r.backend = b /\ r.hit = hit
      /\ r.created = session.created /\ r.start = session.start
      /\ r.age = IF hit THEN now - session.start ELSE 0
      /\ r.owed = owed
  BY <1>6
<1>8. r.route = cfg[k]
  BY <1>7 DEF route
<1>9. Resolved(r, host, path, grpc, header)
  <2>1. /\ hit = (session # NoSession)
        /\ session = resolveSession(r.route, host, path, header)
        /\ owed = {c.backend : c \in Owed(r.route, host, path)}
    BY <1>7 DEF hit, session, owed
  <2> QED BY <1>4, <1>5, <1>7, <2>1 DEF Resolved
<1> QED BY <1>4, <1>8, <1>9
-----------------------------------------------------------------------------
(* The inductive invariant.                                                *)

LEMMA InitProxy == Init => ProxyInv
<1> SUFFICES ASSUME Init PROVE ProxyInv
  OBVIOUS
<1>1. ProxyTypeOK
  BY ConfigAssumption DEF Init, ProxyTypeOK
<1>2. JarInv /\ OpenInv /\ SessionsExpire
  BY DEF Init, JarInv, OpenInv, SessionsExpire
<1> QED BY <1>1, <1>2 DEF ProxyInv

LEMMA TypeStep == ProxyInv /\ [Next]_vars => ProxyTypeOK'
<1> SUFFICES ASSUME ProxyInv, [Next]_vars PROVE ProxyTypeOK'
  OBVIOUS
<1> USE DEF ProxyInv, ProxyTypeOK
<1>1. ASSUME NEW c \in Contents, UpdateConfigMap(c) PROVE ProxyTypeOK'
  BY <1>1 DEF UpdateConfigMap
<1>2. ASSUME NEW p \in Proxy, RestartProxy(p) PROVE ProxyTypeOK'
  BY <1>2 DEF RestartProxy
<1>3. ASSUME NEW p \in Proxy, HandleConfigMap(p) PROVE ProxyTypeOK'
  BY <1>3 DEF HandleConfigMap
<1>4. ASSUME NEW p \in Proxy, NEW host, NEW path, NEW grpc, NEW header,
             resolveBackend(p, host, path, grpc, header)
      PROVE  ProxyTypeOK'
  BY <1>4 DEF resolveBackend
<1>5. ASSUME NEW r \in open, Respond(r) \/ FailRequest(r) PROVE ProxyTypeOK'
  BY <1>5 DEF Respond, FailRequest
<1>6. CASE Tick
  BY <1>6 DEF Tick
<1>7. CASE UNCHANGED vars
  BY <1>7 DEF vars
<1> QED BY <1>1, <1>2, <1>3, <1>4, <1>5, <1>6, <1>7 DEF Next

\* The cookie of a response says when its session began.
LEMMA IssuedCookie ==
    ASSUME ProxyInv, NEW r \in open, needsSessionCookie(r.route, r.hit)
    PROVE  LET c == setSessionCookie(r)
           IN /\ c.created \in Nat /\ c.created <= now /\ c.start = c.created
              /\ c.active \in Nat
              /\ \E t \in Configured :
                    /\ t.session.type = "Cookie" /\ c.host = t.host
                    /\ c.name = t.session.name /\ c.path = PrefixOf(t)
<1>1. /\ r.route \in Configured /\ r.host = r.route.host /\ r.hit \in BOOLEAN
      /\ r.route.session.type = "Cookie" /\ now \in Nat
      /\ r.hit => r.created \in Nat /\ r.created <= now /\ r.start = r.created
  BY DEF ProxyInv, ProxyTypeOK, OpenInv, needsSessionCookie
<1>2. ASSUME NEW created \in Nat, created <= now, NEW start, start = created
      PROVE  LET c == Cookie(r, created, start)
             IN /\ c.created \in Nat /\ c.created <= now /\ c.start = c.created
                /\ c.active \in Nat
                /\ c.host = r.route.host /\ c.name = r.route.session.name
                /\ c.path = PrefixOf(r.route)
  BY <1>1, <1>2 DEF Cookie
<1>3. CASE r.hit
  <2>1. setSessionCookie(r) = Cookie(r, r.created, r.start)
    BY <1>3 DEF setSessionCookie
  <2> QED BY <1>1, <1>2, <1>3, <2>1
<1>4. CASE ~r.hit
  <2>1. setSessionCookie(r) = Cookie(r, now, now)
    BY <1>4 DEF setSessionCookie
  <2> QED BY <1>1, <1>2, <1>4, <2>1
<1> QED BY <1>1, <1>3, <1>4

LEMMA JarStep == ProxyInv /\ [Next]_vars => JarInv'
<1> SUFFICES ASSUME ProxyInv, [Next]_vars PROVE JarInv'
  OBVIOUS
<1>0. JarInv /\ now \in Nat
  BY DEF ProxyInv, ProxyTypeOK
<1>1. CASE UNCHANGED <<jar, now>>
  BY <1>0, <1>1 DEF JarInv
<1>2. ASSUME NEW r \in open, Respond(r) PROVE JarInv'
  <2>1. CASE needsSessionCookie(r.route, r.hit)
    <3> DEFINE c == setSessionCookie(r)
    <3>1. /\ c.created \in Nat /\ c.created <= now /\ c.start = c.created
          /\ c.active \in Nat
          /\ \E t \in Configured :
                /\ t.session.type = "Cookie" /\ c.host = t.host
                /\ c.name = t.session.name /\ c.path = PrefixOf(t)
      BY <2>1, IssuedCookie
    <3>2. jar' = Stored(c) /\ now' = now
      BY <1>2, <2>1 DEF Respond
    <3> HIDE DEF c
    <3>3. \A d \in jar' :
            \/ d = c
            \/ d \in jar /\ (d.host # c.host \/ d.name # c.name \/ d.path # c.path)
      BY <3>2 DEF Stored
    <3>4. \A d \in jar' :
            /\ d.created \in Nat /\ d.created <= now' /\ d.start = d.created
            /\ d.active \in Nat
            /\ \E t \in Configured :
                  /\ t.session.type = "Cookie" /\ d.host = t.host
                  /\ d.name = t.session.name /\ d.path = PrefixOf(t)
      BY <1>0, <3>1, <3>2, <3>3 DEF JarInv
    <3>5. \A d, e \in jar' :
            d.host = e.host /\ d.name = e.name /\ d.path = e.path => d = e
      BY <1>0, <3>3 DEF JarInv
    <3> QED BY <3>4, <3>5 DEF JarInv
  <2>2. CASE ~needsSessionCookie(r.route, r.hit)
    BY <1>1, <1>2, <2>2 DEF Respond
  <2> QED BY <2>1, <2>2
<1>3. CASE Tick
  <2>1. jar' \subseteq jar /\ now' = now + 1
    BY <1>3 DEF Tick
  <2> QED BY <1>0, <2>1 DEF JarInv
<1>4. ASSUME NEW c \in Contents, UpdateConfigMap(c) PROVE JarInv'
  BY <1>1, <1>4 DEF UpdateConfigMap
<1>5. ASSUME NEW p \in Proxy, RestartProxy(p) \/ HandleConfigMap(p) PROVE JarInv'
  BY <1>1, <1>5 DEF RestartProxy, HandleConfigMap
<1>6. ASSUME NEW p \in Proxy, NEW host, NEW path, NEW grpc, NEW header,
             resolveBackend(p, host, path, grpc, header)
      PROVE  JarInv'
  BY <1>1, <1>6 DEF resolveBackend
<1>7. ASSUME NEW r \in open, FailRequest(r) PROVE JarInv'
  BY <1>1, <1>7 DEF FailRequest
<1>8. CASE UNCHANGED vars
  BY <1>1, <1>8 DEF vars
<1> QED BY <1>2, <1>3, <1>4, <1>5, <1>6, <1>7, <1>8 DEF Next

\* What a step does to the requests in flight: time never goes back, and what is
\* new was forwarded.
LEMMA OpenChanges ==
    ASSUME ProxyTypeOK, [Next]_vars
    PROVE  /\ now' \in Nat /\ now <= now'
           /\ \/ open' \subseteq open
              \/ /\ UNCHANGED <<configMap, config, jar, now>>
                 /\ \E p \in Proxy, host \in Host, path \in Path, grpc \in BOOLEAN,
                       header \in Backend \cup {NoBackend} :
                       resolveBackend(p, host, path, grpc, header)
<1> USE DEF ProxyTypeOK
<1>1. ASSUME NEW c \in Contents, UpdateConfigMap(c)
      PROVE  now' = now /\ open' = open
  BY <1>1 DEF UpdateConfigMap
<1>2. ASSUME NEW p \in Proxy, RestartProxy(p) \/ HandleConfigMap(p)
      PROVE  now' = now /\ open' = open
  BY <1>2 DEF RestartProxy, HandleConfigMap
<1>3. ASSUME NEW p \in Proxy, NEW host \in Host, NEW path \in Path,
             NEW grpc \in BOOLEAN, NEW header \in Backend \cup {NoBackend},
             resolveBackend(p, host, path, grpc, header)
      PROVE  UNCHANGED <<configMap, config, jar, now>>
  BY <1>3 DEF resolveBackend
<1>4. ASSUME NEW r \in open, Respond(r) \/ FailRequest(r)
      PROVE  now' = now /\ open' \subseteq open
  BY <1>4 DEF Respond, FailRequest
<1>5. CASE Tick
  BY <1>5 DEF Tick
<1>6. CASE UNCHANGED vars
  BY <1>6 DEF vars
<1> QED BY <1>1, <1>2, <1>3, <1>4, <1>5, <1>6 DEF Next

LEMMA OpenStep == ProxyInv /\ [Next]_vars => OpenInv' /\ SessionsExpire'
<1> SUFFICES ASSUME ProxyInv, [Next]_vars PROVE OpenInv' /\ SessionsExpire'
  OBVIOUS
<1>0. ProxyTypeOK /\ JarInv /\ OpenInv /\ SessionsExpire /\ now \in Nat
  BY DEF ProxyInv, ProxyTypeOK
<1>1. now' \in Nat /\ now <= now'
  BY <1>0, OpenChanges
<1>2. CASE open' \subseteq open
  BY <1>0, <1>1, <1>2 DEF OpenInv, SessionsExpire
<1>3. ASSUME NEW p \in Proxy, NEW host \in Host, NEW path \in Path,
             NEW grpc \in BOOLEAN, NEW header \in Backend \cup {NoBackend},
             resolveBackend(p, host, path, grpc, header)
      PROVE  OpenInv' /\ SessionsExpire'
  <2>1. now' = now
    BY <1>3 DEF resolveBackend
  <2>2. ASSUME NEW r \in open' \ open
        PROVE  /\ r.route \in Configured /\ r.host = r.route.host
               /\ r.hit \in BOOLEAN
               /\ r.hit /\ r.route.session.type = "Cookie" =>
                     r.created \in Nat /\ r.created <= now /\ r.start = r.created
               /\ r.hit /\ r.route.session.absolute > 0 =>
                     r.age <= r.route.session.absolute
    <3> DEFINE session == resolveSession(r.route, host, path, header)
               sp == r.route.session
    <3>1. /\ r.route \in Configured /\ IsRoute(r.route)
          /\ Candidate(r.route, host, path, grpc)
          /\ r.host = host /\ r.hit = (session # NoSession)
          /\ r.created = session.created /\ r.start = session.start
          /\ r.age = IF session # NoSession THEN now - session.start ELSE 0
      <4>1. Resolved(r, host, path, grpc, header)
        BY <1>0, <1>3, Forwarded
      <4> QED BY <4>1 DEF Resolved
    <3>2. /\ r.route \in Configured /\ r.host = r.route.host
          /\ r.hit \in BOOLEAN
      BY <3>1 DEF Candidate
    <3>3. sp.absolute \in Nat
      BY <3>1 DEF IsRoute, SessionPersistence
    <3>4. CASE session = NoSession
      BY <3>1, <3>2, <3>4
    <3>5. ASSUME sp.type = "Cookie", NEW c \in jar, InTime(sp, c),
                 session = [backend |-> c.backend, created |-> c.created,
                            start |-> c.start]
          PROVE  /\ r.created \in Nat /\ r.created <= now /\ r.start = r.created
                 /\ r.hit /\ sp.absolute > 0 => r.age <= sp.absolute
      <4>1. c.created \in Nat /\ c.created <= now /\ c.start = c.created
        BY <1>0 DEF JarInv
      <4>2. session.created = c.created /\ session.start = c.start
        BY <3>5
      <4>3. sp.absolute > 0 => now - c.created <= sp.absolute
        BY <3>5 DEF InTime
      <4> HIDE DEF session, sp
      <4> QED BY <3>1, <4>1, <4>2, <4>3
    <3>6. CASE /\ sp.type = "Header"
               /\ session = [backend |-> header, created |-> 0, start |-> now]
      <4>1. session.start = now
        BY <3>6
      <4> HIDE DEF session
      <4>2. r.hit => r.age = 0
        BY <1>0, <3>1, <4>1
      <4> QED BY <3>2, <3>3, <3>6, <4>2
    <3>7. \A c \in Sent(host, path, sp.name) : c \in jar
      BY DEF Sent
    <3>8. \/ session = NoSession
          \/ /\ sp.type = "Cookie"
             /\ \E c \in jar :
                   /\ InTime(sp, c)
                   /\ session = [backend |-> c.backend, created |-> c.created,
                                 start |-> c.start]
          \/ /\ sp.type = "Header"
             /\ session = [backend |-> header, created |-> 0, start |-> now]
      BY <3>7, ResolvedSession
    <3> HIDE DEF session
    <3> QED BY <3>2, <3>4, <3>5, <3>6, <3>8
  <2> QED BY <1>0, <2>1, <2>2 DEF OpenInv, SessionsExpire
<1> QED BY <1>0, <1>2, <1>3, OpenChanges

\* Every cookie says when its session really began, and so does every request in
\* flight that a cookie keeps on its backend.
THEOREM ProxyInvariant == Spec => []ProxyInv
<1>1. Init => ProxyInv
  BY InitProxy
<1>2. ProxyInv /\ [Next]_vars => ProxyInv'
  BY TypeStep, JarStep, OpenStep DEF ProxyInv
<1> QED BY <1>1, <1>2, PTL DEF Spec

-----------------------------------------------------------------------------
(* The properties.                                                         *)

\* However often its cookie is issued again, no session outlives the absolute
\* timeout (setSessionCookie, resolveSession).
THEOREM SessionsEnd == Spec => []SessionsExpire
<1>1. ProxyInv => SessionsExpire
  BY DEF ProxyInv
<1> QED BY <1>1, ProxyInvariant, PTL

\* Whatever the order of the routes in the configuration, a request follows the
\* first of those with the longest prefix (matchRoute).
THEOREM RoutesByPrefix == Spec => []LongestPrefixWins
<1>1. ProxyInv => LongestPrefixWins
  <2> SUFFICES ASSUME ProxyInv, NEW p \in Proxy, NEW cfg \in config[p],
                      NEW host \in Host, NEW path \in Path, NEW grpc \in BOOLEAN
               PROVE  LET k    == matchRoute(cfg, host, path, grpc)
                          fits == {j \in DOMAIN cfg : Candidate(cfg[j], host, path, grpc)}
                      IN IF fits = {} THEN k = 0
                         ELSE /\ k \in fits
                              /\ \A j \in fits :
                                    \/ Len(PrefixOf(cfg[j])) < Len(PrefixOf(cfg[k]))
                                    \/ /\ Len(PrefixOf(cfg[j])) = Len(PrefixOf(cfg[k]))
                                       /\ k <= j
    BY DEF LongestPrefixWins
  <2>1. cfg \in Contents
    BY DEF ProxyInv, ProxyTypeOK
  <2>2. DOMAIN cfg = 1..Len(cfg)
    BY <2>1, ConfiguredRoutes
  <2>3. Best(cfg, host, path, grpc, Len(cfg), matchRoute(cfg, host, path, grpc))
    BY <2>1, BestRoute
  <2> QED BY <2>2, <2>3 DEF Best
<1> QED BY <1>1, ProxyInvariant, PTL

\* A backend that is resolved is offered by the route.
LEMMA OfferedBackend ==
    ASSUME NEW r, NEW host, NEW path, NEW grpc, NEW header,
           Resolved(r, host, path, grpc, header)
    PROVE  r.backend \in DOMAIN r.route.weight /\ r.route.weight[r.backend] > 0
<1> DEFINE session == resolveSession(r.route, host, path, header)
<1>1. r.backend \in IF session # NoSession THEN {session.backend}
                    ELSE pickBackend(r.route)
  BY DEF Resolved
<1>2. CASE session = NoSession
  BY <1>1, <1>2 DEF pickBackend
<1>3. CASE session # NoSession
  <2>1. findBackendByID(r.route, session.backend)
    <3>1. \/ \E c \in Sent(host, path, r.route.session.name) :
                /\ findBackendByID(r.route, c.backend)
                /\ session = [backend |-> c.backend, created |-> c.created,
                              start |-> c.start]
          \/ /\ findBackendByID(r.route, header)
             /\ session = [backend |-> header, created |-> 0, start |-> now]
      BY <1>3, ResolvedSession
    <3> HIDE DEF session
    <3> QED BY <3>1
  <2> QED BY <1>1, <1>3, <2>1 DEF findBackendByID
<1> QED BY <1>2, <1>3

\* Once the proxies have loaded the configuration, no request reaches a backend it
\* gives the weight 0, in a session or not (findBackendByID, pickBackend).
THEOREM DrainedStaysDrained == Spec => Drained
<1>1. ProxyInv /\ [Next]_vars =>
        [Loaded => \A r \in open' \ open :
           \E k \in DOMAIN configMap : /\ configMap[k] = r.route
                                       /\ configMap[k].weight[r.backend] > 0]_vars
  <2> SUFFICES ASSUME ProxyInv, [Next]_vars, Loaded, NEW r \in open' \ open
               PROVE  \E k \in DOMAIN configMap :
                         /\ configMap[k] = r.route
                         /\ configMap[k].weight[r.backend] > 0
    OBVIOUS
  <2>1. ProxyTypeOK
    BY DEF ProxyInv
  <2>2. PICK p \in Proxy, host \in Host, path \in Path, grpc \in BOOLEAN,
             header \in Backend \cup {NoBackend} :
          resolveBackend(p, host, path, grpc, header)
    BY <2>1, OpenChanges
  <2>3. Resolved(r, host, path, grpc, header)
    BY <2>1, <2>2, Forwarded
  <2>4. PICK cfg \in config[p] : \E k \in DOMAIN cfg : r.route = cfg[k]
    BY <2>1, <2>2, Forwarded
  <2>5. cfg = configMap
    BY DEF Loaded
  <2> QED BY <2>3, <2>4, <2>5, OfferedBackend
<1> QED BY <1>1, ProxyInvariant, PTL DEF Spec, Drained

\* A cookie is sent with the paths that begin with its path.
LEMMA PathPrefix ==
    ASSUME NEW path \in Seq(Char), NEW c, c.path \in Seq(Char), PathMatches(path, c)
    PROVE  IsPrefixOf(c.path, path)
<1>1. CASE path = c.path
  <2>1. SubSeq(path, 1, Len(path)) = path
    OBVIOUS
  <2> QED BY <1>1, <2>1 DEF IsPrefixOf
<1>2. CASE path # c.path
  BY <1>2 DEF PathMatches
<1> QED BY <1>1, <1>2

\* The cookie that has to be honoured is the only one of its name a client may
\* send first.
LEMMA OwedCookie ==
    ASSUME NamesApart, JarInv, now \in Nat, NEW route \in Configured, NEW path \in Path,
           NEW c \in Owed(route, route.host, path)
    PROVE  /\ Sent(route.host, path, route.session.name) = {c}
           /\ InTime(route.session, c) /\ findBackendByID(route, c.backend)
<1>1. /\ c \in jar /\ c.host = route.host /\ c.name = route.session.name
      /\ c.path = PrefixOf(route) /\ PathMatches(path, c)
      /\ route.session.type = "Cookie" /\ Alive(c)
      /\ c.backend \in pickBackend(route)
  BY DEF Owed
<1>2. c.created \in Nat /\ c.start = c.created /\ c.active \in Nat
  BY <1>1 DEF JarInv
<1>3. PrefixOf(route) \in Seq(Char) /\ path \in Seq(Char)
      /\ route.session.absolute \in Nat /\ route.session.idle \in Nat
  <2>1. PICK cfg \in Contents : \E k \in DOMAIN cfg : route = cfg[k]
    BY DEF Configured
  <2>2. PICK k \in DOMAIN cfg : route = cfg[k]
    BY <2>1
  <2>3. IsRoute(route) /\ PrefixOf(route) \in Seq(Char)
    BY <2>2, ConfiguredRoutes
  <2> QED BY <2>3, ConfigAssumption DEF IsRoute, SessionPersistence
<1>4. ASSUME NEW d \in jar, d.host = c.host, d.name = c.name, PathMatches(path, d)
      PROVE  Len(d.path) \in Nat /\ (Len(d.path) >= Len(c.path) => d = c)
  <2>1. PICK t \in Configured :
          /\ t.session.type = "Cookie" /\ d.host = t.host
          /\ d.name = t.session.name /\ d.path = PrefixOf(t)
    BY DEF JarInv
  <2>2. PrefixOf(t) \in Seq(Char)
    <3>1. PICK cfg \in Contents : \E k \in DOMAIN cfg : t = cfg[k]
      BY DEF Configured
    <3> QED BY <3>1, ConfiguredRoutes
  <2>3. IsPrefixOf(PrefixOf(t), path)
    BY <1>3, <1>4, <2>1, <2>2, PathPrefix
  <2>4. IsPrefixOf(PrefixOf(route), path)
    BY <1>1, <1>3, PathPrefix
  <2>5. CASE Len(d.path) >= Len(c.path)
    <3>1. IsPrefixOf(PrefixOf(route), PrefixOf(t))
      <4>1. Len(PrefixOf(route)) \in Nat /\ Len(PrefixOf(t)) \in Nat
        BY <1>3, <2>2
      <4>2. Len(PrefixOf(route)) <= Len(PrefixOf(t))
        BY <1>1, <2>1, <2>5, <4>1
      <4> QED BY <1>3, <2>2, <2>3, <2>4, <4>2, NestedPrefixes
    <3>2. PrefixOf(route) = PrefixOf(t)
      BY <1>1, <1>4, <2>1, <3>1 DEF NamesApart
    <3> QED BY <1>1, <1>4, <2>1, <2>2, <3>2 DEF JarInv
  <2> QED BY <2>1, <2>2, <2>5
<1>5. c \in Sent(route.host, path, route.session.name)
  <2>1. ASSUME NEW d \in jar, d.host = c.host, d.name = c.name, PathMatches(path, d)
        PROVE  Len(d.path) <= Len(c.path)
    <3>1. Len(c.path) \in Nat
      BY <1>1, <1>3
    <3> QED BY <1>4, <2>1, <3>1
  <2> QED BY <1>1, <2>1 DEF Sent
<1>6. ASSUME NEW d \in Sent(route.host, path, route.session.name) PROVE d = c
  <2>1. /\ d \in jar /\ d.host = c.host /\ d.name = c.name /\ PathMatches(path, d)
        /\ Len(c.path) <= Len(d.path)
    BY <1>1, <1>6 DEF Sent
  <2>2. Len(c.path) \in Nat /\ Len(d.path) \in Nat
    BY <1>1, <1>3, <1>4, <2>1
  <2> QED BY <1>4, <2>1, <2>2
<1>7. InTime(route.session, c)
  <2>1. /\ route.session.absolute > 0 => now - c.start < route.session.absolute
        /\ route.session.idle > 0 => now - c.active < route.session.idle
    BY DEF Owed
  <2> QED BY <1>2, <1>3, <2>1 DEF InTime
<1>8. findBackendByID(route, c.backend)
  BY <1>1 DEF pickBackend, findBackendByID
<1> QED BY <1>5, <1>6, <1>7, <1>8

\* A request of a client goes to the backend of the session the client has with
\* the route, whatever was reloaded and answered meanwhile, if no two sessions of
\* one name are nested (resolveSession, setSessionCookie).
THEOREM SessionsStick ==
    ASSUME NamesApart
    PROVE  Spec => []SessionSticks
<1>1. Init => SessionSticks
  BY DEF Init, SessionSticks
<1>2. ProxyInv /\ SessionSticks /\ [Next]_vars => SessionSticks'
  <2> SUFFICES ASSUME ProxyInv, SessionSticks, [Next]_vars, NEW r \in open'
               PROVE  r.owed \subseteq {r.backend}
    BY DEF SessionSticks
  <2>0. ProxyTypeOK /\ JarInv /\ now \in Nat
    BY DEF ProxyInv, ProxyTypeOK
  <2>1. CASE r \in open
    BY <2>1 DEF SessionSticks
  <2>2. CASE r \notin open
    <3>1. PICK p \in Proxy, host \in Host, path \in Path, grpc \in BOOLEAN,
               header \in Backend \cup {NoBackend} :
            resolveBackend(p, host, path, grpc, header)
      BY <2>0, <2>2, OpenChanges
    <3>2. Resolved(r, host, path, grpc, header)
      BY <2>0, <2>2, <3>1, Forwarded
    <3> DEFINE session == resolveSession(r.route, host, path, header)
    <3>3. /\ r.route \in Configured /\ IsRoute(r.route) /\ host = r.route.host
          /\ r.owed = {c.backend : c \in Owed(r.route, host, path)}
          /\ session # NoSession => r.backend = session.backend
      BY <3>2 DEF Resolved, Candidate
    <3>4. ASSUME NEW c \in Owed(r.route, host, path)
          PROVE  session # NoSession /\ session.backend = c.backend
      <4>1. /\ Sent(host, path, r.route.session.name) = {c}
            /\ InTime(r.route.session, c) /\ findBackendByID(r.route, c.backend)
        BY <2>0, <3>3, <3>4, OwedCookie
      <4>2. r.route.session.type = "Cookie"
        BY <3>4 DEF Owed
      <4> DEFINE hits == {d \in Sent(host, path, r.route.session.name) :
                            /\ InTime(r.route.session, d)
                            /\ findBackendByID(r.route, d.backend)}
      <4>3. hits = {c}
        BY <4>1
      <4>4. (CHOOSE d \in hits : TRUE) = c
        <5> HIDE DEF hits
        <5> QED BY <4>3
      <4>5. session = [backend |-> c.backend, created |-> c.created,
                       start |-> c.start]
        <5>1. hits # {}
          BY <4>3
        <5> HIDE DEF hits
        <5>2. session = LET d == CHOOSE d \in hits : TRUE
                        IN [backend |-> d.backend, created |-> d.created,
                            start |-> d.start]
          BY <4>2, <5>1 DEF resolveSession, hits
        <5> QED BY <4>4, <5>2
      <4>6. c.backend # NoBackend
        BY <3>3, <4>1, ConfigAssumption DEF IsRoute, findBackendByID
      <4> HIDE DEF session
      <4> QED BY <4>5, <4>6 DEF NoSession
    <3> HIDE DEF session
    <3> QED BY <3>3, <3>4
  <2> QED BY <2>1, <2>2
<1> QED BY <1>1, <1>2, ProxyInvariant, PTL DEF Spec
=============================================================================
