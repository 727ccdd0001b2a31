---------------------------- MODULE RotationWatch ----------------------------
(***************************************************************************)
(* `cfgwctl rotate gateway token --watch` and `cfgwctl watch gateway       *)
(* token`: a client that follows the rollout of TunnelRollout through      *)
(* informers of its own and judges it.  It composes with the controller    *)
(* only through the API server: it reads the CGS, the Deployments and the  *)
(* Gateway, and it writes one annotation.                                  *)
(*                                                                         *)
(* Of a Deployment the command looks at the token hash of the template and *)
(* at whether the rollout is complete; of the Gateway at Ready and at the  *)
(* suspension annotation.  Pod events are only printed and are left out.   *)
(***************************************************************************)
EXTENDS TunnelRollout, Sequences

CONSTANTS
    MaxLag,        \* bound: Deployment events the command has not handled yet
    MaxToggles,    \* bound: changes of the suspension annotation
    Prompt         \* TRUE: the cache does not change between patch and list

ASSUME WatchAssumption ==
    MaxLag \in Nat /\ MaxToggles \in Nat /\ Prompt \in BOOLEAN

VARIABLES
    pause,   \* the suspension annotation of the Gateway, and its changes
    cli,     \* the command: locals of RunE and of watchRotation
    feed     \* Deployment updates on their way to the command (eventCh)

watchVars == <<want, tmpl, token, req, cron, secret, cgs, dep, seen, pods, rec,
               ready, queued, used, pause, cli, feed>>

-----------------------------------------------------------------------------
(* What the command sees and keeps.                                        *)

\* Mutant: a status that describes the previous generation is believed.
isWatchDeploymentRolledOut_OldStatus(d) ==
    d.updated >= 1 /\ d.replicas <= d.updated /\ d.ready >= d.updated

\* The command judges rollouts by itself, with desired = 1.
isWatchDeploymentRolledOut(d) ==
    /\ d.obs >= d.gen
    /\ d.updated >= 1 /\ d.replicas <= d.updated /\ d.ready >= d.updated

\* The part of a Deployment the command looks at; hash 0: not found.
Glance(d) == [hash |-> d.hash, out |-> isWatchDeploymentRolledOut(d)]

\* The part of the Gateway whose change makes an event the command acts on.
GatewayNow == [ready |-> ready, off |-> pause.on, req |-> req]

Unseen == [i \in Replica |-> Glance(Absent)]

\* The timeline of a Deployment: when its token-updated and rolled-out events
\* were logged (0: not yet) and with which hash.
NoTimeline == [updated |-> 0, rolled |-> 0, hash |-> 0]

\* old is currentTokenHash, start the hash of the CGS, pend the hashes of the
\* Deployments found pending; cur, all, ready and off are fields of
\* rotationWatcher, and at stands for tokenUpdated, rolledOut and events.
NotStarted ==
    [pc |-> "start", mode |-> "rotate", n |-> 0, start |-> 0, old |-> 0,
     todo |-> {}, pend |-> {}, view |-> Unseen, gw |-> GatewayNow,
     cur |-> [i \in Replica |-> 0], at |-> [i \in Replica |-> NoTimeline],
     events |-> 0, all |-> FALSE, ready |-> "Unknown", off |-> FALSE,
     result |-> "none", checked |-> {}]

tokenUpdated(c) == {i \in Replica : c.at[i].updated # 0}
rolledOut(c) == {i \in Replica : c.at[i].rolled # 0}

\* The command returns; only what the properties talk about is kept.
Ended(c, r) ==
    [NotStarted EXCEPT !.pc = "ended", !.mode = c.mode, !.start = c.start,
                       !.pend = c.pend, !.result = r, !.checked = rolledOut(c),
                       !.gw = [ready |-> "Unknown", off |-> FALSE, req |-> 0]]

Listening == cli.pc \in {"list", "watch", "drain"}

\* The Gateway is served: the first rollout is complete.
Served ==
    [hash |-> 1, tmpl |-> 1, gen |-> 1, obs |-> 1, updated |-> 1,
     replicas |-> 1, ready |-> 1, prog |-> "available"]

WatchInit ==
    /\ want = Replica
    /\ tmpl = 1 /\ token = 1 /\ req = 0 /\ cron = FALSE
    /\ secret = 1
    /\ cgs = [hash |-> 1, handled |-> 0, rotated |-> 1, inventory |-> Replica]
    /\ dep = [i \in Replica |-> Served]
    /\ seen = dep
    /\ pods = [i \in Replica |-> {[hash |-> 1, tmpl |-> 1, tok |-> 1, ready |-> TRUE]}]
    /\ rec = Idle
    /\ ready = "True"
    /\ queued = FALSE
    /\ used = [templates |-> 1, rotations |-> 0, edits |-> 0, faults |-> 0]
    /\ pause = [on |-> FALSE, toggles |-> 0]
    /\ cli = NotStarted
    /\ feed = <<>>

-----------------------------------------------------------------------------
(* The system the command watches.                                         *)

\* The informer turns an update of an existing Deployment into an event;
\* creations and deletions are not handled.  An update that shows the command
\* nothing new is left out, unless the command has not met the Deployment.
Deliver ==
    LET news == {i \in Replica :
                   /\ Exists(dep[i]) /\ Exists(dep'[i]) /\ dep'[i] # dep[i]
                   /\ \/ Glance(dep'[i]) # Glance(dep[i])
                      \/ cli.pc # "list" /\ cli.cur[i] = 0}
    IN /\ feed' = IF ~Listening \/ news = {} THEN feed
                  ELSE LET i == CHOOSE j \in news : TRUE
                       IN Append(feed, [rep  |-> i, hash |-> dep'[i].hash,
                                        out  |-> Glance(dep'[i]).out])
       /\ Len(feed') <= MaxLag

\* A reconcile of a suspended Gateway returns at once.
SkipReconcile ==
    /\ rec.pc = "idle" /\ queued /\ pause.on
    /\ queued' = FALSE
    /\ UNCHANGED <<inputs, token, secret, cgs, cluster, rec, ready, used>>

\* The command watches a step of the system.  No reconcile starts while the
\* Gateway is suspended; one in progress goes on.
Watched ==
    /\ pause.on /\ rec.pc = "idle" => rec'.pc = "idle"
    /\ Deliver
    /\ UNCHANGED <<pause, cli>>

\* `cfgwctl suspend gateway` and `cfgwctl resume gateway`.  A change of the
\* annotation enqueues the Gateway.
Toggle ==
    /\ pause.toggles < MaxToggles
    /\ pause' = [on |-> ~pause.on, toggles |-> pause.toggles + 1]
    /\ queued' = TRUE
    /\ UNCHANGED <<inputs, token, secret, cgs, cluster, rec, ready, used, cli, feed>>

-----------------------------------------------------------------------------
(* The command up to the event loop.                                       *)

\* Both commands begin by reading the CGS; they need it, and a Deployment in
\* its inventory.
ReadCGS(mode) ==
    /\ cli.pc = "start" /\ cgs.hash # 0
    /\ mode = "rotate" => used.rotations < MaxRotations
    /\ used' = IF mode = "rotate" THEN [used EXCEPT !.rotations = @ + 1] ELSE used
    /\ LET c == [cli EXCEPT !.mode = mode, !.n = Cardinality(cgs.inventory),
                            !.start = cgs.hash, !.gw = GatewayNow,
                            !.todo = IF mode = "attach" THEN cgs.inventory ELSE {},
                            !.old = IF mode = "rotate" THEN cgs.hash ELSE 0]
       IN cli' = IF cgs.inventory = {} THEN Ended(c, "error")
                 ELSE [c EXCEPT !.pc = IF mode = "attach" THEN "get" ELSE "sync"]
    /\ UNCHANGED <<inputs, token, secret, cgs, cluster, rec, ready, queued, pause, feed>>

\* watch gateway token reads the Deployments one by one, live.  The hash of the
\* first one that differs from the CGS is taken for the old hash.
GetDeployment(i) ==
    /\ cli.pc = "get" /\ i \in cli.todo /\ \A j \in cli.todo : i <= j
    /\ LET pending == dep[i].hash # cli.start
           c == [cli EXCEPT !.todo = @ \ {i},
                            !.pend = IF pending THEN @ \cup {dep[i].hash} ELSE @,
                            !.old = IF pending /\ @ = 0 THEN dep[i].hash ELSE @]
       IN cli' = IF ~Exists(dep[i]) THEN Ended(cli, "error")
                 ELSE IF c.todo # {} THEN c
                 ELSE IF c.pend = {} THEN Ended(c, "up to date")
                 ELSE [c EXCEPT !.pc = "check"]
    /\ UNCHANGED <<vars, pause, feed>>

CheckSuspended ==
    /\ cli.pc = "check"
    /\ cli' = IF pause.on THEN Ended(cli, "error") ELSE [cli EXCEPT !.pc = "sync"]
    /\ UNCHANGED <<vars, pause, feed>>

Synced == [cli EXCEPT !.pc = "list", !.gw = GatewayNow, !.ready = ready,
                      !.view = [i \in Replica |-> Glance(dep[i])]]

\* The informers sync, the Gateway is remembered as it is before the rotation,
\* and preflightAndPatch requests it unless the Gateway is suspended.
SyncAndPatch ==
    /\ cli.pc = "sync" /\ cli.mode = "rotate"
    /\ IF pause.on
       THEN cli' = Ended(cli, "error") /\ UNCHANGED <<vars, pause, feed>>
       ELSE /\ cli' = Synced
            /\ req' = token
            /\ queued' = TRUE
            /\ UNCHANGED <<want, tmpl, cron, token, secret, cgs, cluster, rec,
                           ready, used, pause, feed>>

SyncAttach ==
    /\ cli.pc = "sync" /\ cli.mode = "attach"
    /\ cli' = Synced
    /\ UNCHANGED <<vars, pause, feed>>

\* The cache of the informer after the first k events of the feed.
Cached(k) ==
    [i \in Replica |->
        LET mine == {j \in 1..k : feed[j].rep = i}
        IN IF mine = {} THEN cli.view[i]
           ELSE LET j == CHOOSE j \in mine : \A l \in mine : l <= j
                IN [hash |-> feed[j].hash, out |-> feed[j].out]]

\* Orders in which the cache may list the Deployments of a set: all of them, as
\* the lister ranges over a Go map.
Listings(S) ==
    {s \in [1..Cardinality(S) -> S] : \A a, b \in DOMAIN s : a # b => s[a] # s[b]}

-----------------------------------------------------------------------------
(* The report.                                                             *)

\* j is the next Deployment after i whose token was updated.
Follows(c, i, j) ==
    /\ c.at[i].updated < c.at[j].updated
    /\ \A k \in tokenUpdated(c) :
         ~(c.at[i].updated < c.at[k].updated /\ c.at[k].updated < c.at[j].updated)

\* Mutant: the next Deployment must have been updated before the previous one
\* was rolled out.
printReport_Swapped(c) ==
    IF \E i, j \in tokenUpdated(c) :
         Follows(c, i, j) /\ c.at[j].updated > c.at[i].rolled THEN "order"
    ELSE "passed"

\* The error printReport returns, or "passed".
printReport(c) ==
    LET reps == tokenUpdated(c)
    IN IF \E i, j \in reps : c.at[i].hash # c.at[j].hash THEN "inconsistent"
       ELSE IF Cardinality(reps) # c.n THEN "count"
       ELSE IF \E i, j \in reps :
                 Follows(c, i, j) /\ c.at[j].updated < c.at[i].rolled THEN "order"
       ELSE "passed"

-----------------------------------------------------------------------------
(* The event loop.                                                         *)

\* The Deployments found in the cache.  When attaching, those that already have
\* another hash than the old one get synthetic events.
Listed(view) == {i \in Replica : view[i].hash # 0}

Adopted(c, view) ==
    IF c.mode = "rotate" THEN {} ELSE {i \in Listed(view) : view[i].hash # c.old}

\* The synthetic events of Deployment i, which is listed in place p.
AdoptedLine(d, p) ==
    [updated |-> 2 * p - 1, hash |-> d.hash, rolled |-> IF d.out THEN 2 * p ELSE 0]

Adopt(c, view, s) ==
    LET place(i) == CHOOSE j \in DOMAIN s : s[j] = i
        updated  == Adopted(c, view)
    IN [c EXCEPT !.pc = "watch", !.view = Unseen,
                 !.cur = [i \in Replica |-> view[i].hash],
                 !.at = [i \in Replica |-> IF i \in updated THEN AdoptedLine(view[i], place(i))
                                           ELSE NoTimeline],
                 !.events = 2 * Cardinality(updated),
                 !.all = Cardinality({i \in updated : view[i].out}) = c.n]

\* The event loop starts from what the cache lists.
ListDeployments ==
    /\ cli.pc = "list"
    /\ \E k \in 0..Len(feed) :
        /\ Prompt => k = 0
        /\ \E s \in Listings(Adopted(cli, Cached(k))) :
             LET c == Adopt(cli, Cached(k), s)
             IN cli' = IF Cardinality(Listed(Cached(k))) # cli.n THEN Ended(cli, "error")
                       ELSE IF c.all /\ c.ready = "True" THEN Ended(c, printReport(c))
                       ELSE c
    /\ feed' = IF cli'.pc = "ended" THEN <<>> ELSE feed
    /\ UNCHANGED <<vars, pause>>

\* Once everything is rolled out and Ready, remaining events are drained.
Judge(c) == IF c.all /\ c.ready = "True" THEN [c EXCEPT !.pc = "drain"] ELSE c

\* The first hash that is neither the one known nor the old one marks the
\* update; the first complete rollout after it marks its end.
handleDeployUpdate(c, e) ==
    LET i   == e.rep
        t   == c.at[i]
        new == e.hash # c.cur[i] /\ e.hash # c.old
        upd == new /\ t.updated = 0
        out == (upd \/ t.updated # 0) /\ t.rolled = 0 /\ e.out
        at  == c.events + (IF upd THEN 1 ELSE 0)
    IN [c EXCEPT !.cur[i] = IF new THEN e.hash ELSE @,
                 !.events = IF out THEN at + 1 ELSE at,
                 !.at[i] = [updated |-> IF upd THEN at ELSE t.updated,
                            hash    |-> IF upd THEN e.hash ELSE t.hash,
                            rolled  |-> IF out THEN at + 1 ELSE t.rolled],
                 !.all = @ \/ (out /\ Cardinality(rolledOut(c)) + 1 = c.n)]

DeploymentEvent ==
    /\ cli.pc \in {"watch", "drain"} /\ feed # <<>>
    /\ LET c == handleDeployUpdate(cli, Head(feed))
       IN cli' = IF cli.pc = "drain" THEN c ELSE Judge(c)
    /\ feed' = Tail(feed)
    /\ UNCHANGED <<vars, pause>>

\* Mutant: only Deployment events can end the watch.
handleGatewayUpdate_NeverDone ==
    /\ cli.pc \in {"watch", "drain"} /\ cli.gw # GatewayNow
    /\ cli' = [cli EXCEPT !.gw = GatewayNow, !.ready = ready, !.off = pause.on]
    /\ UNCHANGED <<vars, pause, feed>>

\* A Gateway that is suspended before everything is rolled out ends the watch.
\* While draining, verdicts are ignored.
handleGatewayUpdate ==
    /\ cli.pc \in {"watch", "drain"} /\ cli.gw # GatewayNow
    /\ LET c == [cli EXCEPT !.gw = GatewayNow, !.ready = ready, !.off = pause.on]
           stop == cli.pc = "watch" /\ pause.on /\ ~cli.off /\ ~cli.all
       IN /\ cli' = IF stop THEN Ended(c, "suspended")
                    ELSE IF cli.pc = "drain" THEN c ELSE Judge(c)
          /\ feed' = IF stop THEN <<>> ELSE feed
    /\ UNCHANGED <<vars, pause>>

Report ==
    /\ cli.pc = "drain"
    /\ cli' = Ended(cli, printReport(cli))
    /\ feed' = <<>>
    /\ UNCHANGED <<vars, pause>>

\* The context of the command expires.
Timeout ==
    /\ cli.pc = "watch"
    /\ cli' = Ended(cli, "timeout")
    /\ feed' = <<>>
    /\ UNCHANGED <<vars, pause>>

Command ==
    \/ (\E i \in Replica : GetDeployment(i)) \/ CheckSuspended
    \/ SyncAndPatch \/ SyncAttach \/ ListDeployments
    \/ DeploymentEvent \/ handleGatewayUpdate \/ Report

WatchNext ==
    \/ (Next /\ Watched) \/ (SkipReconcile /\ Watched)
    \/ Toggle \/ (\E mode \in {"rotate", "attach"} : ReadCGS(mode))
    \/ Command \/ Timeout

WatchSpec == WatchInit /\ [][WatchNext]_watchVars

WorkerStep == (Reconcile \/ SkipReconcile) /\ Watched

ClusterStep ==
    /\ \E i \in Replica : \/ StartRollout(i) \/ PodBecomesReady(i)
                          \/ RetireOldPod(i) \/ SyncCache(i)
    /\ Watched

\* The command runs on, and so do the worker and Kubernetes, as in TunnelRollout.
WatchFairness ==
    WF_watchVars(Command) /\ WF_watchVars(WorkerStep) /\ WF_watchVars(ClusterStep)

FairWatchSpec == WatchSpec /\ WatchFairness

-----------------------------------------------------------------------------
(* Properties.                                                             *)

\* When the report says PASSED, every pod of the Deployments that were watched
\* has loaded a token the CGS did not have when the command was started (or,
\* when attaching, at least the one it announced): the old token can be given
\* up, although the events that led to the verdict are old news by then.
PassedMeansRotated ==
    cli.result = "passed" =>
        \A i \in cli.checked : \A p \in pods[i] :
            IF cli.mode = "rotate" THEN p.tok > cli.start ELSE p.tok >= cli.start

\* The report speaks of mixed tokens only if there was another rotation, or one
\* under way when the command attached: the command never mistakes an old hash
\* for a new one, whatever it finds when it attaches (printReport).
MixedTokensAreReal ==
    cli.result = "inconsistent" =>
        IF cli.mode = "rotate" THEN token > cli.start + 1
        ELSE token > cli.start \/ Cardinality(cli.pend) > 1

\* A command that requested the rotation never blames the controller for the
\* order of the updates, which is not violated (RolloutCompletesBeforeNext),
\* although it judges by events that arrive late (printReport).  One that attaches
\* may: it logs what is already updated in the order in which the lister ranges
\* over a Go map.
RequesterSeesOrder == cli.mode = "rotate" => cli.result # "order"

\* A watch that has begun ends by itself, without its timeout: it misses no
\* event it waits for.  Not so if the list of replicas is edited, the Gateway is
\* left suspended, or the command attached with the directions mixed up (it had
\* read the CGS before a rotation and the Deployments after it).
WatchEnds ==
    (/\ cli.pc = "watch" /\ used.edits = 0
     /\ \A h \in cli.pend : h < cli.start)
        ~> (cli.pc = "ended" \/ used.edits # 0 \/ pause.on)

\* The rolling update proceeds whatever the command does, and settles unless
\* the Gateway is left suspended.
WatchedConverges == <>[](Settled \/ pause.on)

-----------------------------------------------------------------------------
(* The inductive invariants behind PassedMeansRotated.                     *)

Event == [rep : Replica, hash : Nat, out : BOOLEAN]
Line == [updated : Nat, rolled : Nat, hash : Nat]
Verdicts == {"none", "error", "up to date", "suspended", "timeout",
             "passed", "inconsistent", "count", "order"}
Watcher ==
    [pc : {"start", "get", "check", "sync", "list", "watch", "drain", "ended"},
     mode : {"rotate", "attach"}, n : Nat, start : Nat, old : Nat,
     todo : SUBSET Replica, pend : SUBSET Nat,
     view : [Replica -> [hash : Nat, out : BOOLEAN]],
     gw : [ready : {"True", "False", "Unknown"}, off : BOOLEAN, req : Nat],
     cur : [Replica -> Nat], at : [Replica -> Line], events : Nat, all : BOOLEAN,
     ready : {"True", "False", "Unknown"}, off : BOOLEAN,
     result : Verdicts, checked : SUBSET Replica]

WatchTypeOK ==
    /\ pause \in [on : BOOLEAN, toggles : Nat]
    /\ cli \in Watcher
    /\ feed \in Seq(Event)

\* Every pod of i has loaded token h or a newer one, and so will new ones.
Loaded(i, h) == h <= secret /\ \A p \in pods[i] : h <= p.tok

\* No token of the past is announced again.
StartInv == cgs.hash <= token /\ (cli.pc # "start" => cli.start <= token)

\* Events come in the order of the updates and tell the truth for good.
FeedInv ==
    /\ ~Listening => feed = <<>>
    /\ \A j \in DOMAIN feed :
        /\ feed[j].hash <= secret
        /\ Exists(dep[feed[j].rep]) => feed[j].hash <= dep[feed[j].rep].hash
        /\ feed[j].out => Loaded(feed[j].rep, feed[j].hash)
        /\ \A k \in DOMAIN feed :
             j < k /\ feed[k].rep = feed[j].rep => feed[j].hash <= feed[k].hash

\* The hash of Deployment i that the command compares events with, and the one
\* its timeline starts with.
Base(i) == IF cli.pc = "list" THEN cli.view[i].hash ELSE cli.cur[i]
Floor(i) == IF cli.pc = "list" THEN cli.view[i].hash ELSE cli.at[i].hash

\* A hash the command has not seen is that of the CGS, or newer.
NewsInv ==
    Listening => \A i \in Replica :
        /\ Floor(i) <= secret
        /\ Exists(dep[i]) => /\ Floor(i) <= dep[i].hash
                             /\ dep[i].hash = Base(i) \/ cli.start <= dep[i].hash
        /\ \A j \in DOMAIN feed : feed[j].rep = i =>
            /\ Floor(i) <= feed[j].hash
            /\ feed[j].hash = Base(i) \/ cli.start <= feed[j].hash

\* The command runs through its phases once, and rotates from the hash it read.
CommandInv ==
    /\ cli.pc # "ended" => cli.result = "none"
    /\ cli.pc = "start" => cli.pend = {} /\ cli.old = 0
    /\ cli.pc \in {"get", "check"} => cli.mode = "attach"
    /\ cli.mode = "rotate" /\ cli.pc \in {"sync", "list", "watch", "drain"} =>
        cli.old = cli.start

\* A Deployment that was found or seen rolled out stays on its new token.
TimelineInv ==
    /\ cli.pc = "list" => \A i \in Replica : cli.view[i].out => Loaded(i, cli.view[i].hash)
    /\ cli.pc \in {"watch", "drain"} => \A i \in Replica :
        /\ cli.at[i].rolled # 0 => cli.at[i].updated # 0 /\ Loaded(i, cli.at[i].hash)
        /\ cli.at[i].updated # 0 /\ cli.mode = "rotate" => cli.start < cli.at[i].hash
    /\ cli.result = "passed" /\ cli.mode = "rotate" =>
        \A i \in cli.checked : Loaded(i, cli.start + 1)

WatchInv == WatchTypeOK /\ StartInv /\ FeedInv /\ NewsInv /\ CommandInv /\ TimelineInv

\* Nobody edits the replica list: every replica has a Deployment and keeps it.
DeployedInv ==
    /\ want = Replica /\ cgs.inventory = Replica
    /\ rec.pc # "idle" => rec.want = Replica
    /\ \A i \in Replica : Exists(dep[i])

\* The command attaches to a rollout: some Deployment still has the hash taken
\* for the old one, or has that of the CGS or a newer one already.
Pending(hash) == \E q \in Replica : hash[q] = cli.old \/ cli.start <= hash[q]

\* Once attached, the command counts that Deployment as updated only from the
\* hash of the CGS on; PASSED needs the others to have the same hash.
AttachInv ==
    cli.mode = "attach" =>
        /\ cli.pc \notin {"start", "ended"} => cli.n = N
        /\ cli.pc = "get" => cli.todo # {} /\ (cli.pend = {} => cli.old = 0)
        /\ \/ cli.pc \in {"check", "sync"}
           \/ cli.pc = "get" /\ cli.pend # {}
           => Pending([i \in Replica |-> dep[i].hash])
        /\ cli.pc = "list" => Pending([i \in Replica |-> cli.view[i].hash])
        /\ cli.pc \in {"watch", "drain"} =>
             \E q \in Replica : cli.at[q].updated # 0 => cli.start <= cli.at[q].hash
        /\ cli.result = "passed" => \A i \in cli.checked : Loaded(i, cli.start)
-----------------------------------------------------------------------------
(* The inductive invariants behind MixedTokensAreReal and RequesterSeesOrder. *)

\* The latest update of a Deployment was complete at some time since.
Complete(d) == d.obs = d.gen /\ d.prog = "available"

\* The newest hash spreads in the order of the replica list.
SpreadInv ==
    /\ \A i \in Replica : dep[i].gen = 1 => Complete(dep[i])
    /\ \A i, j \in Replica : i < j /\ dep[j].hash = token => dep[i].hash = token

\* A command that requested the rotation hears of every update from its start;
\* one that attaches finds some in the middle.
Requester == cli.mode = "rotate"

\* The hash that command c compares events of Deployment i with, and the timeline
\* of i, or what it will be when the list is read.
Known(c, i) == IF c.pc = "list" THEN c.view[i].hash ELSE c.cur[i]
Timeline(c, i) ==
    IF c.pc # "list" THEN c.at[i]
    ELSE IF i \in Adopted(c, c.view) THEN AdoptedLine(c.view[i], 1)
    ELSE NoTimeline

\* Hash h would start the timeline of Deployment i.
Awaited(c, i, h) == Timeline(c, i).updated = 0 /\ h # Known(c, i) /\ h # c.old

\* One of the events of q before the k-th brings hash h to Deployment i.
Comes(q, i, h, k) == \E l \in DOMAIN q : l < k /\ q[l].rep = i /\ q[l].hash = h

\* Once the events before the k-th are handled, the timeline of Deployment i has
\* started with hash h, and has ended.
Logged(c, i, h) == Timeline(c, i).updated # 0 /\ Timeline(c, i).hash = h
Noted(c, q, i, h, k) == Logged(c, i, h) \/ (Awaited(c, i, h) /\ Comes(q, i, h, k))
Finished(c, q, i, h, k) ==
    \/ Logged(c, i, h) /\ Timeline(c, i).rolled # 0
    \/ \E l \in DOMAIN q : l < k /\ q[l].rep = i /\ q[l].hash = h /\ q[l].out

\* The k-th event is the first to bring its Deployment a hash that is awaited.
Marks(c, q, k) == Awaited(c, q[k].rep, q[k].hash) /\ ~Comes(q, q[k].rep, q[k].hash, k)

\* The command hears of every new hash and of every end of a rollout.
HeardInv ==
    LET n == Len(feed) + 1 IN
    Listening => \A i \in Replica :
        /\ Awaited(cli, i, dep[i].hash) => Comes(feed, i, dep[i].hash, n)
        /\ Requester /\ Complete(dep[i]) /\ Noted(cli, feed, i, dep[i].hash, n) =>
             Finished(cli, feed, i, dep[i].hash, n)

\* When a timeline starts, those that started with the same hash have ended.
InTurnInv ==
    Listening /\ Requester =>
        \A k \in DOMAIN feed : \A i \in Replica \ {feed[k].rep} :
            Marks(cli, feed, k) /\ Noted(cli, feed, i, feed[k].hash, k) =>
                Finished(cli, feed, i, feed[k].hash, k)

InOrder(c) ==
    \A i, j \in Replica :
        /\ c.at[i].updated # 0 /\ c.at[i].updated < c.at[j].updated
        /\ c.at[i].hash = c.at[j].hash
        => c.at[i].rolled # 0 /\ c.at[i].rolled < c.at[j].updated

\* What was logged is in that order.
LoggedInv ==
    cli.pc \in {"watch", "drain"} =>
        /\ \A i \in Replica : cli.at[i].updated <= cli.events /\ cli.at[i].rolled <= cli.events
        /\ Requester => InOrder(cli)

\* A command that attaches has found the hashes that are older than that of the
\* CGS, the one it takes for the old hash among them.
FoundInv ==
    cli.mode = "attach" =>
        /\ IsFiniteSet(cli.pend)
        /\ cli.pend # {} /\ cli.pc # "ended" => cli.old \in cli.pend
        /\ cli.pc \in {"check", "sync", "list", "watch", "drain"} => cli.pend # {}
        /\ cli.pc \in {"get", "check", "sync"} => \A i \in Replica :
             i \in cli.todo \/ dep[i].hash \in cli.pend \/ cli.start <= dep[i].hash
        /\ cli.pc \in {"check", "sync"} => cli.todo = {}
        /\ cli.pc = "list" => \A i \in Replica :
             cli.view[i].hash \in cli.pend \/ cli.start <= cli.view[i].hash
        /\ cli.pc \in {"watch", "drain"} => \A i \in Replica : cli.at[i].updated # 0 =>
             /\ cli.at[i].hash # cli.old
             /\ cli.at[i].hash \in cli.pend \/ cli.start <= cli.at[i].hash

\* The verdicts that were given stand.
AlarmInv ==
    /\ HeardInv /\ InTurnInv /\ LoggedInv /\ FoundInv
    /\ MixedTokensAreReal /\ RequesterSeesOrder
=============================================================================
