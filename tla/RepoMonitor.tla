----------------------------- MODULE RepoMonitor -----------------------------
(***************************************************************************)
(* The monitoring state of one repository (hub/internal/server/api.go):    *)
(* switching monitoring on and off talks to the forge and to three stored  *)
(* files (the repository, the hook route and the badge route), one after   *)
(* the other and under no common lock, while a sync rewrites the           *)
(* repository it read before its own call to the forge.                    *)
(*                                                                         *)
(* Hooks are numbered in the order the forge creates them.  The secret and *)
(* the installation token are drawn with the hook and stored with its      *)
(* identity, so the number stands for all three.  A fresh routing or badge *)
(* key is named after the hook it was drawn for; 0 is an absent value.     *)
(***************************************************************************)
EXTENDS Naturals, FiniteSets

CONSTANTS
    Requests,   \* requests of the owner: monitoring on or off
    Syncs,      \* syncs of the account
    MaxHooks,   \* bound: hooks the forge creates
    MaxFaults   \* bound: failed calls and writes, and crashes

ASSUME MonitorAssumption == MaxHooks \in Nat /\ MaxFaults \in Nat

Procs == Requests \cup Syncs
Numbers == 0..MaxHooks

\* Where a request or a sync can be.
Steps == {"idle", "replace", "create", "install", "route", "badge", "badge, unrouted",
          "drop", "unroute", "unbadge", "clear", "probe"}

VARIABLES
    monitored, hookId, hookKey, badgeKey,   \* the stored repository
    routes,     \* routing keys with a stored route
    badges,     \* badge keys with a stored route
    hooks,      \* hooks that exist at the forge
    urlKey,     \* the routing key in the URL of each hook
    created,    \* hooks created so far
    step,       \* where each request is
    copy,       \* the repository it loaded: <<monitored, hookId, hookKey, badgeKey>>
    mine,       \* the hook it created
    monitorFaults, \* faults so far
    broken,     \* a fault, or a sync that overlapped a request, was not repaired
    overlap     \* the requests under way were not alone

repo == <<monitored, hookId, hookKey, badgeKey>>
repoFiles == <<repo, routes, badges>>
forge == <<hooks, urlKey, created>>
monitorVars == <<repoFiles, forge, step, copy, mine, monitorFaults, broken, overlap>>

Idle(p) == step[p] = "idle"
Quiescent == \A p \in Procs : Idle(p)

MonitorInit ==
    /\ monitored = FALSE /\ hookId = 0 /\ hookKey = 0 /\ badgeKey = 0
    /\ routes = {} /\ badges = {}
    /\ hooks = {} /\ urlKey = [h \in 1..MaxHooks |-> 0] /\ created = 0
    /\ step = [p \in Procs |-> "idle"]
    /\ copy = [p \in Procs |-> <<FALSE, 0, 0, 0>>]
    /\ mine = [p \in Procs |-> 0]
    /\ monitorFaults = 0 /\ broken = FALSE /\ overlap = FALSE

Goto(p, from, to) == step[p] = from /\ step' = [step EXCEPT ![p] = to]
Fault == monitorFaults < MaxFaults /\ monitorFaults' = monitorFaults + 1 /\ broken' = TRUE
NoFault == UNCHANGED <<monitorFaults, broken>>

\* The request ends, and its variables with it.
Leave(p, from) ==
    /\ Goto(p, from, "idle")
    /\ copy' = [copy EXCEPT ![p] = <<FALSE, 0, 0, 0>>]
    /\ mine' = [mine EXCEPT ![p] = 0]

\* repoOf: every handler loads the repository first.
Load(p, to) ==
    /\ Goto(p, "idle", to)
    /\ copy' = [copy EXCEPT ![p] = repo]
    /\ overlap' = \E q \in Procs \ {p} : ~Idle(q)
    /\ UNCHANGED <<repoFiles, forge, mine>> /\ NoFault

Had(p) == [monitored |-> copy[p][1], hookId |-> copy[p][2], hookKey |-> copy[p][3], badgeKey |-> copy[p][4]]

-----------------------------------------------------------------------------
(* handleMonitorOn *)

MonitorOn(p) == Load(p, "replace")

\* Replace a stale hook rather than accumulating duplicates.
DropStale(p) ==
    /\ Goto(p, "replace", "create")
    /\ hooks' = hooks \ (IF Had(p).monitored THEN {Had(p).hookId} ELSE {})
    /\ UNCHANGED <<repoFiles, urlKey, created, copy, mine, overlap>> /\ NoFault

\* The forge refuses, and the handler goes on.
DropStaleFails(p) ==
    /\ Had(p).monitored /\ Had(p).hookId # 0
    /\ Goto(p, "replace", "create") /\ Fault
    /\ UNCHANGED <<repoFiles, forge, copy, mine, overlap>>

\* The routing and badge keys are kept across reinstalls; h is a fresh one.
Kept(key, h) == IF key # 0 THEN key ELSE h
KeyOf(p)   == Kept(Had(p).hookKey, mine[p])
BadgeOf(p) == Kept(Had(p).badgeKey, mine[p])

Create(p) ==
    /\ Goto(p, "create", "install")
    /\ created < MaxHooks /\ created' = created + 1
    /\ mine' = [mine EXCEPT ![p] = created']
    /\ hooks' = hooks \cup {created'}
    /\ urlKey' = [urlKey EXCEPT ![created'] = Kept(Had(p).hookKey, created')]
    /\ UNCHANGED <<repoFiles, copy, overlap>> /\ NoFault

\* The forge refuses the webhook: the stale one is gone all the same.
CreateFails(p) ==
    /\ Leave(p, "create") /\ Fault
    /\ UNCHANGED <<repoFiles, forge, overlap>>

\* Mutant of Install: a new routing key is stored under the one of the URL.
InstallFreshKey(p) ==
    /\ Goto(p, "install", "route")
    /\ monitored' = TRUE /\ hookId' = mine[p]
    /\ hookKey' = mine[p] /\ badgeKey' = BadgeOf(p)
    /\ UNCHANGED <<routes, badges, forge, copy, mine, overlap>> /\ NoFault

\* UpdateRepo with what was installed.
Install(p) ==
    /\ Goto(p, "install", "route")
    /\ monitored' = TRUE /\ hookId' = mine[p]
    /\ hookKey' = KeyOf(p) /\ badgeKey' = BadgeOf(p)
    /\ UNCHANGED <<routes, badges, forge, copy, mine, overlap>> /\ NoFault

\* The secret cannot be sealed or the repository not be written: the hook
\* stays at the forge.
InstallFails(p) ==
    /\ Leave(p, "install") /\ Fault
    /\ UNCHANGED <<repoFiles, forge, overlap>>

\* A failing PutHook or PutBadge is logged.
PutHook(p) ==
    /\ \/ Goto(p, "route", "badge") /\ routes' = routes \cup {KeyOf(p)} /\ NoFault
       \/ Goto(p, "route", "badge, unrouted") /\ UNCHANGED routes /\ Fault
    /\ UNCHANGED <<repo, badges, forge, copy, mine, overlap>>

PutBadge(p) ==
    /\ step[p] \in {"badge", "badge, unrouted"} /\ Leave(p, step[p])
    /\ \/ /\ badges' = badges \cup {BadgeOf(p)}
          /\ broken' = (broken /\ (overlap \/ step[p] # "badge"))
          /\ UNCHANGED monitorFaults
       \/ UNCHANGED badges /\ Fault
    /\ UNCHANGED <<repo, routes, forge, overlap>>

-----------------------------------------------------------------------------
(* handleMonitorOff *)

MonitorOff(p) == Load(p, "drop")

\* A forge that refuses to delete the hook is logged.
DropHook(p) ==
    /\ Goto(p, "drop", "unroute")
    /\ \/ hooks' = hooks \ {Had(p).hookId} /\ NoFault
       \/ Had(p).hookId # 0 /\ UNCHANGED hooks /\ Fault
    /\ UNCHANGED <<repoFiles, urlKey, created, copy, mine, overlap>>

DropRoute(p) ==
    /\ Goto(p, "unroute", "unbadge")
    /\ \/ routes' = routes \ {Had(p).hookKey} /\ NoFault
       \/ Had(p).hookKey # 0 /\ UNCHANGED routes /\ Fault
    /\ UNCHANGED <<repo, badges, forge, copy, mine, overlap>>

DropBadge(p) ==
    /\ Goto(p, "unbadge", "clear")
    /\ \/ badges' = badges \ {Had(p).badgeKey} /\ NoFault
       \/ Had(p).badgeKey # 0 /\ UNCHANGED badges /\ Fault
    /\ UNCHANGED <<repo, routes, forge, copy, mine, overlap>>

\* UpdateRepo; the badge key is kept.
Clear(p) ==
    /\ Leave(p, "clear")
    /\ monitored' = FALSE /\ hookId' = 0 /\ hookKey' = 0
    /\ UNCHANGED <<badgeKey, routes, badges, forge, overlap>> /\ NoFault

ClearFails(p) ==
    /\ Leave(p, "clear") /\ Fault
    /\ UNCHANGED <<repoFiles, forge, overlap>>

\* The hub stops in the middle of a request.
HubStops(p) ==
    /\ ~Idle(p) /\ Leave(p, step[p]) /\ Fault
    /\ UNCHANGED <<repoFiles, forge, overlap>>

-----------------------------------------------------------------------------
(* syncRepo: load, probe the policy at the forge, PutRepo. *)

SyncLoad(s) == Load(s, "probe")

SyncPut(s) ==
    /\ Leave(s, "probe")
    /\ monitored' = Had(s).monitored /\ hookId' = Had(s).hookId
    /\ hookKey' = Had(s).hookKey /\ badgeKey' = Had(s).badgeKey
    /\ broken' = (broken \/ overlap)
    /\ UNCHANGED <<routes, badges, forge, monitorFaults, overlap>>

On(p) ==
    \/ MonitorOn(p) \/ DropStale(p) \/ DropStaleFails(p) \/ Create(p) \/ CreateFails(p)
    \/ Install(p) \/ InstallFails(p) \/ PutHook(p) \/ PutBadge(p)
Off(p) == MonitorOff(p) \/ DropHook(p) \/ DropRoute(p) \/ DropBadge(p) \/ Clear(p) \/ ClearFails(p)

MonitorNext ==
    \/ \E p \in Requests : On(p) \/ Off(p) \/ HubStops(p)
    \/ \E s \in Syncs : SyncLoad(s) \/ SyncPut(s)

MonitorSpec == MonitorInit /\ [][MonitorNext]_monitorVars

-----------------------------------------------------------------------------
(* Correctness. *)

\* Mutant of Accepts: the routing key alone authorizes a delivery.
AcceptsByKey(h) == urlKey[h] \in routes /\ monitored /\ hookKey = urlKey[h]

\* hookInstallation: what a delivery of hook h has to match.
Accepts(h) ==
    /\ urlKey[h] \in routes
    /\ monitored /\ hookKey = urlKey[h]
    /\ hookId = h

MonitorTypeOK ==
    /\ monitored \in BOOLEAN /\ {hookId, hookKey, badgeKey} \subseteq Numbers
    /\ routes \subseteq Numbers /\ badges \subseteq Numbers
    /\ hooks \subseteq 1..MaxHooks /\ urlKey \in [1..MaxHooks -> Numbers] /\ created \in Numbers
    /\ step \in [Procs -> Steps]
    /\ copy \in [Procs -> BOOLEAN \X Numbers \X Numbers \X Numbers]
    /\ mine \in [Procs -> Numbers]
    /\ monitorFaults \in 0..MaxFaults /\ broken \in BOOLEAN /\ overlap \in BOOLEAN

\* A repository shown as monitored receives its pushes: once the requests are
\* over, a hook exists at the forge whose deliveries are accepted, and its badge is
\* served.  Requests
\* may overlap in any way.  After a fault, or a sync that overlapped a request,
\* switching monitoring on again, alone, repairs it.
DeliveredWhenMonitored ==
    Quiescent /\ monitored /\ ~broken =>
        /\ \E h \in hooks : Accepts(h)
        /\ badgeKey \in badges

\* A hook left behind at the forge, by a fault or by overlapping requests,
\* shares the routing key but is never accepted beside the installed one.
OneHookAccepted == Cardinality({h \in hooks : Accepts(h)}) <= 1

\* The hook a request created is at the forge and nobody knows of it until the request
\* stores it, so that nobody deletes it.
CreatedInv ==
    /\ hooks \subseteq 1..created /\ hookId <= created
    /\ \A p \in Procs :
        /\ Had(p).hookId <= created
        /\ step[p] = "install" =>
            /\ mine[p] \in hooks /\ urlKey[mine[p]] = KeyOf(p)
            /\ hookId # mine[p]
            /\ \A q \in Procs : Had(q).hookId # mine[p]
            /\ \A q \in Procs \ {p} : step[q] = "install" => mine[q] # mine[p]

\* Who is about to put the hook, the route or the badge of the stored repository, or to
\* write the repository in turn.
RenewsHook(p) ==
    /\ step[p] \in {"create", "install", "unroute", "unbadge", "clear"}
    /\ Had(p).hookId = hookId
RenewsRoute(p) ==
    \/ step[p] = "route" /\ KeyOf(p) = hookKey
    \/ step[p] \in {"unbadge", "clear"}
RenewsBadge(p) ==
    \/ step[p] \in {"route", "badge"} /\ BadgeOf(p) = badgeKey
    \/ step[p] = "clear"

\* What a monitored repository misses, somebody is about to renew.
ServedInv ==
    monitored /\ ~broken =>
        /\ hookId # 0 /\ urlKey[hookId] = hookKey
        /\ hookId \in hooks \/ \E p \in Procs : RenewsHook(p)
        /\ hookKey \in routes \/ \E p \in Procs : RenewsRoute(p)
        /\ badgeKey \in badges \/ \E p \in Procs : RenewsBadge(p)

\* A request that is alone finds what it wrote, which is how it repairs a fault.
AloneInv ==
    ~overlap =>
        /\ \A p, q \in Procs : p # q => Idle(p) \/ Idle(q)
        /\ \A p \in Procs :
            /\ step[p] = "probe" => copy[p] = repo
            /\ step[p] \in {"route", "badge", "badge, unrouted"} =>
                /\ monitored /\ hookId = mine[p] /\ hookKey = KeyOf(p) /\ badgeKey = BadgeOf(p)
                /\ mine[p] \in hooks /\ urlKey[mine[p]] = hookKey
            /\ step[p] = "badge" => hookKey \in routes

\* Whatever the requests, the syncs and the faults: a monitored repository is served,
\* by one hook.  The inductive invariant of the monitoring.
MonitorInv ==
    /\ MonitorTypeOK /\ OneHookAccepted /\ DeliveredWhenMonitored
    /\ CreatedInv /\ ServedInv /\ AloneInv

=============================================================================
