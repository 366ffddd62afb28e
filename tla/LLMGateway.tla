----------------------------- MODULE LLMGateway -----------------------------
(***************************************************************************)
(* The LLM gateway of the hub (hub/internal/server/gateway.go): requests   *)
(* of several accounts share the deployment's provider, within a daily     *)
(* quota and a number of requests in flight per account, and a number of   *)
(* requests relayed at once.  The quota is read from the account before    *)
(* the request and written after it; the per-minute rate, a WindowLimiter, *)
(* may refuse any request.  The count is part of the user record, which a  *)
(* refresh of the account's credential (accounts.go) and a sign-in         *)
(* (auth.go) write back whole as they read it: HubAccount has the steps    *)
(* between their read and their write, here they are one copy each.        *)
(***************************************************************************)
EXTENDS Naturals, FiniteSets

CONSTANTS
    Requests,   \* goroutines that serve requests
    Account,    \* [Requests -> accounts]
    Writers,    \* goroutines that write back the whole record of an account
    Parallel,   \* gatewayAccountParallel
    Slots,      \* Gateway.Concurrency
    Quota,      \* Gateway.DailyTokens
    MaxCost,    \* most tokens a request consumes: the payload and completion caps
    MaxDay,     \* bound: days
    MaxTotal    \* bound: tokens counted, and erased, on a day

Principals == {Account[r] : r \in Requests}

ASSUME GatewayAssumption ==
    /\ IsFiniteSet(Requests) /\ DOMAIN Account = Requests
    /\ Parallel \in Nat \ {0} /\ Slots \in Nat \ {0} /\ Quota \in Nat \ {0}
    /\ MaxCost \in Nat \ {0} /\ MaxDay \in Nat /\ MaxTotal \in Nat

VARIABLES
    today,      \* the UTC day
    usedDay,    \* LLMUsage.Day of each account
    used,       \* LLMUsage.Tokens
    inflight,   \* gatewayState.inflight
    slots,      \* requests that hold a slot
    pc,         \* where each request is
    day,        \* the day it read when it checked the quota
    cost,       \* the tokens its answer consumed
    copies,     \* the records that writers read and have yet to write back
    counted,    \* ghost: [account -> [day -> tokens]] of the requests recorded
    erased,     \* ghost: [account -> [day -> tokens]] that older records removed
    straddled   \* accounts with a request recorded on another day than its own

usage == <<usedDay, used, copies, counted, erased, straddled>>
vars  == <<today, usage, inflight, slots, pc, day, cost>>

Init ==
    /\ today = 0
    /\ usedDay = [a \in Principals |-> 0] /\ used = [a \in Principals |-> 0]
    /\ inflight = [a \in Principals |-> 0] /\ slots = 0
    /\ pc = [r \in Requests |-> "idle"]
    /\ day = [r \in Requests |-> 0] /\ cost = [r \in Requests |-> 0]
    /\ counted = [a \in Principals |-> [d \in 0..MaxDay |-> 0]]
    /\ erased = counted /\ copies = {} /\ straddled = {}

Goto(r, from, to) == pc[r] = from /\ pc' = [pc EXCEPT ![r] = to]

\* LLMUsage.Today
Today(a, d) == IF usedDay[a] = d THEN used[a] ELSE 0

\* Mutant of UnderQuota: the last token of the quota is not the last one.
UnderQuotaOrAtIt(a) == Today(a, today) <= Quota

UnderQuota(a) == Today(a, today) < Quota

\* The token is known, the rate allows the request and the quota is not used
\* up; otherwise the request is refused and nothing changes.
Check(r) ==
    /\ UnderQuota(Account[r])
    /\ Goto(r, "idle", "checked")
    /\ day' = [day EXCEPT ![r] = today]
    /\ UNCHANGED <<today, usage, inflight, slots, cost>>

\* gatewayState.enter
Enter(r) ==
    /\ inflight[Account[r]] < Parallel
    /\ Goto(r, "checked", "entered")
    /\ inflight' = [inflight EXCEPT ![Account[r]] = @ + 1]
    /\ UNCHANGED <<today, usage, slots, day, cost>>

EnterRefused(r) ==
    /\ inflight[Account[r]] >= Parallel
    /\ Goto(r, "checked", "idle")
    /\ day' = [day EXCEPT ![r] = 0]
    /\ UNCHANGED <<today, usage, inflight, slots, cost>>

\* The deferred leave, on every return from here on.
Leave(r) ==
    /\ pc' = [pc EXCEPT ![r] = "idle"]
    /\ inflight' = [inflight EXCEPT ![Account[r]] = @ - 1]
    /\ day' = [day EXCEPT ![r] = 0] /\ cost' = [cost EXCEPT ![r] = 0]

\* Mutant of BadRequest: the request is still in flight when it is refused.
BadRequestStays(r) ==
    /\ pc[r] = "entered"
    /\ pc' = [pc EXCEPT ![r] = "idle"]
    /\ UNCHANGED <<today, usage, inflight, slots, day, cost>>

\* The body is too large, or no chat completion.
BadRequest(r) ==
    /\ pc[r] = "entered"
    /\ Leave(r)
    /\ UNCHANGED <<today, usage, slots>>

Accept(r) ==
    /\ Goto(r, "entered", "waiting")
    /\ UNCHANGED <<today, usage, inflight, slots, day, cost>>

TakeSlot(r) ==
    /\ slots < Slots /\ slots' = slots + 1
    /\ Goto(r, "waiting", "relayed")
    /\ UNCHANGED <<today, usage, inflight, day, cost>>

\* Mutant of GiveUp: a request waits for a slot until it gets one.
NeverGiveUp(r) == FALSE

\* The timeout passes, or the client goes away, before a slot is free.
GiveUp(r) ==
    /\ pc[r] = "waiting"
    /\ Leave(r)
    /\ UNCHANGED <<today, usage, slots>>

\* The provider answered; what it consumed is read from the answer.
Answered(r, n) ==
    /\ Goto(r, "relayed", "answered")
    /\ cost' = [cost EXCEPT ![r] = n]
    /\ UNCHANGED <<today, usage, inflight, slots, day>>

\* No answer, in time or in full: nothing is counted.
Fails(r) ==
    /\ pc[r] = "relayed"
    /\ Leave(r) /\ slots' = slots - 1
    /\ UNCHANGED <<today, usage>>

\* Mutant of Base: the count of an earlier day goes on.
BaseOfAnyDay(a, d) == used[a]

\* The count a request of day d is added to: a count of another day is dropped.
Base(a, d) == IF usedDay[a] = d THEN used[a] ELSE 0

\* recordGatewayUsage, under the store's lock.
Record(r) ==
    LET a == Account[r] IN
    /\ Goto(r, "answered", "recorded")
    /\ used' = [used EXCEPT ![a] = Base(a, day[r]) + cost[r]]
    /\ usedDay' = [usedDay EXCEPT ![a] = day[r]]
    /\ counted' = [counted EXCEPT ![a][day[r]] = @ + cost[r]]
    /\ counted'[a][day[r]] <= MaxTotal
    /\ straddled' = IF today = day[r] THEN straddled ELSE straddled \cup {a}
    /\ UNCHANGED <<copies, erased, today, inflight, slots, day, cost>>

\* The write fails: it is logged.
RecordFails(r) ==
    /\ Goto(r, "answered", "recorded")
    /\ UNCHANGED <<today, usage, inflight, slots, day, cost>>

Reply(r) ==
    /\ pc[r] = "recorded"
    /\ Leave(r) /\ slots' = slots - 1
    /\ UNCHANGED <<today, usage>>

-----------------------------------------------------------------------------
(* Whole records: Manager.Token and handleAuthCallback. *)

requests == <<today, inflight, slots, pc, day, cost>>
Copy(w, a, d, n) == [by |-> w, account |-> a, day |-> d, tokens |-> n]
Holds(w) == \E x \in copies : x.by = w

ReadAccount(w, a) ==
    /\ ~Holds(w)
    /\ copies' = copies \cup {Copy(w, a, usedDay[a], used[a])}
    /\ UNCHANGED <<requests, usedDay, used, counted, erased, straddled>>

\* A sign-in takes a read that fails for an account that is new: no usage.
ReadAccountFails(w, a) ==
    /\ ~Holds(w)
    /\ copies' = copies \cup {Copy(w, a, 0, 0)}
    /\ UNCHANGED <<requests, usedDay, used, counted, erased, straddled>>

\* PutUser: the record is again what the writer read.
WriteAccount(x) ==
    LET a    == x.account
        left == IF x.day = today THEN x.tokens ELSE 0
        lost == IF left < Today(a, today) THEN Today(a, today) - left ELSE 0
    IN
    /\ copies' = copies \ {x}
    /\ used' = [used EXCEPT ![a] = x.tokens]
    /\ usedDay' = [usedDay EXCEPT ![a] = x.day]
    /\ erased' = [erased EXCEPT ![a][today] = @ + lost]
    /\ erased'[a][today] <= MaxTotal
    /\ UNCHANGED <<requests, counted, straddled>>

\* The credential was still valid, or the refresh or the write failed.
DropCopy(x) ==
    /\ copies' = copies \ {x}
    /\ UNCHANGED <<requests, usedDay, used, counted, erased, straddled>>

-----------------------------------------------------------------------------

Midnight ==
    /\ today < MaxDay /\ today' = today + 1
    /\ UNCHANGED <<usage, inflight, slots, pc, day, cost>>

\* What a request does without waiting for another one.
GoOn(r) ==
    \/ Enter(r) \/ EnterRefused(r) \/ BadRequest(r) \/ Accept(r) \/ GiveUp(r)
    \/ \E n \in 0..MaxCost : Answered(r, n)
    \/ Fails(r) \/ Record(r) \/ RecordFails(r) \/ Reply(r)

Next ==
    \/ Midnight
    \/ \E r \in Requests : Check(r) \/ TakeSlot(r) \/ GoOn(r)
    \/ \E w \in Writers, a \in Principals : ReadAccount(w, a) \/ ReadAccountFails(w, a)
    \/ \E x \in copies : WriteAccount(x) \/ DropCopy(x)

Spec == Init /\ [][Next]_vars

\* A request that came in goes on.  What it waits for ends: the wait for a slot
\* and the relay by their timeout.  Nothing says that a waiting request gets
\* the slot it waits for.
FairSpec == Spec /\ \A r \in Requests : WF_vars(GoOn(r))

-----------------------------------------------------------------------------
(* Correctness. *)

Of(a) == {r \in Requests : Account[r] = a}
In(s) == {r \in Requests : pc[r] \in s}

\* What a request may consume beyond the quota: each request of the account
\* that passed the check while less than the quota was counted.
Most(a) == Quota - 1 + Cardinality(Of(a)) * MaxCost

TypeOK ==
    /\ today \in 0..MaxDay
    /\ usedDay \in [Principals -> 0..MaxDay] /\ used \in [Principals -> 0..MaxTotal]
    /\ inflight \in [Principals -> 0..Parallel] /\ slots \in 0..Slots
    /\ pc \in [Requests -> {"idle", "checked", "entered", "waiting", "relayed", "answered", "recorded"}]
    /\ day \in [Requests -> 0..MaxDay] /\ cost \in [Requests -> 0..MaxCost]
    /\ counted \in [Principals -> [0..MaxDay -> 0..MaxTotal]]
    /\ erased \in [Principals -> [0..MaxDay -> 0..MaxTotal]]
    /\ copies \subseteq [by : Writers, account : Principals, day : 0..MaxDay, tokens : 0..MaxTotal]
    /\ straddled \subseteq Principals

\* "Each account has at most 4 requests in flight": the count is the number of
\* requests between enter and leave, so that no early return leaks a place.
InFlightIsExact ==
    \A a \in Principals :
        inflight[a] = Cardinality(Of(a) \cap In({"entered", "waiting", "relayed", "answered", "recorded"}))

\* "Requests relayed at once": the slots taken are those of the requests that
\* were relayed and did not return.
SlotsAreExact == slots = Cardinality(In({"relayed", "answered", "recorded"}))

\* Whichever way a request ends, its place and its slot are given back, once.
GatewayInv == TypeOK /\ InFlightIsExact /\ SlotsAreExact

\* The quota is read before a request and written after it, by requests that
\* overlap: beyond it goes at most one request of each goroutine, and whatever
\* stale records erased on that day; and the stored count lacks no more than
\* that.  As long as no request is recorded on another day than its own.
QuotaOvershootIsBounded ==
    \A a \in Principals \ straddled :
        /\ \A d \in 0..MaxDay : counted[a][d] <= Most(a) + erased[a][d]
        /\ Today(a, today) <= counted[a][today]
        /\ counted[a][today] <= Today(a, today) + erased[a][today]

\* Every request is answered: its goroutine is free again and again.
RequestsEnd == \A r \in Requests : []<>(pc[r] = "idle")

=============================================================================
