------------------------------- MODULE RepoPage -------------------------------
(***************************************************************************)
(* One repository in one open page: the requests that change its record    *)
(* (hub/internal/server/api.go, feedback.go, reviews.go), the event that   *)
(* each sends once the store has answered (hub/internal/events), and the   *)
(* page that keeps the last copy it was given: by an event, by the answer  *)
(* to a request of its own, or by a load of the whole list                 *)
(* (hub/web/public/app.js).                                                *)
(*                                                                         *)
(* A copy of the record is the set of the writes it reflects.  A sync      *)
(* writes back the record it read before it asked the forge.               *)
(***************************************************************************)
EXTENDS Naturals, Sequences

CONSTANTS
    Owners,      \* requests that change the record in one store step
    Mine,        \* those of them this page sent
    Syncs,       \* syncs of the account
    Buffer,      \* bufferSize: events a stream holds
    MaxFaults    \* bound: failed writes and loads, lost connections, hidden pages

VARIABLES
    stored,      \* the stored record
    where,          \* where each request is
    held,        \* the copy it holds
    stream,      \* "boot", "connecting", "opening" or "open"
    connected,   \* the stream was open before
    buffer,      \* events on their way: a copy, or the end of a sync
    shown,       \* the copy the page shows
    load,        \* loads of the list: [st, got, touched]
    newest,      \* the load that began last (reposLoadID)
    hidden,      \* the page is in the background
    faults,
    gap          \* nothing under way tells the page what it misses

requestVars == <<stored, where, held>>
viewVars    == <<stream, connected, shown, load, newest, hidden>>
pageVars    == <<requestVars, buffer, viewVars, faults, gap>>

Writers == Owners \cup Syncs
Event(copy) == [copy |-> copy, ends |-> FALSE]
Finished    == [copy |-> {}, ends |-> TRUE]        \* a sync ended
Loads    == {"refresh", "direct"}
Idle     == [st |-> "idle", got |-> {}, touched |-> FALSE]
Asked    == [st |-> "asked", got |-> {}, touched |-> FALSE]

PageInit ==
    /\ stored = {} /\ shown = {}
    /\ where = [r \in Writers |-> "new"]
    /\ held = [r \in Writers |-> {}]
    /\ stream = "boot" /\ connected = FALSE /\ buffer = <<>>
    /\ load = [l \in Loads |-> IF l = "direct" THEN Asked ELSE Idle]
    /\ newest = "direct"
    /\ hidden = FALSE /\ faults = 0 /\ gap = FALSE

Fault == faults < MaxFaults /\ faults' = faults + 1
StepTo(r, from, to) == where[r] = from /\ where' = [where EXCEPT ![r] = to]

------------------------------------------------------------------------------
(* The hub: a request changes the record and sends an event.                 *)

\* UpdateRepo reads, changes and writes under the lock of the store.
UpdateRepo(r) ==
    /\ StepTo(r, "new", "written")
    /\ stored' = stored \cup {r}
    /\ held' = [held EXCEPT ![r] = stored']
    /\ UNCHANGED <<buffer, viewVars, faults, gap>>

UpdateFails(r) ==
    /\ StepTo(r, "new", "refused") /\ Fault
    /\ UNCHANGED <<stored, held, buffer, viewVars, gap>>

\* syncRepo loads the record, asks the forge...
SyncLoads(s) ==
    /\ StepTo(s, "new", "asking")
    /\ held' = [held EXCEPT ![s] = stored]
    /\ UNCHANGED <<stored, buffer, viewVars, faults, gap>>

\* ...and stores what it loaded with what the forge said.
SyncPuts(s) ==
    /\ StepTo(s, "asking", "written")
    /\ stored' = held[s] \cup {s}
    /\ held' = [held EXCEPT ![s] = stored']
    /\ UNCHANGED <<buffer, viewVars, faults, gap>>

\* The forge or the store refuses: the sync goes on to its end.
SyncFails(s) ==
    /\ StepTo(s, "asking", "listed") /\ Fault
    /\ UNCHANGED <<stored, held, buffer, viewVars, gap>>

Subscribed == stream \in {"opening", "open"}
Fits == Len(buffer) < Buffer

\* Mutant of Send: an event that does not fit takes the place of the last one.
SendOverLast(e) ==
    buffer' = IF ~Subscribed THEN buffer
              ELSE IF Fits THEN Append(buffer, e)
              ELSE [buffer EXCEPT ![Len(buffer)] = e]

\* Broker.Publish never blocks: without a stream, or without room, the event is lost.
Send(e) == buffer' = IF Subscribed /\ Fits THEN Append(buffer, e) ELSE buffer

\* Another request still has to tell what is stored.
ToldLater(r) == \E q \in Writers \ {r} : where[q] = "written" /\ held[q] = stored

\* The page will know what is stored once this event reaches it; an event that is lost
\* or overtaken by a newer one leaves a gap.
Publish(r) ==
    /\ StepTo(r, "written", IF r \in Syncs THEN "listed" ELSE IF r \in Mine THEN "answer" ELSE "done")
    /\ Send(Event(held[r]))
    /\ gap' = IF ToldLater(r) THEN gap
              ELSE ~(held[r] = stored /\ Subscribed /\ Fits)
    /\ UNCHANGED <<stored, held, viewVars, faults>>

SyncFinished(s) ==
    /\ StepTo(s, "listed", "done")
    /\ Send(Finished)
    /\ UNCHANGED <<stored, held, viewVars, faults, gap>>

------------------------------------------------------------------------------
(* The page.                                                                 *)

\* A live copy replaces the one shown; a load under way will keep it.
ShowLive(copy) ==
    /\ shown' = copy
    /\ load' = [l \in Loads |-> [load[l] EXCEPT !.touched = load[l].st \in {"asked", "answered"}]]

\* upsertRepo: the answer to a request of the page, however late it comes.
Answered(r) ==
    /\ StepTo(r, "answer", "done")
    /\ ShowLive(held[r])
    /\ gap' = (gap \/ held[r] # stored)
    /\ UNCHANGED <<stored, held, buffer, stream, connected, newest, hidden, faults>>

\* onmessage of connectEvents.
Receive ==
    /\ stream = "open" /\ buffer # <<>>
    /\ buffer' = Tail(buffer)
    /\ IF Head(buffer).ends
       THEN /\ load' = [load EXCEPT !["direct"] = Asked] /\ newest' = "direct"
            /\ UNCHANGED shown
       ELSE ShowLive(Head(buffer).copy) /\ UNCHANGED newest
    /\ UNCHANGED <<requestVars, stream, connected, hidden, faults, gap>>

\* refreshDashboard does nothing in the background or while a refresh is under way.
RefreshDashboard ==
    IF hidden \/ load["refresh"].st # "idle" THEN UNCHANGED <<load, newest>>
    ELSE load' = [load EXCEPT !["refresh"] = Asked] /\ newest' = "refresh"

\* Every minute.
Refresh ==
    /\ ~hidden /\ load["refresh"].st = "idle" /\ stream # "boot"
    /\ RefreshDashboard
    /\ UNCHANGED <<requestVars, buffer, stream, connected, shown, hidden, faults, gap>>

\* The person leaves the page, or comes back to it.
Hide ==
    /\ ~hidden /\ stream # "boot" /\ hidden' = TRUE /\ Fault
    /\ UNCHANGED <<requestVars, buffer, stream, connected, shown, load, newest, gap>>

ComeBack ==
    /\ hidden /\ hidden' = FALSE
    /\ IF load["refresh"].st # "idle" THEN UNCHANGED <<load, newest>>
       ELSE load' = [load EXCEPT !["refresh"] = Asked] /\ newest' = "refresh"
    /\ UNCHANGED <<requestVars, buffer, stream, connected, shown, faults, gap>>

\* The hub answers a load with what is stored.
Serve(l) ==
    /\ load[l].st = "asked"
    /\ load' = [load EXCEPT ![l].st = "answered", ![l].got = stored]
    /\ UNCHANGED <<requestVars, buffer, stream, connected, shown, newest, hidden, faults, gap>>

\* A refresh goes on to the commits of the selected repository; loads that ended
\* leave nothing behind.
After(l) == IF l = "refresh" THEN [Idle EXCEPT !.st = "history"] ELSE Idle

\* Mutant of KeptCopy: the list replaces whatever came while it was on its way.
KeptNothing(l) == load[l].got

\* "Preserve live updates received while the snapshot request was in flight."
KeptCopy(l) == IF load[l].touched THEN shown ELSE load[l].got

NoOlderOnItsWay == \A i \in DOMAIN buffer : buffer[i].ends \/ buffer[i].copy = stored

\* The rest of loadRepos; the first one, at the start of the page, is followed by
\* connectEvents.
Apply(l) ==
    /\ load[l].st = "answered" /\ newest = l
    /\ shown' = KeptCopy(l)
    /\ load' = [load EXCEPT ![l] = After(l)]
    /\ stream' = IF stream = "boot" THEN "connecting" ELSE stream
    /\ gap' = (gap /\ ~(shown' = stored /\ NoOlderOnItsWay))
    /\ UNCHANGED <<requestVars, buffer, connected, newest, hidden, faults>>

\* A newer load began meanwhile.
Discard(l) ==
    /\ load[l].st = "answered" /\ newest # l
    /\ load' = [load EXCEPT ![l] = After(l)]
    /\ UNCHANGED <<requestVars, buffer, stream, connected, shown, newest, hidden, faults, gap>>

HistoryLoaded ==
    /\ load["refresh"].st = "history"
    /\ load' = [load EXCEPT !["refresh"] = Idle]
    /\ UNCHANGED <<requestVars, buffer, stream, connected, shown, newest, hidden, faults, gap>>

\* Mutant of LoadFails: refreshingDashboard stays set.
LoadFailsFor(l) ==
    /\ load[l].st \in {"asked", "answered"} /\ stream # "boot" /\ Fault
    /\ load' = [load EXCEPT ![l] = [Idle EXCEPT !.st = "failed"]]
    /\ UNCHANGED <<requestVars, buffer, stream, connected, shown, newest, hidden, gap>>

LoadFails(l) ==
    /\ load[l].st \in {"asked", "answered"} /\ stream # "boot" /\ Fault
    /\ load' = [load EXCEPT ![l] = Idle]
    /\ UNCHANGED <<requestVars, buffer, stream, connected, shown, newest, hidden, gap>>

------------------------------------------------------------------------------
(* The connection: EventSource retries on its own.                           *)

\* handleEvents subscribes before it answers.
Subscribe ==
    /\ stream = "connecting" /\ stream' = "opening"
    /\ UNCHANGED <<requestVars, buffer, connected, shown, load, newest, hidden, faults, gap>>

\* onopen: "recover events missed during a disconnect".
OnOpen ==
    /\ stream = "opening" /\ stream' = "open"
    /\ connected' = TRUE
    /\ IF connected THEN RefreshDashboard ELSE UNCHANGED <<load, newest>>
    /\ UNCHANGED <<requestVars, buffer, shown, hidden, faults, gap>>

\* The connection breaks, with what was on its way.
Disconnect ==
    /\ Subscribed /\ stream' = "connecting" /\ Fault
    /\ buffer' = <<>>
    /\ gap' = (gap \/ \E i \in DOMAIN buffer : buffer[i] = Event(stored))
    /\ UNCHANGED <<requestVars, connected, shown, load, newest, hidden>>

RequestStep(r) == Publish(r) \/ (r \in Syncs /\ (SyncPuts(r) \/ SyncFinished(r))) \/ Answered(r)
LoadStep(l) == Serve(l) \/ Apply(l) \/ Discard(l) \/ (l = "refresh" /\ HistoryLoaded)

PageNext ==
    \/ \E r \in Owners : UpdateRepo(r) \/ UpdateFails(r)
    \/ \E s \in Syncs : SyncLoads(s) \/ SyncFails(s)
    \/ \E r \in Writers : RequestStep(r)
    \/ \E l \in Loads : LoadStep(l) \/ LoadFails(l)
    \/ Receive \/ Refresh \/ Hide \/ ComeBack
    \/ Subscribe \/ OnOpen \/ Disconnect

PageSpec == PageInit /\ [][PageNext]_pageVars

\* A request that began ends, a connection opens, the timer of the page runs and its
\* fetches are answered; a page is not hidden for ever.
FairPageSpec ==
    /\ PageSpec
    /\ \A r \in Writers : WF_pageVars(RequestStep(r))
    /\ \A l \in Loads : WF_pageVars(LoadStep(l))
    /\ WF_pageVars(Receive) /\ WF_pageVars(Refresh) /\ WF_pageVars(ComeBack)
    /\ WF_pageVars(Subscribe) /\ WF_pageVars(OnOpen)

------------------------------------------------------------------------------
(* Properties.                                                               *)

\* Something that changes what the page shows is under way.
Busy ==
    \/ \E r \in Writers : where[r] \in {"written", "answer"}
    \/ buffer # <<>>
    \/ \E l \in Loads : load[l].st \in {"asked", "answered"}

\* A page with nothing under way shows what is stored, unless the last event about it
\* was lost (no stream, no room, a broken connection) or overtaken by an older one, or
\* the answer to a request of the page came after a newer copy: three ways, and
\* neither the list that was loaded meanwhile nor another load of it adds a fourth.
PageInv == Busy \/ gap \/ shown = stored

\* Whatever was lost, overtaken or late, the page shows what is stored again.
PageCatchesUp == <>[](shown = stored)

------------------------------------------------------------------------------
(* What a comment says, and the code does not keep.                          *)

\* "Monitoring state, hook identity, coding rules and history belong to the hub and
\* are preserved across syncs": what a request stored is still in the record.
SyncKeepsOwnerWrites ==
    \A r \in Owners : where[r] \in {"written", "answer", "done"} => r \in stored
==============================================================================
