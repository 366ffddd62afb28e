--------------------------- MODULE AnalysisRunner ---------------------------
(***************************************************************************)
(* The analysis queue of Probe Hub (hub/internal/analysis): the request    *)
(* handlers that submit and cancel analyses, the worker pool that runs     *)
(* them, the in-memory slot table and activity list, and the persisted     *)
(* "latest run" and stored records of each repository.                     *)
(*                                                                         *)
(* An attempt is one accepted Submit.  It is identified by its enqueue     *)
(* time queuedAt, taken under Runner.mu and therefore strictly increasing: *)
(* here the index of the attempt in the sequence `attempts`.  A job key    *)
(* stands for user/repo/commit/variant, as jobKey builds it.  Every step   *)
(* below is what one goroutine does between two points where another one   *)
(* may run: a critical section of Runner.mu or of the store lock, a        *)
(* channel operation, or one publication.                                  *)
(*                                                                         *)
(* Left out: the content of the analysis (git, CLI, report), learnOutcomes *)
(* (it writes only the learning counters of a repository) and              *)
(* publishStatus (a best-effort call to the forge, no hub state).          *)
(***************************************************************************)
EXTENDS Naturals, Sequences, FiniteSets

CONSTANTS
    Users,        \* accounts
    Repos,        \* tracked repositories, each of one account
    Keys,         \* job keys
    RepoOf,       \* RepoOf[k]: the repository of a job key
    UserOf,       \* UserOf[r]: the account a repository belongs to
    Plans,        \* the job keys of variant "plan"; the others are "normal"
    Clients,      \* concurrent request handlers (webhook, dashboard, MCP)
    Workers,      \* worker goroutines, cfg.Workers of them
    QueueSize,    \* capacity of the job channel, cfg.QueueSize
    UserQuota,    \* cfg.UserQuota
    NoRun,        \* the nil *Run
    MaxAttempts,  \* bound: attempts admitted in a behaviour
    MaxCancels,   \* bound: cancellations
    MaxFailures,  \* bound: store writes that fail
    MaxCrashes,   \* bound: process restarts
    MaxAged       \* bound: attempts that grow older than ActivityWindow

ASSUME RunnerAssumption ==
    /\ RepoOf \in [Keys -> Repos]
    /\ UserOf \in [Repos -> Users]
    /\ Plans \subseteq Keys
    /\ IsFiniteSet(Keys)
    /\ Clients \cap Workers = {}
    /\ QueueSize \in Nat \ {0}
    /\ UserQuota \in Nat \ {0}
    /\ MaxAttempts \in Nat
    /\ MaxCancels \in Nat
    /\ MaxFailures \in Nat
    /\ MaxCrashes \in Nat
    /\ MaxAged \in Nat

VARIABLES
    attempts,   \* sequence of job keys: attempts[a] is the key of attempt a
    active,     \* Runner.active: the attempt holding the slot of a key, or 0
    started,    \* attempt.started (attempts are never reused, so never reset)
    cancelled,  \* attempt.cancelled
    perUser,    \* Runner.perUser
    queue,      \* Runner.queue, the buffered channel
    ready,      \* the attempts whose Job.ready channel is closed
    activity,   \* Runner.activity: the status listed for an attempt
    aged,       \* attempts finished more than ActivityWindow (48 h) ago
    stream,     \* the "run" events published for an attempt, oldest first
    latest,     \* store: Repo.Latest
    records,    \* store: the record kept for a key (commit and variant)
    pc,         \* what each goroutine does next
    cur,        \* the attempt it works on
    out,        \* the status of the run it is about to publish
    promised,   \* attempts whose enqueue time a successful Submit returned
    faults      \* how many cancellations, store failures and restarts so far

vars == <<attempts, active, started, cancelled, perUser, queue, ready, activity,
          aged, stream, latest, records, pc, cur, out, promised, faults>>

slotVars   == <<active, started, cancelled, perUser>>
storeVars  == <<latest, records>>
threadVars == <<pc, cur, out>>

Threads  == Clients \cup Workers
Attempts == 1..MaxAttempts
Terminal == {"done", "failed", "cancelled"}
Faults   == {"cancel", "store", "crash"}
Status   == {"queued", "running"} \cup Terminal
Places   == {"idle", "send", "busy", "ready", "fallback", "remember", "stream", "latest",
             "begin", "analyze", "record", "release"}

KeyOf(a)  == attempts[a]
OwnerOf(k) == UserOf[RepoOf[k]]
RunOf(a, s) == [attempt |-> a, status |-> s]
Runs == [attempt : Attempts, status : Status]

\* The nil pointer is no run.
ASSUME NoRunAssumption == NoRun \notin Runs

Init ==
    /\ attempts = <<>>
    /\ active = [k \in Keys |-> 0]
    /\ started = {} /\ cancelled = {}
    /\ perUser = [u \in Users |-> 0]
    /\ queue = <<>>
    /\ ready = {}
    /\ activity = [a \in Attempts |-> "none"]
    /\ aged = {}
    /\ stream = [a \in Attempts |-> <<>>]
    /\ latest = [r \in Repos |-> NoRun]
    /\ records = [k \in Keys |-> NoRun]
    /\ pc = [t \in Threads |-> "idle"]
    /\ cur = [t \in Threads |-> 0]
    /\ out = [t \in Threads |-> "queued"]
    /\ promised = {}
    /\ faults = [f \in Faults |-> 0]

Goto(t, where) == pc' = [pc EXCEPT ![t] = where]

\* Hand an attempt to publishRun with the given status.
Publishing(t, a, s) ==
    /\ Goto(t, "remember")
    /\ cur' = [cur EXCEPT ![t] = a]
    /\ out' = [out EXCEPT ![t] = s]

-----------------------------------------------------------------------------
(* Slots: the fields guarded by Runner.mu. *)

\* Mutant of ReleaseLocked: the slot of the commit is freed, whoever holds it.
ReleaseAnyAttempt(a) ==
    /\ active' = [active EXCEPT ![KeyOf(a)] = 0]
    /\ perUser' = [perUser EXCEPT ![OwnerOf(KeyOf(a))] = IF @ <= 1 THEN 0 ELSE @ - 1]

\* releaseLocked: free the slot of this exact attempt; a newer attempt of the
\* same key keeps its own.
ReleaseLocked(a) ==
    IF active[KeyOf(a)] = a
    THEN /\ active' = [active EXCEPT ![KeyOf(a)] = 0]
         /\ perUser' = [perUser EXCEPT ![OwnerOf(KeyOf(a))] = IF @ <= 1 THEN 0 ELSE @ - 1]
    ELSE UNCHANGED <<active, perUser>>

-----------------------------------------------------------------------------
(* Submit.  Malformed requests are refused before any state is touched. *)

\* The commit is already queued or running: its enqueue time is returned.
SubmitDuplicate(c, k) ==
    /\ pc[c] = "idle"
    /\ active[k] # 0
    /\ promised' = promised \cup {active[k]}
    /\ UNCHANGED <<attempts, slotVars, queue, ready, activity, aged, stream,
                   storeVars, threadVars, faults>>

\* The first critical section: take the slot, or return ErrQuota (no change).
SubmitAdmit(c, k) ==
    /\ pc[c] = "idle"
    /\ Len(attempts) < MaxAttempts
    /\ active[k] = 0
    /\ perUser[OwnerOf(k)] < UserQuota
    /\ attempts' = Append(attempts, k)
    /\ active' = [active EXCEPT ![k] = Len(attempts) + 1]
    /\ perUser' = [perUser EXCEPT ![OwnerOf(k)] = @ + 1]
    /\ Goto(c, "send")
    /\ cur' = [cur EXCEPT ![c] = Len(attempts) + 1]
    /\ UNCHANGED <<started, cancelled, queue, ready, activity, aged, stream,
                   storeVars, out, promised, faults>>

\* Mutant of SubmitSend: a job that does not fit is announced all the same.
SubmitSendOrDrop(c) ==
    /\ pc[c] = "send"
    /\ queue' = IF Len(queue) < QueueSize THEN Append(queue, cur[c]) ELSE queue
    /\ Publishing(c, cur[c], "queued")
    /\ UNCHANGED <<attempts, slotVars, ready, activity, aged, stream, storeVars,
                   promised, faults>>

\* The non-blocking send, outside the lock.
SubmitSend(c) ==
    /\ pc[c] = "send"
    /\ IF Len(queue) < QueueSize
       THEN /\ queue' = Append(queue, cur[c])
            /\ Publishing(c, cur[c], "queued")
       ELSE /\ Goto(c, "busy")
            /\ UNCHANGED <<queue, cur, out>>
    /\ UNCHANGED <<attempts, slotVars, ready, activity, aged, stream, storeVars,
                   promised, faults>>

\* Mutant of SubmitBusy: ErrBusy without giving the slot back.
SubmitBusyLeaks(c) ==
    /\ pc[c] = "busy"
    /\ Goto(c, "idle")
    /\ UNCHANGED <<attempts, slotVars, queue, ready, activity, aged, stream,
                   storeVars, cur, out, promised, faults>>

\* The channel was full: give the slot back and return ErrBusy.
SubmitBusy(c) ==
    /\ pc[c] = "busy"
    /\ ReleaseLocked(cur[c])
    /\ Goto(c, "idle")
    /\ UNCHANGED <<attempts, started, cancelled, queue, ready, activity, aged, stream,
                   storeVars, cur, out, promised, faults>>

\* markQueued is over: let the worker proceed and return the enqueue time.
SubmitReady(c) ==
    /\ pc[c] = "ready"
    /\ ready' = ready \cup {cur[c]}
    /\ promised' = promised \cup {cur[c]}
    /\ Goto(c, "idle")
    /\ UNCHANGED <<attempts, slotVars, queue, activity, aged, stream, storeVars,
                   cur, out, faults>>

-----------------------------------------------------------------------------
(* Cancel. *)

\* Mutant of Cancel: a running attempt may be withdrawn too.
CancelRunning(c, k) ==
    /\ pc[c] = "idle"
    /\ faults["cancel"] < MaxCancels
    /\ active[k] # 0
    /\ cancelled' = cancelled \cup {active[k]}
    /\ ReleaseLocked(active[k])
    /\ Publishing(c, active[k], "cancelled")
    /\ faults' = [faults EXCEPT !["cancel"] = @ + 1]
    /\ UNCHANGED <<attempts, started, queue, ready, activity, aged, stream,
                   storeVars, promised>>

\* The critical section: only an attempt that has not started is withdrawn
\* (otherwise ErrNotQueued, no change).  Its slot is freed at once, the job
\* stays in the channel.
Cancel(c, k) ==
    /\ pc[c] = "idle"
    /\ faults["cancel"] < MaxCancels
    /\ active[k] # 0
    /\ active[k] \notin started \cup cancelled
    /\ cancelled' = cancelled \cup {active[k]}
    /\ ReleaseLocked(active[k])
    /\ Publishing(c, active[k], "cancelled")
    /\ faults' = [faults EXCEPT !["cancel"] = @ + 1]
    /\ UNCHANGED <<attempts, started, queue, ready, activity, aged, stream,
                   storeVars, promised>>

\* The stored normal results of a repository; the history is ordered by
\* enqueue time, newest first.
History(r) == {records[k] : k \in {k \in Keys \ Plans : RepoOf[k] = r}} \ {NoRun}

LatestStored(r) ==
    IF History(r) = {} THEN {NoRun}
    ELSE {x \in History(r) : \A y \in History(r) : y.attempt <= x.attempt}

\* When the withdrawn attempt is the repository's latest run, fall back to the
\* latest stored result.
CancelFallback(c) ==
    LET r == RepoOf[KeyOf(cur[c])] IN
    /\ pc[c] = "fallback"
    /\ IF latest[r] # NoRun /\ latest[r].attempt = cur[c]
       THEN \E x \in LatestStored(r) : latest' = [latest EXCEPT ![r] = x]
       ELSE UNCHANGED latest
    /\ Goto(c, "idle")
    /\ UNCHANGED <<attempts, slotVars, queue, ready, activity, aged, stream, records,
                   cur, out, promised, faults>>

-----------------------------------------------------------------------------
(* publishRun, run by Submit (queued) and by process (running, then the      *)
(* outcome); Cancel runs its first two parts.                                *)

\* FinishedAt.Before(cutoff): the finish time of an active attempt is zero.
FinishedLongAgo(act, a) == act[a] \notin Terminal \/ a \in aged

\* pruneActivity forgets the finished attempts older than ActivityWindow.
PruneActivity(act) ==
    [a \in Attempts |->
        IF act[a] \in Terminal /\ FinishedLongAgo(act, a) THEN "none" ELSE act[a]]

RememberActivity(t) ==
    /\ pc[t] = "remember"
    /\ activity' = [PruneActivity(activity) EXCEPT ![cur[t]] = out[t]]
    /\ Goto(t, "stream")
    /\ UNCHANGED <<attempts, slotVars, queue, ready, aged, stream, storeVars,
                   cur, out, promised, faults>>

\* What follows a publication.
AfterPublish(t) ==
    CASE out[t] = "queued"    -> "ready"
      [] out[t] = "running"   -> "analyze"
      [] out[t] = "cancelled" -> "idle"
      [] OTHER                -> "release"

\* Only a normal analysis becomes the repository's latest run.
StreamRun(t) ==
    /\ pc[t] = "stream"
    /\ stream' = [stream EXCEPT ![cur[t]] = Append(@, out[t])]
    /\ Goto(t, IF KeyOf(cur[t]) \in Plans THEN AfterPublish(t)
               ELSE IF out[t] = "cancelled" THEN "fallback" ELSE "latest")
    /\ UNCHANGED <<attempts, slotVars, queue, ready, activity, aged, storeVars,
                   cur, out, promised, faults>>

\* Mutants of Outdated: no check at all, and a check between the attempts of
\* one commit instead of different ones.
NeverOutdated(r, a) == FALSE

\* The UpdateRepo of publishRun: a late finish of an older commit must not
\* overwrite a newer run.
Outdated(r, a) ==
    /\ latest[r] # NoRun
    /\ KeyOf(latest[r].attempt) # KeyOf(a)
    /\ latest[r].attempt > a

StoreLatest(t) ==
    LET r == RepoOf[KeyOf(cur[t])] IN
    /\ pc[t] = "latest"
    /\ latest' = IF Outdated(r, cur[t]) THEN latest
                 ELSE [latest EXCEPT ![r] = RunOf(cur[t], out[t])]
    /\ Goto(t, AfterPublish(t))
    /\ UNCHANGED <<attempts, slotVars, queue, ready, activity, aged, stream, records,
                   cur, out, promised, faults>>

-----------------------------------------------------------------------------
(* The workers. *)

Dequeue(w) ==
    /\ pc[w] = "idle"
    /\ queue # <<>>
    /\ cur' = [cur EXCEPT ![w] = Head(queue)]
    /\ queue' = Tail(queue)
    /\ Goto(w, "begin")
    /\ UNCHANGED <<attempts, slotVars, ready, activity, aged, stream, storeVars,
                   out, promised, faults>>

\* Mutants of Begin: the worker does not wait for the announcement, and it does
\* not look whether the slot is still the attempt's own.
BeginEarly(w) ==
    /\ pc[w] = "begin"
    /\ IF active[KeyOf(cur[w])] = cur[w] /\ cur[w] \notin cancelled
       THEN /\ started' = started \cup {cur[w]}
            /\ Publishing(w, cur[w], "running")
       ELSE /\ Goto(w, "idle")
            /\ UNCHANGED <<started, cur, out>>
    /\ UNCHANGED <<attempts, active, cancelled, perUser, queue, ready, activity, aged,
                   stream, storeVars, promised, faults>>

BeginUnchecked(w) ==
    /\ pc[w] = "begin"
    /\ cur[w] \in ready
    /\ started' = started \cup {cur[w]}
    /\ Publishing(w, cur[w], "running")
    /\ UNCHANGED <<attempts, active, cancelled, perUser, queue, ready, activity, aged,
                   stream, storeVars, promised, faults>>

\* Wait for Job.ready, then mark the job started unless it was withdrawn.
Begin(w) ==
    /\ pc[w] = "begin"
    /\ cur[w] \in ready
    /\ IF active[KeyOf(cur[w])] = cur[w] /\ cur[w] \notin cancelled
       THEN /\ started' = started \cup {cur[w]}
            /\ Publishing(w, cur[w], "running")
       ELSE /\ Goto(w, "idle")
            /\ UNCHANGED <<started, cur, out>>
    /\ UNCHANGED <<attempts, active, cancelled, perUser, queue, ready, activity, aged,
                   stream, storeVars, promised, faults>>

\* analyze runs under a timeout: it ends, with a report or with an error.
Analyze(w, outcome) ==
    /\ pc[w] = "analyze"
    /\ out' = [out EXCEPT ![w] = outcome]
    /\ Goto(w, "record")
    /\ UNCHANGED <<attempts, slotVars, queue, ready, activity, aged, stream, storeVars,
                   cur, promised, faults>>

PutRecord(w) ==
    /\ pc[w] = "record"
    /\ records' = [records EXCEPT ![KeyOf(cur[w])] = RunOf(cur[w], out[w])]
    /\ Goto(w, "remember")
    /\ UNCHANGED <<attempts, slotVars, queue, ready, activity, aged, stream, latest,
                   cur, out, promised, faults>>

Release(w) ==
    /\ pc[w] = "release"
    /\ ReleaseLocked(cur[w])
    /\ Goto(w, "idle")
    /\ UNCHANGED <<attempts, started, cancelled, queue, ready, activity, aged, stream,
                   storeVars, cur, out, promised, faults>>

-----------------------------------------------------------------------------
(* The environment: failing store writes, time, the prune ticker, restarts. *)

\* PutRecord and UpdateRepo errors are logged and the goroutine goes on.
StoreFails(t) ==
    /\ pc[t] \in {"record", "latest", "fallback"}
    /\ faults["store"] < MaxFailures
    /\ Goto(t, CASE pc[t] = "record"   -> "remember"
                 [] pc[t] = "latest"   -> AfterPublish(t)
                 [] pc[t] = "fallback" -> "idle")
    /\ faults' = [faults EXCEPT !["store"] = @ + 1]
    /\ UNCHANGED <<attempts, slotVars, queue, ready, activity, aged, stream, storeVars,
                   cur, out, promised>>

\* 48 hours pass after an attempt finished.
Age(a) ==
    /\ activity[a] \in Terminal
    /\ a \notin aged
    /\ Cardinality(aged) < MaxAged
    /\ aged' = aged \cup {a}
    /\ UNCHANGED <<attempts, slotVars, queue, ready, activity, stream, storeVars,
                   threadVars, promised, faults>>

\* The once-a-minute ticker of Start.
PruneTick ==
    /\ activity' = PruneActivity(activity)
    /\ activity' # activity
    /\ UNCHANGED <<attempts, slotVars, queue, ready, aged, stream, storeVars,
                   threadVars, promised, faults>>

\* The process stops and starts again: only the store survives.  The workers
\* are not awaited at shutdown, so a stop can fall between any two steps.
Restart ==
    /\ faults["crash"] < MaxCrashes
    /\ active' = [k \in Keys |-> 0]
    /\ perUser' = [u \in Users |-> 0]
    /\ queue' = <<>>
    /\ ready' = {}
    /\ activity' = [a \in Attempts |-> "none"]
    /\ pc' = [t \in Threads |-> "idle"]
    /\ promised' = {}
    /\ faults' = [faults EXCEPT !["crash"] = @ + 1]
    /\ UNCHANGED <<attempts, started, cancelled, aged, stream, storeVars, cur, out>>

\* Nothing is requested and nothing is under way: the service waits.
Rest ==
    /\ \A t \in Threads : pc[t] = "idle"
    /\ queue = <<>>
    /\ UNCHANGED vars

-----------------------------------------------------------------------------
PublishStep(t) == RememberActivity(t) \/ StreamRun(t) \/ StoreLatest(t)

ClientStep(c) ==
    \/ SubmitSend(c) \/ SubmitBusy(c) \/ SubmitReady(c)
    \/ CancelFallback(c)
    \/ PublishStep(c)

WorkerStep(w) ==
    \/ Dequeue(w) \/ Begin(w)
    \/ \E outcome \in {"done", "failed"} : Analyze(w, outcome)
    \/ PutRecord(w) \/ Release(w)
    \/ PublishStep(w)

Request(c) == \E k \in Keys : SubmitDuplicate(c, k) \/ SubmitAdmit(c, k) \/ Cancel(c, k)

Next ==
    \/ \E c \in Clients : Request(c) \/ ClientStep(c)
    \/ \E w \in Workers : WorkerStep(w)
    \/ \E t \in Threads : StoreFails(t)
    \/ \E a \in Attempts : Age(a)
    \/ PruneTick
    \/ Restart
    \/ Rest

Spec == Init /\ [][Next]_vars

\* Goroutines are scheduled fairly, and analyze is bounded by AnalysisTimeout.
\* Nothing forces a user to send requests, or faults to happen.
FairSpec ==
    /\ Spec
    /\ \A c \in Clients : WF_vars(ClientStep(c))
    /\ \A w \in Workers : WF_vars(WorkerStep(w))

-----------------------------------------------------------------------------
(* Correctness. *)

TypeOK ==
    /\ attempts \in Seq(Keys) /\ Len(attempts) <= MaxAttempts
    /\ active \in [Keys -> 0..Len(attempts)]
    /\ started \subseteq 1..Len(attempts)
    /\ cancelled \subseteq 1..Len(attempts)
    /\ perUser \in [Users -> Nat]
    /\ queue \in Seq(1..Len(attempts)) /\ Len(queue) <= QueueSize
    /\ ready \subseteq 1..Len(attempts)
    /\ activity \in [Attempts -> Status \cup {"none"}]
    /\ aged \subseteq Attempts
    /\ stream \in [Attempts -> Seq(Status)]
    /\ latest \in [Repos -> Runs \cup {NoRun}]
    /\ records \in [Keys -> Runs \cup {NoRun}]
    /\ pc \in [Threads -> Places]
    /\ cur \in [Threads -> 0..Len(attempts)]
    /\ out \in [Threads -> Status]
    /\ promised \subseteq 1..Len(attempts)
    /\ faults \in [Faults -> Nat]

\* The slots an account holds.
SlotsOf(u) == {k \in Keys : active[k] # 0 /\ OwnerOf(k) = u}

\* The quota counter of an account is the number of its slots, through every
\* interleaving of Submit, Cancel, ErrBusy and the workers' release: a slot is
\* never leaked nor given back twice, and the quota is never exceeded.
SlotAccounting ==
    \A u \in Users : /\ perUser[u] = Cardinality(SlotsOf(u))
                     /\ perUser[u] <= UserQuota

\* The places of process: between begin and release.
Processing(w) == pc[w] \notin {"idle", "begin"}

\* A commit is never analyzed by two workers at once, even when it was
\* cancelled and requested again while its first job was still in the channel,
\* and an analysis in progress always holds the slot of its commit (so a second
\* request meets it and a Cancel is refused).
ExclusiveRun ==
    \A v, w \in Workers :
        Processing(v) /\ Processing(w) =>
            /\ active[KeyOf(cur[v])] = cur[v]
            /\ cur[v] \in started
            /\ v # w => KeyOf(cur[v]) # KeyOf(cur[w])

\* An attempt that Cancel withdrew is never analyzed, and one that began is
\* never withdrawn.
CancelledNeverRuns == started \cap cancelled = {}

\* What a browser may see of an attempt: "queued", then "running", then one outcome;
\* a withdrawn one is announced as cancelled once, before or after it is announced
\* as queued, and never as running.  An attempt nobody cancelled is announced as
\* queued first, whatever the worker that dequeued it does meanwhile.
StreamsKept == {<<>>, <<"queued">>, <<"queued", "running">>,
                <<"queued", "running", "done">>, <<"queued", "running", "failed">>}

StreamsWithdrawn == {<<>>, <<"queued">>, <<"cancelled">>,
                     <<"queued", "cancelled">>, <<"cancelled", "queued">>}

StreamOrder ==
    \A a \in Attempts :
        stream[a] \in IF a \in cancelled THEN StreamsWithdrawn ELSE StreamsKept

\* The attempts some goroutine or the channel still has to deal with.
InFlight == {queue[i] : i \in DOMAIN queue} \cup {cur[t] : t \in {t \in Threads : pc[t] # "idle"}}

\* An accepted job is never lost while the process lives: it waits in the
\* channel, a worker has it, its outcome was published, or it was withdrawn.
\* A caller that was given the enqueue time of another request's attempt is let
\* down only when that request finds the channel full (ErrBusy), which nobody
\* hears of: the attempt was never announced.  "Active work remains visible even
\* after 48h": the activity list shows it until 48 hours after it finished.
AcceptedNotLost ==
    /\ \A a \in ready :
          \/ a \in InFlight \cup cancelled
          \/ a \in started /\ active[KeyOf(a)] # a
    /\ \A a \in promised : a \in InFlight \cup started \cup cancelled \/ stream[a] = <<>>
    /\ \A a \in ready \ aged : activity[a] # "none"

\* No analysis of the repository is going on.
Quiet(r) == \A a \in InFlight : RepoOf[KeyOf(a)] # r

\* The normal attempts of a repository that were accepted and not withdrawn.
Kept(r) == {a \in started \ cancelled : RepoOf[KeyOf(a)] = r /\ KeyOf(a) \notin Plans}

\* A commit was withdrawn and requested again, after attempt a or as attempt a: the
\* announcement of the withdrawn attempt, when it is late, replaces the run of the
\* newer one, and with it all that this run had replaced.
Overtaken(a) ==
    \E x \in cancelled : \E b \in 1..Len(attempts) :
        KeyOf(x) = KeyOf(b) /\ x < b /\ a <= b

\* Once a repository is quiet, its badge shows the outcome of its newest
\* analysis, whatever order the workers finished in: unless a store write failed
\* or the process stopped, or the badge shows an attempt that was withdrawn
\* while it was still being announced (see BadgeSettles), or a run that such an
\* announcement let pass.
BadgeIsNewest ==
    faults["store"] + faults["crash"] = 0 =>
        \A r \in Repos : Quiet(r) =>
            \/ latest[r] = NoRun /\ Kept(r) = {}
            \/ /\ latest[r] # NoRun
               /\ \/ latest[r].attempt \in cancelled
                  \/ /\ latest[r].status \in {"done", "failed"}
                     /\ latest[r].attempt \in Kept(r)
                     /\ \A a \in Kept(r) : a <= latest[r].attempt \/ Overtaken(a)

\* Every admitted attempt ends: it is refused, withdrawn or analyzed to its end,
\* its slot is given back, so neither a quota nor a commit stays blocked, and if it
\* was accepted the activity list shows its final status.
AttemptsEnd ==
    \A a \in Attempts :
        []<>(a \in DOMAIN attempts =>
            /\ \A k \in Keys : active[k] # a
            /\ a \in ready => activity[a] \in Terminal \/ a \in aged \cup cancelled)

-----------------------------------------------------------------------------
(* The inductive invariant behind TypeOK, SlotAccounting, ExclusiveRun and    *)
(* CancelledNeverRuns: an attempt is in the hands of one party at a time.     *)

ClientPlaces == {"idle", "send", "busy", "ready", "fallback", "remember", "stream", "latest"}
WorkerPlaces == {"idle", "begin", "remember", "stream", "latest", "analyze", "record", "release"}
Publication  == {"remember", "stream", "latest"}

\* What a handler and a worker may be doing, and with which outcome.
ThreadInv ==
    /\ \A t \in Threads : pc[t] # "idle" => cur[t] # 0
    /\ \A c \in Clients :
          /\ pc[c] \in ClientPlaces
          /\ pc[c] \in Publication => out[c] \in {"queued", "cancelled"}
    /\ \A w \in Workers :
          /\ pc[w] \in WorkerPlaces
          /\ pc[w] \in Publication \cup {"record"} => out[w] \in {"running", "done", "failed"}

\* A slot belongs to an attempt of its own key, and never to a withdrawn one.
SlotInv ==
    /\ \A k \in Keys : active[k] # 0 => KeyOf(active[k]) = k /\ active[k] \notin cancelled
    /\ CancelledNeverRuns

Queued == {queue[i] : i \in DOMAIN queue}
Sending(c) == pc[c] \in {"send", "busy"}

\* One party has an attempt: the handler that sends it, the channel, or one
\* worker; nobody before the worker that has it can have started it.
Custody ==
    /\ \A i, j \in DOMAIN queue : queue[i] = queue[j] => i = j
    /\ Queued \cap started = {}
    /\ \A c \in Clients : Sending(c) =>
          /\ cur[c] \notin Queued \cup started
          /\ \A d \in Clients : Sending(d) /\ c # d => cur[c] # cur[d]
          /\ \A w \in Workers : pc[w] # "idle" => cur[c] # cur[w]
    /\ \A w \in Workers : pc[w] # "idle" =>
          /\ cur[w] \notin Queued
          /\ \A v \in Workers : pc[v] # "idle" /\ v # w => cur[v] # cur[w]
    /\ \A w \in Workers : pc[w] = "begin" => cur[w] \notin started
    /\ \A w \in Workers : Processing(w) => active[KeyOf(cur[w])] = cur[w] /\ cur[w] \in started

IInv == TypeOK /\ ThreadInv /\ SlotInv /\ Custody /\ SlotAccounting

-----------------------------------------------------------------------------
(* The runner implements the life cycle of a job. *)

HasSlot(a) == active[KeyOf(a)] = a

PhaseOf(a) ==
    IF a \in cancelled THEN "withdrawn"
    ELSE IF a \in started THEN IF HasSlot(a) THEN "running" ELSE "over"
    ELSE IF HasSlot(a) THEN "admitted" ELSE "dropped"

Lifecycle == INSTANCE JobLifecycle WITH
    jobs  <- attempts,
    phase <- [a \in 1..Len(attempts) |-> PhaseOf(a)],
    Owner <- [k \in Keys |-> OwnerOf(k)]

\* Whatever the interleaving of request handlers, workers and restarts, each
\* attempt follows the life cycle: it starts at most once, never after it was
\* withdrawn, alone for its commit and within the quota of its account.
ImplementsLifecycle == Lifecycle!Spec

-----------------------------------------------------------------------------
(* What comments and the documentation say, and the code does not keep. *)

\* Cancel: "fall back to the latest stored result so the badge does not stay
\* "queued"".  A quiet repository never shows a queued run.
BadgeSettles ==
    faults["store"] + faults["crash"] = 0 =>
        \A r \in Repos : Quiet(r) /\ latest[r] # NoRun => latest[r].status # "queued"

=============================================================================
