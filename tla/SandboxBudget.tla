---------------------------- MODULE SandboxBudget ----------------------------
(***************************************************************************)
(* The sandbox runtime budget of one review (app/internal/harness): the    *)
(* initial checks, several of them at a time, then the stages before the   *)
(* reviewer, which leave it its reserve, then the experiments the reviewer *)
(* asks for.                                                               *)
(*                                                                         *)
(* The harness holds its lock for a whole group: only the containers of    *)
(* one group run together, and the ledger is written when all have ended.  *)
(* How long a check needs is chosen at the start and unknown to the code;  *)
(* a container killed at its time limit is charged up to Slack more.       *)
(***************************************************************************)
EXTENDS Integers, Sequences, SequencesExt

CONSTANTS
    Checks,        \* how many initial checks are configured
    MaxRuntime,    \* the budget
    Timeout,       \* the policy time limit of one run
    Reserves,      \* the reviewer reserves explored
    Parallels,     \* what --parallel may ask for
    Capacities,    \* sandboxes the Docker server has room for
    Slack,         \* what killing a container may add to its time
    MaxLater       \* bound: runs of the later stages

VARIABLES
    opts,      \* the options: parallel, capacity, reserve
    need,      \* the time each initial check takes when nothing stops it
    phase,     \* "checks", "stages" (before the reviewer) or "reviewer"
    next,      \* initial checks planned so far
    group,     \* the runs of the group under way: [timeout, elapsed]
    ledger,    \* the recorded checks
    spent,     \* time charged
    reserved,  \* time reserved by the runs under way
    expired,   \* the deadline of the review has passed
    told,      \* the limits of the last run: the one announced, the one given
    before,    \* time charged when the phase began
    later      \* runs of the later stages

vars == <<opts, need, phase, next, group, ledger, spent, reserved, expired, told, before, later>>

SumSeq(s) == FoldSeq(+, 0, s)
Least(a, b) == IF a <= b THEN a ELSE b
Greatest(a, b) == IF a >= b THEN a ELSE b

Waiting == -1     \* a container that has not ended

Init ==
    /\ opts \in [parallel : Parallels, capacity : Capacities, reserve : Reserves]
    /\ need \in [1..Checks -> 1..(Timeout + 1)]
    /\ phase = "checks"
    /\ next = 0
    /\ group = <<>> /\ ledger = <<>>
    /\ spent = 0 /\ reserved = 0
    /\ expired = FALSE
    /\ told = [announced |-> 0, given |-> 0]
    /\ before = 0
    /\ later = 0

------------------------------------------------------------------------------
(* The budget.                                                               *)

\* Mutant of PreReviewerCeiling: the stages before the reviewer may use everything.
NoCeiling == MaxRuntime

\* The stages before the reviewer may not touch its reserve; one that takes the whole
\* budget leaves them the smallest unit of time.
PreReviewerCeiling ==
    IF opts.reserve = 0 THEN MaxRuntime ELSE Greatest(1, MaxRuntime - opts.reserve)

\* The limit of the runs of this phase.
Limit == IF phase = "stages" THEN PreReviewerCeiling ELSE MaxRuntime

\* What a run gets: its time limit, or what is left; 0 is a skip.
ReserveRun(timeout, limit, claimed) == Greatest(0, Least(timeout, limit - spent - claimed))

\* Mutant of GroupSize: as many as are allowed, whatever time is left.
GroupSizeAllowed(allowed) == Greatest(allowed, 1)

\* How many of the next checks start together: all of them have their full time.
GroupSize(allowed) ==
    LET fits == {n \in 1..Greatest(allowed, 1) : n = 1 \/ n * Timeout <= MaxRuntime - spent - reserved}
    IN  CHOOSE n \in fits : \A m \in fits : m <= n

InitialCheckLimit ==
    LET limit == Least(opts.parallel, Checks) IN
    IF limit <= 1 \/ expired \/ GroupSize(2) < 2 THEN 1
    ELSE Greatest(1, Least(limit, opts.capacity))

\* The reservations of n runs planned one after the other.
Reservations(n, timeout, limit) ==
    LET r[i \in 0..n] == IF i = 0 THEN <<>>
                         ELSE Append(r[i - 1],
                              ReserveRun(timeout, limit, reserved + SumSeq(r[i - 1])))
    IN  r[n]

Plan(n, timeout, limit) ==
    LET given == IF expired THEN [i \in 1..n |-> 0] ELSE Reservations(n, timeout, limit) IN
    /\ group' = [i \in 1..n |-> [timeout |-> given[i], elapsed |-> IF given[i] = 0 THEN 0 ELSE Waiting]]
    /\ reserved' = reserved + SumSeq(given)

------------------------------------------------------------------------------
(* The initial checks.                                                       *)

\* The capacity is asked for once, at the start; limit stands for that answer.
PlanChecks ==
    /\ phase = "checks" /\ group = <<>> /\ next < Checks
    /\ LET limit == IF next = 0 THEN InitialCheckLimit ELSE opts.parallel
           n == GroupSize(Least(limit, Checks - next))
       IN  /\ Plan(n, Timeout, MaxRuntime)
           /\ next' = next + n
           /\ opts' = [opts EXCEPT !.parallel = limit]
    /\ UNCHANGED <<need, phase, ledger, spent, expired, told, before, later>>

Needed(i) == IF phase = "checks" THEN need[next - Len(group) + i] ELSE Timeout + 1

\* A container ends by itself, or is killed at its time limit or at the deadline.
EndRun(i) ==
    /\ i \in DOMAIN group /\ group[i].elapsed = Waiting
    /\ \E t \in IF phase = "checks" /\ Needed(i) <= group[i].timeout /\ ~expired
                THEN {Needed(i)}
                ELSE IF expired THEN 1..group[i].timeout
                ELSE IF phase = "checks" THEN group[i].timeout..(group[i].timeout + Slack)
                ELSE 1..(group[i].timeout + Slack) :
        group' = [group EXCEPT ![i].elapsed = t]
    /\ UNCHANGED <<opts, need, phase, next, ledger, spent, reserved, expired, told, before,
                   later>>

\* All have ended: each is recorded in its order, released and charged.
RecordGroup ==
    /\ group # <<>> /\ \A i \in DOMAIN group : group[i].elapsed # Waiting
    /\ ledger' = IF phase = "checks" THEN ledger \o group ELSE ledger
    /\ spent' = spent + SumSeq([i \in DOMAIN group |-> group[i].elapsed])
    /\ reserved' = reserved - SumSeq([i \in DOMAIN group |-> group[i].timeout])
    /\ group' = <<>>
    /\ UNCHANGED <<opts, need, phase, next, expired, told, before, later>>

------------------------------------------------------------------------------
(* The later stages run one container at a time, with a tighter limit.       *)

\* What the mutation stage says a run of its own will get.
RunLimit(timeout, ceiling) ==
    LET limit == Least(MaxRuntime, ceiling)
        effective == Least(timeout, Timeout)
    IN  Greatest(0, Least(effective, limit - spent - reserved))

NextPhase ==
    /\ group = <<>> /\ next = Checks /\ phase # "reviewer"
    /\ phase' = IF phase = "checks" THEN "stages" ELSE "reviewer"
    /\ before' = spent
    /\ UNCHANGED <<opts, need, next, group, ledger, spent, reserved, expired, told, later>>

LaterRun ==
    /\ phase \in {"stages", "reviewer"} /\ group = <<>> /\ later < MaxLater
    /\ \E timeout \in 1..(Timeout + 1) :
        /\ Plan(1, Least(timeout, Timeout), Limit)
        /\ told' = [announced |-> IF expired THEN 0 ELSE RunLimit(timeout, Limit),
                    given |-> group'[1].timeout]
    /\ later' = later + 1
    /\ UNCHANGED <<opts, need, phase, next, ledger, spent, expired, before>>

Expire ==
    /\ ~expired
    /\ expired' = TRUE
    /\ UNCHANGED <<opts, need, phase, next, group, ledger, spent, reserved, told, before, later>>

Next ==
    \/ PlanChecks \/ RecordGroup \/ NextPhase \/ LaterRun \/ Expire
    \/ \E i \in DOMAIN group : EndRun(i)

Spec == Init /\ [][Next]_vars

------------------------------------------------------------------------------
(* Properties.                                                               *)

\* The time charged and reserved stays within the limit of the phase, whatever runs
\* together: what goes beyond it is the killing of the last containers.  The stages
\* before the reviewer leave the reserve that the initial checks had not used, and
\* the limit the mutation stage is told, which separates a mutant that ran out of its
\* own time from a run the budget cut short, is the one the run was given.
BudgetHolds ==
    LET together == IF phase = "checks" THEN Greatest(1, opts.parallel) ELSE 1
        kept == IF phase = "stages" THEN Least(opts.reserve, MaxRuntime - 1) ELSE 0
    IN
    /\ spent + reserved <= Greatest(before, MaxRuntime - kept) + together * Slack
    /\ reserved = SumSeq([i \in DOMAIN group |-> group[i].timeout])
    /\ told.announced = told.given

\* What check i would have been given had the checks before it, taking the time they
\* took, run one at a time.
SerialGiven(i) ==
    Greatest(0, Least(Timeout,
        MaxRuntime - SumSeq([j \in 1..(i - 1) |-> ledger[j].elapsed])))

\* Running checks together changes none of their time limits: without a deadline, a
\* check gets what it would have got alone, unless one before it was charged more
\* than its limit, and then it gets no less.
SameAsSerial ==
    ~expired => \A i \in DOMAIN ledger :
        /\ ledger[i].timeout >= SerialGiven(i)
        /\ (\A j \in 1..(i - 1) : ledger[j].elapsed <= ledger[j].timeout)
                => ledger[i].timeout = SerialGiven(i)
==============================================================================
