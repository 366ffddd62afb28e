---------------------------- MODULE ExistingTests ----------------------------
(***************************************************************************)
(* Existing tests run on both sides of a change: the stage of the changed  *)
(* baseline tests (app/internal/harness/basetests.go) and the stage of the *)
(* impacted tests (impacted.go), and what the report derives again from    *)
(* the runs they recorded (app/internal/report/basetests.go, impact.go).   *)
(*                                                                         *)
(* Both stages plan units of tests that share a command, run the baseline, *)
(* then the candidate side, repeat a baseline that was only replayed from  *)
(* the cache, give a pair of its own to a test that passed inside a failed *)
(* run, and record one piece of evidence per test.  Either may be stopped  *)
(* before any run, by the deadline, a cancellation or its own time limit.  *)
(*                                                                         *)
(* A run is its status and the outcome its log records for every name: the *)
(* status is PASS or FAIL for a complete run with a complete log, OTHER    *)
(* for a timeout or an error, CUT for a complete run with a truncated log, *)
(* SKIPPED if it never began.                                              *)
(***************************************************************************)
EXTENDS Naturals, Sequences, FiniteSets, SequencesExt

CONSTANTS
    Selections,   \* what a stage may be given: [byFile, tests]
    MaxNames,     \* names of one command (changed tests)
    MaxTests,     \* tests of one review (impacted tests)
    MaxUnits,     \* units of one review
    SubCap,       \* the time limit of a stage
    NoRun         \* no run, no evidence

VARIABLES
    stage,         \* "base": changed tests; "impacted": impacted ones
    byFile,        \* the command names a file, not a package directory
    selected,      \* the tests: [path, name, ok]; ok if nothing forbids their run
    units,         \* what is left to run: [key, names, items]
    pc,            \* the next run
    names,         \* the names of the pair under way
    own,           \* this pair is that of tests that passed in a failed run
    base,          \* the baseline run of this pair
    verdicts,      \* name -> [status, base, cand]
    first,         \* the verdicts of the first pair of the unit
    marks,         \* names whose missing verdict was explained
    items,         \* what is recorded for each test: [status, reason, ev]
    spent,         \* time of the runs of this stage that were not replays
    expired,       \* the review ended, or its budget is reserved
    contradicted,  \* replays that a live run did not reproduce
    reported       \* the status the report gives to each test

vars == <<stage, byFile, selected, units, pc, names, own, base, verdicts, first, marks,
          items, spent, expired, contradicted, reported>>
setting == <<stage, byFile, selected>>

Statuses == {"PASSES", "FAILS", "UNVERIFIED", ""}
Outcomes == {"pass", "fail", "none"}
Nothing  == [n \in {} |-> NoRun]

Test(i) == selected[i]
Key(t)  == IF byFile THEN t.path ELSE 0
Tests   == 1..Len(selected)

------------------------------------------------------------------------------
(* The units: the tests that share a command, within the limits of a review.  *)

NamesOf(is) == {Test(i).name : i \in is}

Unit(k, ns, is) == [key |-> k, names |-> ns, items |-> is]

\* Changed tests: the units in the order of their keys, their names in order, at
\* most MaxNames each; what exceeds MaxUnits is not run.
ChangedUnits ==
    LET able    == {i \in Tests : Test(i).ok}
        keys    == SetToSortSeq({Key(Test(i)) : i \in able}, <)
        OfKey(k) == {i \in able : Key(Test(i)) = k}
        Chunk(k, c) ==
            LET sorted == SetToSortSeq(NamesOf(OfKey(k)), <)
                ns == {sorted[j] : j \in {j \in DOMAIN sorted : (j - 1) \div MaxNames = c}}
            IN  Unit(k, ns, {i \in OfKey(k) : Test(i).name \in ns})
        Chunks(k) == (Cardinality(NamesOf(OfKey(k))) + MaxNames - 1) \div MaxNames
        all == FlattenSeq([n \in DOMAIN keys |-> [c \in 1..Chunks(keys[n]) |-> Chunk(keys[n], c - 1)]])
    IN  SubSeq(all, 1, IF Len(all) < MaxUnits THEN Len(all) ELSE MaxUnits)

\* Mutant of Admit: a test that was admitted counts again.
AdmitTwice(us, i) ==
    LET t     == Test(i)
        at    == {n \in DOMAIN us : us[n].key = Key(t)}
        count == FoldSeq(LAMBDA u, c : c + Cardinality(u.items), 0, us)
    IN  IF ~t.ok \/ count >= MaxTests \/ (at = {} /\ Len(us) >= MaxUnits) THEN us
        ELSE IF at = {} THEN Append(us, Unit(Key(t), {t.name}, {i}))
        ELSE [n \in DOMAIN us |->
                 IF n \in at THEN Unit(us[n].key, us[n].names \cup {t.name}, us[n].items \cup {i})
                 ELSE us[n]]

\* Impacted tests: in the order of the input; a test that was admitted once is
\* admitted again at any time, another one only within both limits.
Admit(us, i) ==
    LET t     == Test(i)
        at    == {n \in DOMAIN us : us[n].key = Key(t)}
        seen  == {<<Test(j).path, Test(j).name>> : j \in UNION {us[n].items : n \in DOMAIN us}}
        known == <<t.path, t.name>> \in seen
    IN  IF ~t.ok \/ (~known /\ (Cardinality(seen) >= MaxTests \/ (at = {} /\ Len(us) >= MaxUnits)))
        THEN us
        ELSE IF at = {} THEN Append(us, Unit(Key(t), {t.name}, {i}))
        ELSE [n \in DOMAIN us |->
                 IF n \in at THEN Unit(us[n].key, us[n].names \cup {t.name}, us[n].items \cup {i})
                 ELSE us[n]]

ImpactedUnits == FoldLeft(LAMBDA us, i : Admit(us, i), <<>>, [i \in Tests |-> i])

Planned == IF stage = "base" THEN ChangedUnits ELSE ImpactedUnits
ItemsOf(us) == UNION {us[n].items : n \in DOMAIN us}

\* A test that gets no result: UNVERIFIED among the changed tests, without a
\* status among the impacted ones; in both cases with the reason.
Unanswered == [status |-> IF stage = "base" THEN "UNVERIFIED" ELSE "", reason |-> FALSE, ev |-> NoRun]
Explained  == [Unanswered EXCEPT !.reason = TRUE]

Init ==
    /\ stage \in {"base", "impacted"}
    /\ \E s \in Selections : byFile = s.byFile /\ selected = s.tests
    /\ pc = "plan" /\ units = <<>>
    /\ names = {} /\ own = FALSE /\ base = NoRun
    /\ verdicts = Nothing /\ first = Nothing /\ marks = {}
    /\ items = [i \in Tests |-> Unanswered]
    /\ spent = 0 /\ expired = FALSE /\ contradicted = {}
    /\ reported = <<>>

NewUnit == /\ pc' = "base" /\ own' = FALSE /\ base' = NoRun
           /\ verdicts' = Nothing /\ first' = Nothing /\ marks' = {}
           /\ names' = IF units' = <<>> THEN {} ELSE Head(units').names

\* The tests outside every unit are explained.
Plan ==
    /\ pc = "plan"
    /\ units' = Planned
    /\ items' = [i \in Tests |-> IF i \in ItemsOf(Planned) THEN Unanswered ELSE Explained]
    /\ IF stage = "base" /\ Planned # <<>>
       THEN pc' = "revert" /\ UNCHANGED <<names, own, base, verdicts, first, marks>>
       ELSE NewUnit
    /\ UNCHANGED <<setting, spent, expired, contradicted, reported>>

\* The tree of the changed tests: where their directory or file could not be put
\* back, or if the tree could not be made at all, they are not run.
Revert ==
    /\ pc = "revert"
    /\ \E failed \in SUBSET {units[n].key : n \in DOMAIN units} :
          /\ units' = SelectSeq(units, LAMBDA u : u.key \notin failed)
          /\ items' = [i \in Tests |-> IF i \in ItemsOf(units) \ ItemsOf(units') THEN Explained ELSE items[i]]
    /\ NewUnit
    /\ UNCHANGED <<setting, spent, expired, contradicted, reported>>

------------------------------------------------------------------------------
(* One run of the names of this pair.                                         *)

\* Mutant of Stopped: the time limit may be reached and a run started.
StoppedLate == expired \/ spent > SubCap

\* No further run is started.
Stopped == expired \/ spent >= SubCap

\* What is left of the time limit bounds a run only if something is left.
TimeLimit == IF spent < SubCap THEN SubCap - spent ELSE SubCap

Logs == [names -> Outcomes]
NoLog == [n \in names |-> "none"]

Run(kind, replay, st, out) ==
    [kind |-> kind, replay |-> replay, cmd |-> <<Head(units).key, names>>, st |-> st, out |-> out]

\* What one test reads of a run: its own outcome.
View(c, n) == [c EXCEPT !.out = c.out[n]]

\* A run and the time it takes.
LiveRuns(kind) ==
    {[run |-> Run(kind, FALSE, st, out), time |-> t] :
        st \in {"PASS", "FAIL"}, out \in Logs, t \in 1..TimeLimit}
    \cup {[run |-> Run(kind, FALSE, st, NoLog), time |-> t] :
              st \in {"OTHER", "CUT"}, t \in 1..TimeLimit}
    \cup {[run |-> Run(kind, FALSE, "SKIPPED", NoLog), time |-> 0]}

\* A baseline that passed in two live runs is served from the cache instead.
Replays == {[run |-> Run("baseline", TRUE, "PASS", out), time |-> 0] : out \in Logs}

\* Mutant of Classify: an outcome is read from any run that is complete.
ClassifyAnyLog(b, c) ==
    IF b.cmd # c.cmd \/ b.st # "PASS" \/ b.out # "pass" THEN "UNVERIFIED"
    ELSE IF c.out = "fail" THEN "FAILS"
    ELSE IF c.out = "pass" THEN "PASSES" ELSE "UNVERIFIED"

\* One command on both sides, a baseline that passed, and the same test in both
\* logs: FAILS in a candidate run that failed, PASSES in one that passed.
Classify(b, c) ==
    IF b.cmd # c.cmd \/ b.st # "PASS" \/ b.out # "pass" THEN "UNVERIFIED"
    ELSE IF c.st = "FAIL" /\ c.out = "fail" THEN "FAILS"
    ELSE IF c.st = "PASS" /\ c.out = "pass" THEN "PASSES"
    ELSE "UNVERIFIED"

Unverified(b, c) == [status |-> "UNVERIFIED", base |-> b, cand |-> c]
Verdict(b, c)    == [Unverified(b, c) EXCEPT !.status = Classify(b, c)]
Passing(c) == {n \in names : c.out[n] = "pass"}

EndPair == pc' = "unit" /\ UNCHANGED <<names, base, verdicts, marks>>

\* The names get no candidate run, and the reason why.
MarkAll(ns) == pc' = "unit" /\ marks' = marks \cup ns /\ UNCHANGED <<names, base, verdicts>>

\* A baseline that failed is repeated once for the names that passed in it; without
\* a pass of the whole run and of a name, there is no candidate run.
AfterBaseline(c) ==
    LET passed == Passing(c) IN
    IF pc = "base" /\ ~own /\ c.st = "FAIL" /\ passed # {} /\ passed # names
    THEN /\ pc' = "narrowed" /\ names' = passed /\ marks' = marks \cup (names \ passed)
         /\ UNCHANGED <<base, verdicts>>
    ELSE IF c.st = "PASS" /\ passed # {}
    THEN pc' = "candidate" /\ base' = c /\ UNCHANGED <<names, verdicts, marks>>
    ELSE MarkAll(names)

RunBaseline ==
    /\ pc \in {"base", "narrowed"} /\ units # <<>> /\ ~Stopped
    /\ \E r \in LiveRuns("baseline") \cup Replays :
          spent' = spent + r.time /\ AfterBaseline(r.run)
    /\ UNCHANGED <<setting, units, own, first, items, expired, contradicted, reported>>

\* Stopped before the baseline of the names that passed, or before the candidate.
GiveUpPair ==
    /\ pc \in {"narrowed", "candidate"} /\ Stopped
    /\ MarkAll(names)
    /\ UNCHANGED <<setting, units, own, first, items, spent, expired, contradicted, reported>>

\* The impacted tests take a candidate run that did not start for no run pair.
RunCandidate ==
    /\ pc = "candidate" /\ ~Stopped
    /\ \E r \in LiveRuns("candidate") :
          /\ spent' = spent + r.time
          /\ IF stage = "impacted" /\ r.run.st = "SKIPPED" THEN MarkAll(names)
             ELSE LET v == [n \in names |-> Verdict(View(base, n), View(r.run, n))] IN
                  /\ verdicts' = v
                  /\ pc' = IF base.replay /\ \E n \in names : v[n].status = "FAILS" THEN "confirm"
                           ELSE "unit"
                  /\ UNCHANGED <<names, base, marks>>
    /\ UNCHANGED <<setting, units, own, first, items, expired, contradicted, reported>>

\* Mutant of Failing: a replayed baseline is as good as a live one.
FailingNone == {}

Failing == {n \in names : verdicts[n].status = "FAILS"}

Unconfirmed == [n \in names |->
    IF n \in Failing THEN Unverified(View(base, n), verdicts[n].cand) ELSE verdicts[n]]

\* A run that ends without reproducing a replay removes the entry it came from.
Contradicts(live, replay) ==
    live.st \in {"PASS", "FAIL", "CUT"} /\ <<live.st, live.out>> # <<replay.st, replay.out>>

\* A replayed baseline supports no failure: it is run again.
Confirm ==
    /\ pc = "confirm" /\ ~Stopped
    /\ \E r \in LiveRuns("baseline") :
          /\ spent' = spent + r.time
          /\ contradicted' = contradicted \cup {c \in {base.cmd} : Contradicts(r.run, base)}
          /\ verdicts' = IF stage = "impacted" /\ r.run.st = "SKIPPED" THEN Unconfirmed
                         ELSE [n \in names |-> IF n \notin Failing THEN verdicts[n]
                                 ELSE Verdict(View(r.run, n), verdicts[n].cand)]
    /\ pc' = "unit"
    /\ UNCHANGED <<setting, units, names, own, base, first, marks, items, expired, reported>>

GiveUpConfirm ==
    /\ pc = "confirm" /\ Stopped
    /\ verdicts' = Unconfirmed /\ pc' = "unit"
    /\ UNCHANGED <<setting, units, names, own, base, first, marks, items, spent, expired,
                   contradicted, reported>>

------------------------------------------------------------------------------
(* The end of a pair, of a unit, of the stage.                                *)

\* The tests that passed in a candidate run that failed.
Retry == {n \in DOMAIN verdicts : verdicts[n].cand.st = "FAIL" /\ verdicts[n].cand.out = "pass"
                                  /\ verdicts[n].status = "UNVERIFIED"}

\* They get a pair of their own, unless it would be the same run again.
RetryPassed ==
    /\ pc = "unit" /\ ~own
    /\ Retry # {} /\ Retry # DOMAIN verdicts /\ ~Stopped
    /\ own' = TRUE /\ names' = Retry /\ first' = verdicts /\ verdicts' = Nothing
    /\ pc' = "base" /\ base' = NoRun
    /\ UNCHANGED <<setting, units, marks, items, spent, expired, contradicted, reported>>

\* A retry without a result leaves the verdicts of the first pair.
UnitVerdicts == [n \in DOMAIN first \cup DOMAIN verdicts |->
                    IF n \in DOMAIN verdicts THEN verdicts[n] ELSE first[n]]

Recorded(i) ==
    LET n == Test(i).name IN
    IF n \in DOMAIN UnitVerdicts
    THEN [status |-> UnitVerdicts[n].status, reason |-> UnitVerdicts[n].status = "UNVERIFIED",
          ev |-> UnitVerdicts[n]]
    ELSE [Explained EXCEPT !.reason = n \in marks]

\* Every test of the unit gets its evidence, or the reason why it has none.
RecordUnit ==
    /\ pc = "unit" /\ units # <<>>
    /\ own \/ Retry = {} \/ Retry = DOMAIN verdicts \/ Stopped
    /\ items' = [i \in Tests |-> IF i \in Head(units).items THEN Recorded(i) ELSE items[i]]
    /\ units' = Tail(units)
    /\ NewUnit
    /\ UNCHANGED <<setting, spent, expired, contradicted, reported>>

\* Nothing is started any more: the tests of the units left are told why.
StopStage ==
    /\ pc = "base" /\ ~own /\ units # <<>> /\ Stopped
    /\ items' = [i \in Tests |-> IF i \in ItemsOf(units) THEN Explained ELSE items[i]]
    /\ units' = <<>>
    /\ NewUnit
    /\ UNCHANGED <<setting, spent, expired, contradicted, reported>>

\* The same for a pair of tests that passed: their first verdicts stand.
StopRetry ==
    /\ pc = "base" /\ own /\ Stopped
    /\ EndPair
    /\ UNCHANGED <<setting, units, own, first, items, spent, expired, contradicted, reported>>

\* The deadline, a cancellation, or a budget reserved for the reviewer.
Expire ==
    /\ pc # "done" /\ ~expired /\ expired' = TRUE
    /\ UNCHANGED <<setting, units, pc, names, own, base, verdicts, first, marks, items, spent,
                   contradicted, reported>>

------------------------------------------------------------------------------
(* The report derives each status again from the recorded runs.               *)

\* A run that supports a failure was executed in this review.
PositiveBaseline(b) == ~b.replay

\* The status the recorded runs of a test support, if any.  The test, its file and the
\* command that names it are those the stage wrote: left out is that the report checks
\* their form again, and gives no status to a record that redaction has changed.
Supported(ev) ==
    LET status == Classify(ev.base, ev.cand) IN
    IF /\ ev.base.kind = "baseline" /\ ev.cand.kind = "candidate" /\ ~ev.cand.replay
       /\ status = "FAILS" => PositiveBaseline(ev.base)
       /\ status = ev.status
    THEN status ELSE "UNVERIFIED"

\* A test without evidence has no status, or is UNVERIFIED.
ReportedOf(i) == IF items[i].ev = NoRun THEN Unanswered.status
                 ELSE Supported(items[i].ev)

Finalize ==
    /\ pc = "base" /\ units = <<>>
    /\ reported' = [i \in Tests |-> ReportedOf(i)]
    /\ pc' = "done"
    /\ UNCHANGED <<setting, units, names, own, base, verdicts, first, marks, items, spent,
                   expired, contradicted>>

Next ==
    \/ Plan \/ Revert
    \/ RunBaseline \/ GiveUpPair \/ RunCandidate \/ Confirm \/ GiveUpConfirm
    \/ RetryPassed \/ RecordUnit \/ StopStage \/ StopRetry
    \/ Expire \/ Finalize

Spec == Init /\ [][Next]_vars

------------------------------------------------------------------------------
(* Properties.                                                                *)

\* What a stage concludes while it runs, the report concludes from what was recorded:
\* no result is lost on the way and none appears.
ReportAgrees == pc = "done" => \A i \in Tests : reported[i] = items[i].status

\* Every test is answered: in the end, each has a result of its own pair of runs, or
\* the reason why it has none; a test that could not run never has a result; and a
\* test listed twice is answered alike, the limits never leave out one of the two.
EveryTestIsAnswered ==
    pc = "done" => \A i \in Tests :
        /\ items[i].status \in {"PASSES", "FAILS"} \/ items[i].reason
        /\ items[i].ev # NoRun => Test(i).ok /\ Test(i).name \in items[i].ev.base.cmd[2]
        /\ \A j \in Tests : Test(i) = Test(j) => items[i].status = items[j].status

\* A baseline served from the cache that a live run of this review did not reproduce
\* supports no result.
ContradictedSupportsNothing ==
    \A i \in Tests : items[i].status \in {"PASSES", "FAILS"} =>
        ~(items[i].ev.base.replay /\ items[i].ev.base.cmd \in contradicted)

\* The live runs of a stage take no more than its time limit together.
TimeIsBounded == spent <= SubCap
==============================================================================
