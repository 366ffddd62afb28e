------------------------------- MODULE MCParts -------------------------------
(***************************************************************************)
(* Components whose safety is checked, each on a small instance: the       *)
(* execution cache, the sandbox budget and the stages of existing tests of *)
(* the CLI, the Drive source and the Google account of the desktop, the    *)
(* LLM gateway of the hub.  None of them reads the state of another one,   *)
(* so a behaviour is that of one of them: `part` says which, the others    *)
(* stay in one initial state.                                              *)
(***************************************************************************)
EXTENDS LLMGateway, ExecutionCache, Sequences, TLC

CONSTANTS
    alice,
    Checks, MaxRuntime, Timeout, Reserves, Parallels, Capacities, Slack, MaxLater,
    Selections, MaxNames, MaxTests, MaxUnits, SubCap, NoRun,
    Files, Sub, SourceTime, SourceFaults,
    Calls, MaxConnects, MaxStarts, MaxRotations, AccountFaults

VARIABLES
    part,
    opts, need, phase, next, group, ledger, spent, reserved, expired, told, before, later,
    stage, byFile, selected, units, step, names, own, base, verdicts, first, marks, items,
    usedTime, stopped, contradicted, reported,
    drive, mem, disk, list, stat, sourceFaults,
    live, issued, rotated, keychain, cached, listed, inUse, status, conns, disc, save, calls,
    met, starts, accountFaults

\* Two requests of one account.
OfAlice  == [r \in Requests |-> alice]
Symmetry == Permutations(Requests)

Budget  == INSTANCE SandboxBudget
Stage   == INSTANCE ExistingTests WITH pc <- step, spent <- usedTime, expired <- stopped
Source  == INSTANCE DriveSource WITH
    MaxTime <- SourceTime, MaxFaults <- SourceFaults, faults <- sourceFaults
Google  == INSTANCE DriveAccount WITH
    MaxFaults <- AccountFaults, faults <- accountFaults, used <- inUse

budgetVars  == <<opts, need, phase, next, group, ledger, spent, reserved, expired, told,
                 before, later>>
stageVars   == <<stage, byFile, selected, units, step, names, own, base, verdicts, first, marks,
                 items, usedTime, stopped, contradicted, reported>>
sourceVars  == <<drive, mem, disk, list, stat, sourceFaults>>
accountVars == <<live, issued, rotated, keychain, cached, listed, inUse, status, conns, disc,
                 save, calls, met, starts, accountFaults>>
allVars     == <<part, vars, cacheVars, budgetVars, stageVars, sourceVars, accountVars>>

\* Two changed or impacted tests of one package and one of another, as many as exceed
\* the names of a command, or the units or tests of a review; one of them twice.
T(p, n)        == [path |-> p, name |-> n, ok |-> TRUE]
Unrunnable(t)  == [t EXCEPT !.ok = FALSE]
By(perFile, chosen) == [byFile |-> perFile, tests |-> chosen]
Lists == {By(FALSE, <<T(1, 1), T(1, 2), T(1, 3)>>),
          By(FALSE, <<T(1, 1), T(2, 1), Unrunnable(T(1, 2))>>),
          By(TRUE, <<T(2, 1), T(2, 2), T(3, 1), T(1, 1), T(2, 1)>>)}

PartsInit ==
    /\ part \in {"gateway", "cache", "budget", "stage", "source", "account"}
    /\ Init /\ CacheInit /\ Budget!Init /\ Stage!Init /\ Source!Init /\ Google!Init
    /\ part # "budget" => /\ opts = [parallel |-> 1, capacity |-> 0, reserve |-> 0]
                          /\ \A i \in 1..Checks : need[i] = 1
    /\ part # "stage" => stage = "base" /\ byFile /\ Len(selected) = 5
    /\ part # "source" => \A f \in Files : drive[f].in = "root"

Running(p, others) == part = p /\ UNCHANGED <<part, others>>

PartsNext ==
    \/ Running("gateway", <<cacheVars, budgetVars, stageVars, sourceVars, accountVars>>)
        /\ Next
    \/ Running("cache", <<vars, budgetVars, stageVars, sourceVars, accountVars>>)
        /\ CacheNext
    \/ Running("budget", <<vars, cacheVars, stageVars, sourceVars, accountVars>>)
        /\ Budget!Next
    \/ Running("stage", <<vars, cacheVars, budgetVars, sourceVars, accountVars>>)
        /\ Stage!Next
    \/ Running("source", <<vars, cacheVars, budgetVars, stageVars, accountVars>>)
        /\ Source!Next
    \/ Running("account", <<vars, cacheVars, budgetVars, stageVars, sourceVars>>)
        /\ Google!Next

PartsSpec == PartsInit /\ [][PartsNext]_allVars

------------------------------------------------------------------------------
(* The properties of the other parts, where they are stated and explained.    *)

\* The budget and its reserve hold whatever runs together, which changes no time limit.
BudgetInv == part = "budget" => Budget!BudgetHolds /\ Budget!SameAsSerial

\* What a stage concludes, the report concludes from the recorded runs.
ReportAgrees == part = "stage" => Stage!ReportAgrees

\* Every test has a result of its own runs, or the reason why it has none.
EveryTestIsAnswered == part = "stage" => Stage!EveryTestIsAnswered

\* A replayed baseline that a live run contradicted supports no result.
ContradictedSupportsNothing == part = "stage" => Stage!ContradictedSupportsNothing

\* The live runs of a stage fit its time limit.
TimeIsBounded == part = "stage" => Stage!TimeIsBounded

\* A change up to the token of a Drive cache is in it.
CacheMissesNothing == part = "source" => Source!CacheMissesNothing

\* The token, the list and the sources of a Google account agree.
ConnectionInv == part = "account" => Google!ConnectionInv
===============================================================================
