---------------------------- MODULE JobLifecycle ----------------------------
(***************************************************************************)
(* What the analysis queue of Probe Hub promises its callers, without its  *)
(* goroutines: an attempt to analyze a job is admitted, and then either    *)
(* dropped (the queue was full, or the process stopped), withdrawn before  *)
(* it starts, or run to its end exactly once.  At most one attempt of a    *)
(* job is open at a time, and an account never has more open attempts than *)
(* its quota.                                                              *)
(***************************************************************************)
EXTENDS Naturals, Sequences, FiniteSets

CONSTANTS
    Keys,         \* the jobs (account, repository, commit, variant)
    Owner,        \* Owner[k]: the account of a job
    UserQuota,    \* open attempts an account may have
    MaxAttempts   \* bound: attempts admitted in a behaviour

VARIABLES
    jobs,         \* jobs[a] is the job of attempt a
    phase         \* phase[a] is where attempt a stands

vars == <<jobs, phase>>

Phases == {"admitted", "running", "withdrawn", "dropped", "over"}
Open   == {"admitted", "running"}

OpenJobs == {jobs[a] : a \in {a \in DOMAIN jobs : phase[a] \in Open}}

Init == jobs = <<>> /\ phase = <<>>

Admit(k) ==
    /\ Len(jobs) < MaxAttempts
    /\ k \notin OpenJobs
    /\ Cardinality({j \in OpenJobs : Owner[j] = Owner[k]}) < UserQuota
    /\ jobs' = Append(jobs, k)
    /\ phase' = Append(phase, "admitted")

Move(a, from, to) ==
    /\ phase[a] = from
    /\ phase' = [phase EXCEPT ![a] = to]
    /\ UNCHANGED jobs

Start(a)    == Move(a, "admitted", "running")
Withdraw(a) == Move(a, "admitted", "withdrawn")
Drop(a)     == Move(a, "admitted", "dropped")
Finish(a)   == Move(a, "running", "over")

\* The process stops: what was waiting is dropped, what was running is over.
Stop ==
    /\ phase' = [a \in DOMAIN phase |->
                   CASE phase[a] = "admitted" -> "dropped"
                     [] phase[a] = "running"  -> "over"
                     [] OTHER                 -> phase[a]]
    /\ UNCHANGED jobs

Next ==
    \/ \E k \in Keys : Admit(k)
    \/ \E a \in DOMAIN jobs : Start(a) \/ Withdraw(a) \/ Drop(a) \/ Finish(a)
    \/ Stop

Spec == Init /\ [][Next]_vars
=============================================================================
