---------------------------- MODULE ExecutionCache ----------------------------
(***************************************************************************)
(* The execution cache of the CLI (app/internal/execcache and the          *)
(* harness): reviews that share a directory run one generated experiment,  *)
(* replay its baseline when two live runs agreed on it, and write every    *)
(* live result through.                                                    *)
(*                                                                         *)
(* One key is modelled; keys do not interact but for the space they take.  *)
(* A review holds its own lock while it runs, but nothing coordinates two  *)
(* reviews: reading the entry again after a live run and publishing or     *)
(* removing it are separate steps, and a review may be killed between any  *)
(* two of them.                                                            *)
(*                                                                         *)
(* The baseline is whatever the sandbox gives: "pass", "hollow" (exit code *)
(* 0, but nothing shows that the named test ran: it did not, or the log is *)
(* cut), "fail", or "none" (a timeout, an error or a skip).  A completed   *)
(* run may be stored unless its exit code is that of no test or its report *)
(* is cut or would be changed by redaction.                                *)
(***************************************************************************)
EXTENDS Naturals, FiniteSets

CONSTANTS
    Reviews,       \* the reviews that share the directory
    None,          \* no entry
    MaxFailures,   \* I/O failures in a row after which a store disables itself
    MaxRuns,       \* bound: experiments begun, in all
    MaxFaults      \* bound: I/O failures, damaged files and stops, in all

VARIABLES
    file,      \* the entry on disk
    rv,        \* the state of each review
    runs,      \* experiments begun
    faults,    \* faults that happened
    lives,     \* live runs that may be stored, by status
    streak,    \* the last of them that agree: [status, n]
    clash      \* a fault happened, or two reviews recorded at the same time

cacheVars == <<file, rv, runs, faults, lives, streak, clash>>
history == <<lives, streak, clash>>

Result == {"pass", "hollow", "fail", "none"}
Status(res) == CASE res \in {"pass", "hollow"} -> "PASS" [] res = "fail" -> "FAIL" [] OTHER -> "NONE"

Entry == [res : Result \ {"none"}, live : Nat \ {0}, slow : BOOLEAN, stale : BOOLEAN]

\* A check of the baseline; agreed says what the live runs before it had shown.
NoCheck == [res |-> "none", replay |-> FALSE, live |-> 0, agreed |-> FALSE]

ASSUME CacheAssumption ==
    /\ IsFiniteSet(Reviews) /\ None \notin Entry
    /\ MaxFailures \in Nat /\ MaxRuns \in Nat /\ MaxFaults \in Nat

NoEvidence == [status |-> "UNVERIFIED", base |-> NoCheck, cand |-> "none"]

Opened == [pc |-> "idle", base |-> NoCheck, cand |-> "none", prior |-> None,
           confirm |-> FALSE, failures |-> 0, disabled |-> FALSE, evidence |-> NoEvidence]

CacheInit ==
    /\ file = None
    /\ rv = [r \in Reviews |-> Opened]
    /\ runs = 0 /\ faults = 0
    /\ lives = [s \in {"PASS", "FAIL"} |-> 0]
    /\ streak = [status |-> "NONE", n |-> 0]
    /\ clash = FALSE

Fault == faults < MaxFaults /\ faults' = faults + 1

At(r, pc) == rv[r].pc = pc
Recording(r) == rv[r].pc \in {"read", "put", "delete", "evict", "remove"}
OthersRecord(r) == \E o \in Reviews \ {r} : Recording(o)

\* The directory is used: a success ends a series of failures.
Worked(s) == [s EXCEPT !.failures = 0]
Failed(s) == [s EXCEPT !.failures = @ + 1, !.disabled = @ \/ s.failures + 1 >= MaxFailures]

\* Mutant of Servable: one live run is enough.
ServableOnce(e) == e.live >= 1 /\ Status(e.res) = "PASS" /\ ~e.slow

\* Two agreeing live runs of a baseline PASS, shorter than the time limit.
Servable(e) == e.live >= 2 /\ Status(e.res) = "PASS" /\ ~e.slow

------------------------------------------------------------------------------
(* An experiment: the baseline, from the cache or live.                      *)

Begin(r) ==
    /\ At(r, "idle") /\ runs < MaxRuns
    /\ runs' = runs + 1
    /\ rv' = [rv EXCEPT ![r] = [@ EXCEPT !.pc = "consult", !.evidence = NoEvidence]]
    /\ UNCHANGED <<file, faults, history>>

Found(s) == ~s.disabled /\ file # None

\* An expired or damaged file is removed; what is missing is run.
Consult(r) ==
    /\ At(r, "consult")
    /\ LET s == rv[r] IN
        IF Found(s) /\ ~file.stale /\ Servable(file)
        THEN rv' = [rv EXCEPT ![r] = [Worked(s) EXCEPT !.pc = "candidate",
                !.base = [res |-> file.res, replay |-> TRUE, live |-> file.live,
                          agreed |-> streak.status = "PASS" /\ streak.n >= 2]]]
        ELSE rv' = [rv EXCEPT ![r] =
                [(IF Found(s) /\ ~file.stale THEN Worked(s) ELSE s) EXCEPT !.pc = "run"]]
    /\ file' = IF Found(rv[r]) /\ file.stale THEN None ELSE file
    /\ clash' = (clash \/ OthersRecord(r))
    /\ UNCHANGED <<runs, faults, lives, streak>>

Agree(res) ==
    IF Status(res) = "NONE" THEN UNCHANGED <<lives, streak>>
    ELSE /\ lives' = [lives EXCEPT ![Status(res)] = @ + 1]
         /\ streak' = IF streak.status = Status(res) THEN [streak EXCEPT !.n = @ + 1]
                      ELSE [status |-> Status(res), n |-> 1]

AfterBaseline(s) == IF s.confirm THEN "settle" ELSE "candidate"

\* The container runs; a result that cannot be stored goes no further.
Execute(r) ==
    /\ At(r, "run")
    /\ \E res \in Result, storable \in BOOLEAN :
        /\ res = "none" => ~storable
        /\ rv' = [rv EXCEPT ![r] = [@ EXCEPT
                !.base = [NoCheck EXCEPT !.res = res],
                !.pc = IF storable THEN "read" ELSE AfterBaseline(rv[r])]]
        /\ Agree(IF storable THEN res ELSE "none")
    /\ clash' = (clash \/ OthersRecord(r))
    /\ UNCHANGED <<file, runs, faults>>

------------------------------------------------------------------------------
(* Write-through: the entry is read again, then extended, begun or removed.  *)

\* Mutant of Disagrees: only a result that cannot be stored disagrees.
NeverDisagrees(e, res) == Status(res) = "NONE"

Disagrees(e, res) == Status(e.res) # Status(res)

\* differs: the exit code or the truncation of the log is not that of the entry.
ReadPrior(r) ==
    /\ At(r, "read")
    /\ LET s == rv[r]
           prior == IF Found(s) /\ ~file.stale THEN file ELSE None
           t == IF prior # None THEN Worked(s) ELSE s
       IN  \E differs \in BOOLEAN :
            rv' = [rv EXCEPT ![r] = [t EXCEPT !.prior = prior,
                !.pc = IF prior # None /\ (Disagrees(prior, s.base.res) \/ differs)
                       THEN "delete" ELSE "put"]]
    /\ file' = IF Found(rv[r]) /\ file.stale THEN None ELSE file
    /\ clash' = (clash \/ OthersRecord(r))
    /\ UNCHANGED <<runs, faults, lives, streak>>

\* slow: the run took longer than the limit a later stage may have left.
Written(s, slow) ==
    [res |-> s.base.res, live |-> IF s.prior = None THEN 1 ELSE s.prior.live + 1,
     slow |-> slow, stale |-> FALSE]

\* The entry is published by a rename.  A disabled store refuses it.
PutEntry(r) ==
    /\ At(r, "put")
    /\ \E slow \in BOOLEAN :
        file' = IF rv[r].disabled THEN file ELSE Written(rv[r], slow)
    /\ rv' = [rv EXCEPT ![r] =
            [(IF @.disabled THEN @ ELSE Worked(@)) EXCEPT
                !.pc = AfterBaseline(rv[r]), !.prior = None]]
    /\ UNCHANGED <<runs, faults, history>>

\* The write limit of the run is reached: not a failure of the directory.
PutRefused(r) ==
    /\ At(r, "put") /\ Fault
    /\ rv' = [rv EXCEPT ![r] = [@ EXCEPT !.pc = AfterBaseline(rv[r]), !.prior = None]]
    /\ UNCHANGED <<file, runs, history>>

DeleteEntry(r) ==
    /\ At(r, "delete")
    /\ file' = None
    /\ rv' = [rv EXCEPT ![r] = [@ EXCEPT !.pc = AfterBaseline(rv[r]), !.prior = None]]
    /\ UNCHANGED <<runs, faults, history>>

------------------------------------------------------------------------------
(* The candidate and the verdict.                                            *)

Differential(base, cand) ==
    IF base = "pass" /\ cand = "fail" THEN "REPRODUCED"
    ELSE IF base = "pass" /\ cand = "pass" THEN "NOT_REPRODUCED"
    ELSE "UNVERIFIED"

Conclude(s, status) ==
    [s EXCEPT !.pc = "idle", !.base = NoCheck, !.cand = "none", !.confirm = FALSE,
        !.evidence = [status |-> status, base |-> s.base, cand |-> s.cand]]

\* Mutant of MustConfirm: a replay the live runs agreed on is enough.
ConfirmRarely(s, status) == status = "REPRODUCED" /\ s.base.replay /\ s.base.live < 2

\* A replay never supports a reproduction: the baseline runs again, live.
MustConfirm(s, status) == status = "REPRODUCED" /\ s.base.replay

Candidate(r) ==
    /\ At(r, "candidate")
    /\ \E cand \in Result \ {"hollow"} :
        LET s == [rv[r] EXCEPT !.cand = cand]
            status == Differential(s.base.res, cand)
        IN  rv' = [rv EXCEPT ![r] =
                IF MustConfirm(s, status)
                THEN [s EXCEPT !.pc = "run", !.confirm = TRUE]
                ELSE Conclude(s, status)]
    /\ UNCHANGED <<file, runs, faults, history>>

\* The live run decides; one that completed and did not pass contradicts the replay.
Settle(r) ==
    /\ At(r, "settle")
    /\ LET s == rv[r] IN
        /\ rv' = [rv EXCEPT ![r] =
            IF s.base.res = "pass" THEN Conclude(s, "REPRODUCED")
            ELSE IF s.base.res = "none" THEN Conclude(s, "UNVERIFIED")
            ELSE [s EXCEPT !.pc = "evict"]]
        /\ streak' = IF s.base.res = "hollow" THEN [status |-> "NONE", n |-> 0] ELSE streak
    /\ UNCHANGED <<file, runs, faults, lives, clash>>

\* The entry is read, to count the contradiction, and removed whatever it says.
EvictRead(r) ==
    /\ At(r, "evict")
    /\ rv' = [rv EXCEPT ![r] =
            [(IF Found(@) /\ ~file.stale THEN Worked(@) ELSE @) EXCEPT !.pc = "remove"]]
    /\ file' = IF Found(rv[r]) /\ file.stale THEN None ELSE file
    /\ clash' = (clash \/ OthersRecord(r))
    /\ UNCHANGED <<runs, faults, lives, streak>>

EvictRemove(r) ==
    /\ At(r, "remove")
    /\ file' = None
    /\ rv' = [rv EXCEPT ![r] = Conclude(@, "UNVERIFIED")]
    /\ UNCHANGED <<runs, faults, history>>

------------------------------------------------------------------------------
(* Faults: the directory fails, a file is damaged or expires, a review stops. *)

\* A failed read is a miss, a failed write or removal is counted and forgotten.
IOFails(r) ==
    /\ \/ At(r, "put") \/ At(r, "delete") \/ At(r, "remove")
       \/ rv[r].pc \in {"consult", "read", "evict"} /\ Found(rv[r])
    /\ ~(At(r, "put") /\ rv[r].disabled)
    /\ Fault
    /\ rv' = [rv EXCEPT ![r] =
            CASE @.pc = "consult" -> [Failed(@) EXCEPT !.pc = "run"]
              [] @.pc = "read" -> [Failed(@) EXCEPT !.pc = "put", !.prior = None]
              [] @.pc = "evict" -> [Failed(@) EXCEPT !.pc = "remove"]
              [] @.pc = "remove" -> Conclude(Failed(@), "UNVERIFIED")
              [] OTHER -> [Failed(@) EXCEPT !.pc = AfterBaseline(rv[r]), !.prior = None]]
    /\ clash' = TRUE
    /\ UNCHANGED <<file, runs, lives, streak>>

Spoil ==
    /\ file # None /\ Fault
    /\ file' = [file EXCEPT !.stale = TRUE]
    /\ UNCHANGED <<rv, runs, history>>

\* A review ends, is killed or starts; opening the directory trims it.
Open(r) ==
    /\ Fault
    /\ rv' = [rv EXCEPT ![r] = Opened]
    /\ file' \in {file, None}
    /\ file # None /\ file.stale => file' = None
    /\ clash' = (clash \/ Recording(r) \/ At(r, "settle"))
    /\ UNCHANGED <<runs, lives, streak>>

CacheNext ==
    \/ \E r \in Reviews :
        \/ Begin(r) \/ Consult(r) \/ Execute(r) \/ Candidate(r)
        \/ ReadPrior(r) \/ PutEntry(r) \/ PutRefused(r) \/ DeleteEntry(r)
        \/ Settle(r) \/ EvictRead(r) \/ EvictRemove(r)
        \/ IOFails(r) \/ Open(r)
    \/ Spoil

CacheSpec == CacheInit /\ [][CacheNext]_cacheVars

------------------------------------------------------------------------------
(* What the finalized report derives again from the recorded checks.         *)

Rederived(e) ==
    IF e.base.res # "pass" THEN "UNVERIFIED"
    ELSE IF e.cand = "fail" /\ ~e.base.replay THEN "REPRODUCED"
    ELSE IF e.cand = "pass" /\ (~e.base.replay \/ e.base.live >= 2) THEN "NOT_REPRODUCED"
    ELSE "UNVERIFIED"

(* Properties.                                                               *)

Steps == {"idle", "consult", "run", "read", "put", "delete", "candidate", "settle",
          "evict", "remove"}

BaseCheck == [res : Result, replay : BOOLEAN, live : Nat, agreed : BOOLEAN]

Evidence ==
    [status : {"UNVERIFIED", "REPRODUCED", "NOT_REPRODUCED"}, base : BaseCheck, cand : Result]

Review ==
    [pc : Steps, base : BaseCheck, cand : Result, prior : Entry \cup {None}, confirm : BOOLEAN,
     failures : Nat, disabled : BOOLEAN, evidence : Evidence]

CacheTypeOK ==
    /\ file \in Entry \cup {None}
    /\ rv \in [Reviews -> Review]
    /\ runs \in Nat /\ faults \in Nat
    /\ lives \in [{"PASS", "FAIL"} -> Nat]
    /\ streak \in [status : {"PASS", "FAIL", "NONE"}, n : Nat]
    /\ clash \in BOOLEAN

\* What a review has shown by the step it is at: only a result that may be stored goes
\* through the cache, a replay rests on two live runs, and only a reproduction on a
\* replay is confirmed, by a run that is settled once.
ReviewInv(s) ==
    /\ s.base.replay => s.base.live >= 2
    /\ s.pc \in {"read", "put", "delete", "settle", "evict", "remove"} => ~s.base.replay
    /\ s.pc \in {"read", "put", "delete"} => s.base.res # "none"
    /\ s.pc \in {"evict", "remove"} => s.base.res \in {"hollow", "fail"}
    /\ s.pc \in {"settle", "evict", "remove"} => s.confirm
    /\ s.pc \in {"idle", "consult", "candidate"} => ~s.confirm
    /\ s.confirm => s.cand = "fail"
    /\ s.pc = "put" /\ s.prior # None => Status(s.prior.res) = Status(s.base.res)

\* The live runs of a status that are not written yet.
Unwritten(st) == {r \in Reviews : rv[r].pc \in {"read", "put"} /\ Status(rv[r].base.res) = st}

\* A number of runs that leaves room for those that are not written.
Backed(n, st) == n + Cardinality(Unwritten(st)) <= lives[st]

\* An entry never claims more agreeing live runs than there were, whatever the
\* reviews overwrite of each other: a replay and a disagreeing run add nothing.
EntryIsBacked ==
    /\ \A st \in {"PASS", "FAIL"} : Backed(0, st)
    /\ file # None => Backed(file.live, Status(file.res))
    /\ \A r \in Reviews :
        rv[r].pc = "put" /\ rv[r].prior # None => Backed(rv[r].prior.live, Status(rv[r].prior.res))

\* A verdict the harness records is the one the finalized report derives again
\* from the checks it cites: a reproduction rests on a baseline run live.
VerdictsStand ==
    \A r \in Reviews : rv[r].evidence.status = Rederived(rv[r].evidence)

\* A replayed baseline was agreed on by two live runs in a row: no live run that may be
\* stored had disagreed since.
ContradictedIsNotServed ==
    \A r \in Reviews : rv[r].base.replay => rv[r].base.agreed

\* The last live runs in a row gave what an entry says, as many times as it says.
Agreed(e, n) == Status(e.res) = streak.status /\ e.live <= n

\* The entry and the last live runs agree between two recordings, and whoever records
\* knows what it does to the agreement; while an entry is being removed it may not hold.
EntryIsAgreed ==
    \/ \E r \in Reviews : rv[r].pc \in {"evict", "remove"}
    \/ /\ file # None =>
            \/ Agreed(file, streak.n)
            \/ \E r \in Reviews : rv[r].pc \in {"read", "delete"}
       /\ \A r \in Reviews :
            /\ rv[r].pc \in {"read", "put"} =>
                streak.n > 0 /\ streak.status = Status(rv[r].base.res)
            /\ rv[r].pc = "read" /\ file # None /\ Status(file.res) = streak.status =>
                file.live < streak.n
            /\ rv[r].pc = "put" /\ rv[r].prior # None => Agreed(rv[r].prior, streak.n - 1)

\* Two reviews do not record at the same time, but that one may begin to remove an
\* entry; and the directory works.
OneRecords ==
    /\ \A r \in Reviews : ~rv[r].disabled
    /\ \A r, o \in Reviews : r # o /\ Recording(r) /\ Recording(o) =>
        rv[r].pc = "evict" \/ rv[o].pc = "evict"

\* The same, as long as the directory works and one review at a time records.
ServedIsAgreed == clash \/ (ContradictedIsNotServed /\ EntryIsAgreed /\ OneRecords)

\* What the directory holds, and what it makes of it.
CacheInv ==
    /\ CacheTypeOK
    /\ \A r \in Reviews : ReviewInv(rv[r])
    /\ EntryIsBacked
    /\ ServedIsAgreed

===============================================================================
