----------------------------- MODULE SelfUpdate -----------------------------
(***************************************************************************)
(* How Probe Desktop replaces its own executable and restarts into it      *)
(* (desktop/internal/update/install.go, internal/app/app.go) under the     *)
(* single-instance lock (internal/instance/instance.go).                   *)
(*                                                                         *)
(* An engine prepares a newer version next to its executable, quits,       *)
(* releases the lock, moves itself aside, puts the new version in place,   *)
(* starts it and waits until it has published itself as the engine; else   *)
(* it brings the previous executable back and starts that one.  Meanwhile  *)
(* the user may start or quit the application, and one of the calls or     *)
(* processes may fail.                                                     *)
(*                                                                         *)
(* Two facts of the timing are guards here.  An engine checks for updates  *)
(* a minute after it started, when the hand-over it may have started in    *)
(* the middle of (half a minute, and ten seconds to restore) is over; and  *)
(* a process that was killed is gone within the time others wait for it.   *)
(***************************************************************************)
EXTENDS Naturals, FiniteSets

CONSTANTS
    Procs,          \* processes that may exist at the same time
    MaxVersion,     \* versions published
    Broken,         \* versions that answer "version" and never become an engine
    MaxLaunches,    \* times the user starts the application
    MaxFaults,      \* calls that fail, stops and late answers
    Nil

VARIABLES
    exe, old, staged,   \* the version in each file, if it is there
    latest,             \* the version of the manifest
    skip,               \* update-skip
    lock, info,         \* who holds instance.lock, who instance.json names
    proc,               \* the processes
    launches, faults,
    excused,            \* versions whose start was late or met another engine
    stopped,            \* a process was stopped from outside
    lost,               \* no file is left at its path: a stop, or a move back that failed
    unrestored,         \* the previous version did not come back, or could not be started
    awaited             \* a hand-over began, and no engine has published itself since

installed == <<exe, old, staged>>
known == <<latest, launches, faults, excused, stopped, lost, unrestored>>
around == <<known, awaited>>
updateVars  == <<installed, skip, lock, info, proc, around>>

Versions == 1..MaxVersion

ASSUME UpdateAssumption == MaxVersion \in Nat \ {0} /\ Nil \notin Versions \cup Procs

Places == {"gone",                                     \* no process
           "start", "own", "run", "hung",              \* an engine that starts, and runs
           "probe", "ready",                           \* an update is downloaded, is prepared
           "quit", "release",                          \* it quits
           "swap", "moved", "install", "wait",         \* the hand-over
           "restore", "removed", "skip", "again",      \* its failure
           "dying"}                                    \* killed, its file still open

\* A process: where it is, its version, which file it runs from, whether another
\* engine started it, the version it installs, the process it started for that.
NoProcess == [pc |-> "gone", v |-> 0, at |-> "exe", restart |-> FALSE, upd |-> 0, child |-> Nil]
Started(v, restart) == [NoProcess EXCEPT !.pc = "start", !.v = v, !.restart = restart]

Alive(p) == proc[p].pc # "gone"
InUse(path) == \E p \in Procs : Alive(p) /\ proc[p].at = path
HandsOver(p) == proc[p].pc \in {"swap", "moved", "install", "wait", "restore", "removed", "skip", "again"}

\* A process id is not used again while a process or instance.json names it.
Free == {p \in Procs : ~Alive(p) /\ info # p /\ \A q \in Procs : Alive(q) => proc[q].child # p}

UpdateInit ==
    /\ exe = 1 /\ old = Nil /\ staged = Nil /\ latest = 1 /\ skip = 0
    /\ lock = Nil /\ info = Nil
    /\ proc = [p \in Procs |-> NoProcess]
    /\ launches = 0 /\ faults = 0
    /\ excused = {} /\ stopped = FALSE /\ lost = FALSE /\ unrestored = FALSE /\ awaited = FALSE

Goes(p, pc) == proc' = [proc EXCEPT ![p].pc = pc]
Ends(p)     == proc' = [proc EXCEPT ![p] = NoProcess]
Fault       == faults < MaxFaults /\ faults' = faults + 1

\* The processes after a file was renamed: who runs from it goes with it.
Renamed(ps, from, to) == [p \in Procs |-> IF ps[p].pc # "gone" /\ ps[p].at = from THEN [ps[p] EXCEPT !.at = to] ELSE ps[p]]

------------------------------------------------------------------------------
(* The start of an engine, and its end.                                       *)

Launch(p) ==
    /\ launches < MaxLaunches /\ p \in Free /\ exe # Nil
    /\ proc' = [proc EXCEPT ![p] = Started(exe, FALSE)]
    /\ launches' = launches + 1
    /\ UNCHANGED <<installed, latest, skip, lock, info, faults, excused, stopped, lost, unrestored, awaited>>

Acquire(p) ==
    /\ proc[p].pc = "start" /\ lock = Nil
    /\ lock' = p /\ Goes(p, "own")
    /\ UNCHANGED <<installed, skip, info, around>>

\* Another engine runs: the process leaves, at once or, if an engine started it, when
\* the lock was not released in time.
Leave(p) ==
    /\ proc[p].pc = "start" /\ lock # Nil
    /\ proc[p].restart => proc[lock].pc # "dying"
    /\ Ends(p)
    /\ UNCHANGED <<installed, skip, lock, info, around>>

Publish(p) ==
    /\ proc[p].pc = "own" /\ proc[p].v \notin Broken
    /\ info' = p /\ Goes(p, "run")
    /\ awaited' = FALSE
    /\ UNCHANGED <<installed, skip, lock, known>>

\* A version that does not start ends, or hangs and holds the lock.
Fail(p) ==
    /\ proc[p].pc = "own" /\ proc[p].v \in Broken
    /\ \/ Goes(p, "hung") /\ UNCHANGED lock
       \/ Ends(p) /\ lock' = Nil
    /\ UNCHANGED <<installed, skip, info, around>>

\* The user quits: what is prepared is forgotten.
Quit(p) ==
    /\ proc[p].pc \in {"run", "ready"}
    /\ proc' = [proc EXCEPT ![p].pc = "quit", ![p].upd = 0]
    /\ UNCHANGED <<installed, skip, lock, info, around>>

\* The published information goes before the lock does.
ReleaseInfo(p) ==
    /\ proc[p].pc = "quit"
    /\ info' = Nil /\ Goes(p, "release")
    /\ UNCHANGED <<installed, skip, lock, around>>

Unlock(p) ==
    /\ proc[p].pc = "release"
    /\ lock' = Nil
    /\ IF proc[p].upd # 0 THEN Goes(p, "swap") ELSE Ends(p)
    /\ awaited' = (awaited \/ proc[p].upd # 0)
    /\ UNCHANGED <<installed, skip, info, known>>

------------------------------------------------------------------------------
(* A newer version is prepared.                                               *)

Removed(path, version) == IF InUse(path) THEN version ELSE Nil

\* What an earlier update left is removed first; a version that failed is not taken
\* again.
Check(p) ==
    /\ proc[p].pc = "run" /\ ~\E q \in Procs : HandsOver(q)
    /\ old' = Removed("old", old)
    /\ \/ staged' = Nil /\ UNCHANGED proc
       \/ /\ latest > proc[p].v /\ latest # skip
          /\ staged' = latest
          /\ proc' = [proc EXCEPT ![p].pc = "probe", ![p].upd = latest]
    /\ UNCHANGED <<exe, skip, lock, info, around>>

\* The download is run once; one that does not answer in time is not taken again.
Probe(p) ==
    /\ proc[p].pc = "probe"
    /\ \/ Goes(p, "ready") /\ UNCHANGED <<staged, skip, faults, excused>>
       \/ /\ Fault
          /\ staged' = Nil /\ skip' = proc[p].upd
          /\ excused' = excused \cup {proc[p].upd}
          /\ proc' = [proc EXCEPT ![p].pc = "run", ![p].upd = 0]
    /\ UNCHANGED <<exe, old, lock, info, latest, launches, stopped, lost, unrestored, awaited>>

\* As soon as no window is open, the engine quits to install it.
Install(p) ==
    /\ proc[p].pc = "ready" /\ Goes(p, "quit")
    /\ UNCHANGED <<installed, skip, lock, info, around>>

------------------------------------------------------------------------------
(* The hand-over to the new version, without the lock.                        *)

\* The engine moves itself aside.  A file that is in use cannot be replaced.
MoveAside(p) ==
    /\ proc[p].pc = "swap"
    /\ \/ /\ exe # Nil /\ Removed("old", old) = Nil
          /\ old' = exe /\ exe' = Nil
          /\ proc' = [Renamed(proc, "exe", "old") EXCEPT ![p].pc = "moved"]
          /\ UNCHANGED faults
       \/ /\ IF exe # Nil /\ Removed("old", old) = Nil THEN Fault ELSE UNCHANGED faults
          /\ old' = Removed("old", old) /\ UNCHANGED exe
          /\ Goes(p, "again")
    /\ UNCHANGED <<staged, skip, lock, info, latest, launches, excused, stopped, lost, unrestored, awaited>>

\* The new version takes its place; if it cannot, the previous one is moved back.
PutInPlace(p) ==
    /\ proc[p].pc = "moved"
    /\ \/ /\ staged # Nil
          /\ exe' = staged /\ staged' = Nil
          /\ Goes(p, "install")
          /\ UNCHANGED <<old, faults, lost>>
       \/ /\ IF staged # Nil THEN Fault ELSE UNCHANGED faults
          /\ exe' = old /\ old' = Nil
          /\ proc' = [Renamed(proc, "old", "exe") EXCEPT ![p].pc = "again"]
          /\ UNCHANGED <<staged, lost>>
       \/ /\ faults + 1 < MaxFaults /\ faults' = faults + 2
          /\ lost' = TRUE /\ Goes(p, "again")
          /\ UNCHANGED <<exe, old, staged>>
    /\ UNCHANGED <<skip, lock, info, latest, launches, excused, stopped, unrestored, awaited>>

StartNew(p) ==
    /\ proc[p].pc = "install"
    /\ \/ /\ \E c \in Free : proc' = [proc EXCEPT ![p].pc = "wait", ![p].child = c,
                                                  ![c] = Started(exe, TRUE)]
          /\ UNCHANGED <<faults, excused>>
       \/ Fault /\ Goes(p, "restore") /\ excused' = excused \cup {proc[p].upd}
    /\ UNCHANGED <<installed, skip, lock, info, latest, launches, stopped, lost, unrestored, awaited>>

\* Mutant of TakenOver: the lock is released once more when the engine ends.
TakenOverAndRelease(p) ==
    /\ proc[p].pc = "wait" /\ Alive(proc[p].child) /\ info = proc[p].child
    /\ Ends(p) /\ info' = Nil
    /\ UNCHANGED <<installed, skip, lock, around>>

\* The new version published itself: the update is installed.
TakenOver(p) ==
    /\ proc[p].pc = "wait" /\ Alive(proc[p].child) /\ info = proc[p].child
    /\ Ends(p)
    /\ UNCHANGED <<installed, skip, lock, info, around>>

\* It ended, does not come up, or waits for the lock of another engine; a fault is a
\* good version that comes too late.  It is killed.
NotTakenOver(p) ==
    LET c == proc[p].child IN
    /\ proc[p].pc = "wait"
    /\ IF ~Alive(c) \/ proc[c].pc = "hung" THEN UNCHANGED faults ELSE Fault
    /\ excused' = IF proc[p].upd \in Broken THEN excused ELSE excused \cup {proc[p].upd}
    /\ proc' = [q \in Procs |->
            IF q = p THEN [proc[p] EXCEPT !.pc = "restore", !.child = Nil]
            ELSE IF q = c /\ Alive(c) THEN [proc[c] EXCEPT !.pc = "dying"]
            ELSE proc[q]]
    /\ UNCHANGED <<installed, skip, lock, info, latest, launches, stopped, lost, unrestored, awaited>>

\* A killed process leaves the lock, and what it published.
Die(p) ==
    /\ proc[p].pc = "dying"
    /\ lock' = IF lock = p THEN Nil ELSE lock
    /\ Ends(p)
    /\ UNCHANGED <<installed, skip, info, around>>

\* Mutant of RemoveNew: the new version is removed at once or not at all.
RemoveNewOnce(p) ==
    /\ proc[p].pc = "restore"
    /\ IF InUse("exe") THEN Goes(p, "skip") /\ UNCHANGED exe
       ELSE exe' = Nil /\ Goes(p, "removed")
    /\ UNCHANGED <<old, staged, skip, lock, info, around>>

\* The new version is removed, when the killed process is gone; it stays if another
\* engine runs from it, or if no try succeeds.
RemoveNew(p) ==
    /\ proc[p].pc = "restore"
    /\ \/ ~InUse("exe") /\ exe' = Nil /\ Goes(p, "removed") /\ UNCHANGED <<faults, unrestored>>
       \/ /\ \E q \in Procs : Alive(q) /\ proc[q].at = "exe"
                               /\ proc[q].pc \notin {"dying", "start", "own"}
          /\ Goes(p, "skip") /\ UNCHANGED <<exe, faults, unrestored>>
       \/ ~InUse("exe") /\ Fault /\ Goes(p, "skip") /\ unrestored' = TRUE /\ UNCHANGED exe
    /\ UNCHANGED <<old, staged, skip, lock, info, latest, launches, excused, stopped, lost, awaited>>

\* The previous version is moved back, unless no try succeeds: nothing is left there.
BringBack(p) ==
    /\ proc[p].pc = "removed"
    /\ \/ /\ exe' = old /\ old' = Nil
          /\ proc' = [Renamed(proc, "old", "exe") EXCEPT ![p].pc = "skip"]
          /\ UNCHANGED <<faults, lost>>
       \/ Fault /\ lost' = TRUE /\ Goes(p, "skip") /\ UNCHANGED <<exe, old>>
    /\ UNCHANGED <<staged, skip, lock, info, latest, launches, excused, stopped, unrestored, awaited>>

RecordSkip(p) ==
    /\ proc[p].pc = "skip"
    /\ skip' = proc[p].upd /\ Goes(p, "again")
    /\ UNCHANGED <<installed, lock, info, around>>

\* The previous version starts again, if it can; it waits for the lock if another one
\* has it.  Either way this process ends.
RestartSelf(p) ==
    /\ proc[p].pc = "again"
    /\ \/ exe = Nil /\ Ends(p) /\ UNCHANGED <<faults, unrestored>>
       \/ /\ exe # Nil
          /\ \E c \in Free : proc' = [proc EXCEPT ![p] = NoProcess, ![c] = Started(exe, TRUE)]
          /\ UNCHANGED <<faults, unrestored>>
       \/ exe # Nil /\ Fault /\ Ends(p) /\ unrestored' = TRUE
    /\ UNCHANGED <<installed, skip, lock, info, latest, launches, excused, stopped, lost, awaited>>

------------------------------------------------------------------------------
(* What happens outside.                                                      *)

Release ==
    /\ latest < MaxVersion /\ latest' = latest + 1
    /\ UNCHANGED <<installed, skip, lock, info, proc, launches, faults, excused, stopped, lost, unrestored, awaited>>

\* A process is stopped at any point; the system frees its lock.
Stop(p) ==
    /\ Alive(p) /\ Fault
    /\ lost' = (lost \/ proc[p].pc \in {"moved", "removed"})
    /\ lock' = IF lock = p THEN Nil ELSE lock
    /\ Ends(p) /\ stopped' = TRUE
    /\ UNCHANGED <<installed, skip, info, latest, launches, excused, unrestored, awaited>>

Step(p) ==
    \/ Acquire(p) \/ Leave(p) \/ Publish(p) \/ Fail(p)
    \/ ReleaseInfo(p) \/ Unlock(p)
    \/ MoveAside(p) \/ PutInPlace(p) \/ StartNew(p) \/ TakenOver(p) \/ NotTakenOver(p)
    \/ Die(p) \/ RemoveNew(p) \/ BringBack(p) \/ RecordSkip(p) \/ RestartSelf(p)

UpdateNext ==
    \/ \E p \in Procs : Step(p) \/ Launch(p) \/ Quit(p) \/ Check(p) \/ Probe(p) \/ Install(p) \/ Stop(p)
    \/ Release

UpdateFairness == \A p \in Procs : WF_updateVars(Step(p))

UpdateSpec     == UpdateInit /\ [][UpdateNext]_updateVars
FairUpdateSpec == UpdateSpec /\ UpdateFairness

------------------------------------------------------------------------------
(* Properties.                                                                *)

Serves(p) == proc[p].pc \in {"run", "probe", "ready"}

UpdateTypeOK ==
    /\ {exe, old, staged} \subseteq Versions \cup {Nil} /\ latest \in Versions
    /\ skip \in Versions \cup {0} /\ {lock, info} \subseteq Procs \cup {Nil}
    /\ \A p \in Procs : proc[p].pc \in Places /\ proc[p].at \in {"exe", "old"}

\* The application can be started: only in the middle of a hand-over, or after a stop
\* there or a move back that failed, is no file at its path.
ExecutableIsThere == exe # Nil \/ lost \/ \E p \in Procs : proc[p].pc \in {"moved", "removed"}

\* As long as the new version may fail, the previous executable can come back.
PreviousIsKept ==
    \A p \in Procs : proc[p].pc \in {"install", "wait", "restore", "removed"} => old = proc[p].v

\* "Skip records a version that failed to start": or one that came too late, or met
\* an engine the user started in the middle of the hand-over.
SkipIsEarned == skip \in Broken \cup excused \cup {0}

\* A second launch, and an engine that waits for its successor, find the engine that
\* runs: it holds the lock and instance.json names it, whoever released what before.
EngineIsReachable == \A p \in Procs : Serves(p) => lock = p /\ info = p

\* What a self-update never breaks, at any step of it.
UpdateInv == UpdateTypeOK /\ ExecutableIsThere /\ PreviousIsKept /\ SkipIsEarned /\ EngineIsReachable

\* "If the new engine has not taken over ..., the previous executable comes back and
\* restarts": after a hand-over an engine runs again, the new one or the previous one,
\* unless a process was stopped, the executable could not be moved back or started
\* (which the code logs, and ends), or the user started a version that hangs.
EngineComesBack ==
    []<>(~awaited \/ stopped \/ lost \/ unrestored
         \/ \E p \in Procs : proc[p].pc = "hung" /\ ~proc[p].restart)
==============================================================================
