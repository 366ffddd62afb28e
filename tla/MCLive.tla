-------------------------------- MODULE MCLive --------------------------------
(***************************************************************************)
(* Components whose liveness is checked, each on a small instance: the     *)
(* device login, the analysis runner, the LLM gateway, a page and the      *)
(* Drive source.  None of them reads the state of another one, so a        *)
(* behaviour is that of one of them: `part` says which, the others stay in *)
(* one initial state.                                                      *)
(***************************************************************************)
EXTENDS DeviceLogin, TLC

CONSTANTS
    rq1, alice, bob,
    Users, Repos, Keys, Plans, Clients, Workers, QueueSize, UserQuota, NoRun,
    MaxAttempts, MaxCancels, MaxFailures, MaxCrashes, MaxAged, u1, r1, k1, k2,
    Files, Sub, SourceTime, SourceFaults,
    Requests, Account, Parallel, Slots, Quota, MaxCost, MaxDay, MaxTotal,
    Owners, Mine, Syncs, Buffer, PageFaults

VARIABLES
    part,
    attempts, active, started, cancelled, perUser, queue, ready, activity, aged, stream,
    latest, records, pc, cur, out, promised, runnerFaults,
    drive, mem, disk, list, stat, sourceFaults,
    today, usedDay, used, copies, inflight, slots, at, day, cost, counted, erased, straddled,
    stored, where, held, feed, connected, buffer, shown, load, newest, hidden,
    pageFaults, gap

\* One account and repository with two commits.
RepoOf == k1 :> r1 @@ k2 :> r1
UserOf == r1 :> u1

\* One request of an account beside those of another.
OneOfBob == [r \in Requests |-> IF r = rq1 THEN bob ELSE alice]

Runner == INSTANCE AnalysisRunner WITH faults <- runnerFaults
Source == INSTANCE DriveSource WITH
    MaxTime <- SourceTime, MaxFaults <- SourceFaults, faults <- sourceFaults

\* The writers of whole records change no count that a request waits for.
Gateway == INSTANCE LLMGateway WITH pc <- at, Writers <- {}
Page == INSTANCE RepoPage WITH
    stream <- feed, MaxFaults <- PageFaults, faults <- pageFaults

runnerVars == <<attempts, active, started, cancelled, perUser, queue, ready, activity, aged,
                stream, latest, records, pc, cur, out, promised, runnerFaults>>
sourceVars == <<drive, mem, disk, list, stat, sourceFaults>>
gatewayVars == <<today, usedDay, used, copies, inflight, slots, at, day, cost,
                 counted, erased, straddled>>
pageVars   == <<stored, where, held, feed, connected, buffer, shown, load, newest, hidden,
                pageFaults, gap>>
allVars    == <<part, vars, runnerVars, sourceVars, gatewayVars, pageVars>>

LiveInit ==
    /\ part \in {"device", "runner", "source", "gateway", "page"}
    /\ Init /\ Runner!Init /\ Source!Init /\ Gateway!Init /\ Page!PageInit
    /\ part # "device" => \A l \in Logins : machine[l] = CHOOSE m \in Machines : TRUE
    /\ part # "source" => \A f \in Files : drive[f].in = "root"

Running(p, others) == part = p /\ UNCHANGED <<part, others>>
InDevice  == Running("device", <<runnerVars, sourceVars, gatewayVars, pageVars>>)
InRunner  == Running("runner", <<vars, sourceVars, gatewayVars, pageVars>>)
InSource  == Running("source", <<vars, runnerVars, gatewayVars, pageVars>>)
InGateway == Running("gateway", <<vars, runnerVars, sourceVars, pageVars>>)
InPage    == Running("page", <<vars, runnerVars, sourceVars, gatewayVars>>)

LiveNext ==
    \/ InDevice /\ Next
    \/ InRunner /\ Runner!Next
    \/ InSource /\ Source!Next
    \/ InGateway /\ Gateway!Next
    \/ InPage /\ Page!PageNext

\* The fairness of the part that runs: FairSpec of its module.
LiveSpec ==
    /\ LiveInit /\ [][LiveNext]_allVars
    /\ \A c \in Clients : WF_allVars(InRunner /\ Runner!ClientStep(c))
    /\ \A w \in Workers : WF_allVars(InRunner /\ Runner!WorkerStep(w))
    /\ WF_allVars(InDevice /\ Tick)
    /\ \A r \in Deliveries : WF_allVars(InDevice /\ (Serve(r) \/ Issue(r) \/ IssueRefused(r)))
    /\ \A l \in Logins : WF_allVars(InDevice /\ (SendPoll(l) \/ Receive(l) \/ GiveUp(l)))
    /\ WF_allVars(InSource /\ Source!ListWork)
    /\ WF_allVars(InSource /\ Source!StatApply)
    /\ WF_allVars(InSource /\ Source!DayPasses)
    /\ \A r \in Requests : WF_allVars(InGateway /\ Gateway!GoOn(r))
    /\ \A r \in Owners \cup Syncs : WF_allVars(InPage /\ Page!RequestStep(r))
    /\ \A l \in Page!Loads : WF_allVars(InPage /\ Page!LoadStep(l))
    /\ WF_allVars(InPage /\ Page!Receive) /\ WF_allVars(InPage /\ Page!Refresh)
    /\ WF_allVars(InPage /\ Page!ComeBack)
    /\ WF_allVars(InPage /\ Page!Subscribe) /\ WF_allVars(InPage /\ Page!OnOpen)

-------------------------------------------------------------------------------
(* The properties of the parts, where they are stated and explained.           *)

\* Every admitted attempt ends, gives its slot back and shows its outcome.
AttemptsEnd == Runner!AttemptsEnd

\* The documents of a source are those of the drive again and again.
CatchesUp == []<>(part = "source" => Source!ShownNow)

\* Every request of the gateway is answered.
RequestsEnd == Gateway!RequestsEnd

\* A page shows what is stored in the end.
PageCatchesUp == Page!PageCatchesUp
===============================================================================
