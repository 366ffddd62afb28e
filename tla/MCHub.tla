-------------------------------- MODULE MCHub --------------------------------
(***************************************************************************)
(* Two components of the hub that write several files in a row: the record *)
(* index and the monitoring of a repository.  Neither reads the state of   *)
(* the other one, so a behaviour is that of one of them: `part` says       *)
(* which, the other stays in one initial state.                            *)
(***************************************************************************)
EXTENDS HubProofs, TLC

VARIABLE part

HubInit ==
    /\ part \in {"index", "monitor"}
    /\ Init /\ MonitorInit
    /\ part # "index" => Fresh

HubNext ==
    \/ part = "index" /\ UNCHANGED <<part, monitorVars>> /\ Next
    \/ part = "monitor" /\ UNCHANGED <<part, vars>> /\ MonitorNext

HubSpec == HubInit /\ [][HubNext]_<<part, vars, monitorVars>>

SmallTimes == 1..4

\* One part moves and the other stays symmetric, so that the commits and the requests
\* are exchanged together.
Symmetry == {f \in {g @@ h : g \in Permutations(Names \ Plans), h \in Permutations(Requests)} :
                (\A x \in DOMAIN f : f[x] = x) \/ (\A x \in DOMAIN f : f[x] # x)}
==============================================================================
