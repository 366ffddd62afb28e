------------------------------ MODULE MCDesktop ------------------------------
(***************************************************************************)
(* Probe Desktop: the watched document and the update of the application.  *)
(* Neither reads the state of the other, so a behaviour is that of one of  *)
(* them: `part` says which, the other stays in one initial state.          *)
(***************************************************************************)
EXTENDS DocumentWatch, SelfUpdate

VARIABLE part

\* The changes of a report on one of these contents: one change made twice, or two.
ChangesOf ==
    [r \in Report |->
        IF r.from = None THEN <<>>
        ELSE IF r.to = 2 THEN <<"raised", "raised">> ELSE <<"raised", "signed">>]

allVars == <<part, vars, updateVars>>

\* The first content is 1: those of a normal size differ in name only.
DesktopInit ==
    /\ part \in {"watch", "update"}
    /\ Init /\ UpdateInit /\ saved = <<1>>
    /\ part # "watch" => kind = "folder" /\ ~online

\* Content 3 differs from 2 by the changes of its reports: it is saved before it or
\* after it, in a folder, and nowhere else.
BesideTwo(versions) ==
    \A i \in DOMAIN versions : versions[i] = 3 =>
        /\ kind = "folder"
        /\ i = 2 \/ versions[i - 1] = 2
        /\ i < Len(versions) => versions[i + 1] = 2

InWatch  == part = "watch" /\ UNCHANGED <<part, updateVars>>
InUpdate == part = "update" /\ UNCHANGED <<part, vars>>

DesktopNext ==
    \/ InWatch /\ Next /\ BesideTwo(saved')
    \/ InUpdate /\ UpdateNext

\* The fairness of the part that runs: FairSpec of its module.
DesktopSpec ==
    /\ DesktopInit /\ [][DesktopNext]_allVars
    /\ WF_allVars(InWatch /\ ScanWork)
    /\ \A r \in Requests : WF_allVars(InWatch /\ AcceptWork(r))
    /\ \A p \in Procs : WF_allVars(InUpdate /\ Step(p))

------------------------------------------------------------------------------
(* The properties of the parts, where they are stated and explained.          *)

\* Whatever happened, what is shown comes back to the truth, again and again.
TruthComesBack == []<>(part = "watch" => clash \ {"error"} # {} \/ Settled)
==============================================================================
