------------------------------ MODULE MCRecords ------------------------------
(***************************************************************************)
(* Small instances of the two records of the hub that somebody writes back *)
(* whole: the account, with two tokens of one machine, and a repository    *)
(* with the page that shows it.  Neither reads the state of the other, so  *)
(* a behaviour is that of one of them: `part` says which, and the other    *)
(* one stays in its initial state.                                         *)
(***************************************************************************)
EXTENDS MCHubAccount, RepoPage

VARIABLE part

RecordsInit == part \in {"account", "page"} /\ Init /\ PageInit

RecordsNext ==
    \/ part = "account" /\ UNCHANGED <<part, pageVars>> /\ Next
    \/ part = "page" /\ UNCHANGED <<part, vars>> /\ PageNext

RecordsSpec == RecordsInit /\ [][RecordsNext]_<<part, vars, pageVars>>
==============================================================================
