-------------------------- MODULE MCAnalysisRunner --------------------------
(* Small instances of AnalysisRunner for TLC. *)
EXTENDS AnalysisRunnerProofs, TLC

CONSTANTS u1, u2, r1, r2, k1, k2, p1

\* Two accounts with one repository each: the first has two commits, the second
\* a plan.
TwoUsersRepoOf == k1 :> r1 @@ k2 :> r1 @@ p1 :> r2
TwoUsersUserOf == r1 :> u1 @@ r2 :> u2

\* One account and repository with two commits.
TwoCommits == k1 :> r1 @@ k2 :> r1
OneRepoUserOf == r1 :> u1

Symmetry == Permutations(Clients) \cup Permutations(Workers)
=============================================================================
