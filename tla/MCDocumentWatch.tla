--------------------------- MODULE MCDocumentWatch ---------------------------
(* Instances of DocumentWatch for TLC. *)
EXTENDS DocumentWatch

\* Every report that has a baseline lists one change, named by the new content.
ChangesOf == [r \in Report |-> IF r.from = None THEN <<>> ELSE <<r.to>>]
=============================================================================
