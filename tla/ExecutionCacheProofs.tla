------------------------- MODULE ExecutionCacheProofs -------------------------
(***************************************************************************)
(* Proofs about ExecutionCache, for any number of reviews, experiments and *)
(* faults: an entry claims no more live runs than there were, a replay was *)
(* agreed on as long as reviews do not record at the same time, and every  *)
(* verdict is the one the report derives again.                            *)
(*                                                                         *)
(* A step is a step of one review, or damages the file.  The first part    *)
(* says what a step makes of the review that takes it (Local), the second  *)
(* what it changes field by field (the Shape lemmas); the other two parts  *)
(* of the invariant, the backing of the entry and the agreement, follow    *)
(* from those facts alone.                                                 *)
(***************************************************************************)
EXTENDS ExecutionCache, TLAPS, FiniteSetTheorems

\* The recorded verdict is the one the report derives again.
Standing(e) == e.status = Rederived(e)

\* A step of one review leaves the state of the others, and its own well formed.
Local(r) ==
    /\ rv' = [rv EXCEPT ![r] = rv'[r]]
    /\ rv'[r] \in Review /\ ReviewInv(rv'[r])
    /\ Standing(rv'[r].evidence)

\* What the step of a review starts from.
Sound(r) == CacheTypeOK /\ ReviewInv(rv[r]) /\ Standing(rv[r].evidence)

(* Types: which values the fields of a review take.                          *)

LEMMA Names ==
  /\ "idle" \in Steps /\ "consult" \in Steps /\ "run" \in Steps /\ "read" \in Steps
  /\ "put" \in Steps /\ "delete" \in Steps /\ "candidate" \in Steps /\ "settle" \in Steps
  /\ "evict" \in Steps /\ "remove" \in Steps
BY DEF Steps

LEMMA Checks == NoCheck \in BaseCheck /\ \A res \in Result : [NoCheck EXCEPT !.res = res] \in BaseCheck
BY DEF Result, NoCheck, BaseCheck

LEMMA Onward == ASSUME NEW s PROVE AfterBaseline(s) \in Steps
BY Names DEF AfterBaseline

\* What is counted of the directory changes nothing else.
LEMMA CountsFailures ==
  ASSUME NEW s \in Review PROVE Worked(s) \in Review /\ Failed(s) \in Review
<1>1. Worked(s) \in Review BY DEF Review, Worked
<1>2. Failed(s) \in Review
  <2>1. ASSUME NEW n \in Nat, NEW d \in BOOLEAN
        PROVE  [s EXCEPT !.failures = n, !.disabled = d] \in Review
    BY DEF Review
  <2>2. (s.disabled \/ s.failures + 1 >= MaxFailures) \in BOOLEAN OBVIOUS
  <2>3. s.failures + 1 \in Nat BY DEF Review
  <2> QED BY <2>1, <2>2, <2>3, Zenon DEF Failed
<1> QED BY <1>1, <1>2

\* The updates the actions are made of keep the types.
LEMMA Updates ==
  ASSUME NEW s \in Review
  PROVE  /\ \A q \in Steps :
             /\ [s EXCEPT !.pc = q] \in Review
             /\ [s EXCEPT !.pc = q, !.confirm = TRUE] \in Review
             /\ \A e \in Evidence : [s EXCEPT !.pc = q, !.evidence = e] \in Review
             /\ \A b \in BaseCheck : /\ [s EXCEPT !.pc = q, !.base = b] \in Review
                                 /\ [s EXCEPT !.base = b, !.pc = q] \in Review
             /\ \A p \in Entry \cup {None} : /\ [s EXCEPT !.pc = q, !.prior = p] \in Review
                                             /\ [s EXCEPT !.prior = p, !.pc = q] \in Review
         /\ \A c \in Result : [s EXCEPT !.cand = c] \in Review
<1>1. ASSUME NEW q \in Steps
      PROVE  [s EXCEPT !.pc = q] \in Review /\ [s EXCEPT !.pc = q, !.confirm = TRUE] \in Review
  BY DEF Review
<1>2. ASSUME NEW q \in Steps, NEW e \in Evidence PROVE [s EXCEPT !.pc = q, !.evidence = e] \in Review
  BY DEF Review, Evidence
<1>3. ASSUME NEW q \in Steps, NEW b \in BaseCheck
      PROVE  [s EXCEPT !.pc = q, !.base = b] \in Review /\ [s EXCEPT !.base = b, !.pc = q] \in Review
  BY DEF Review
<1>4. ASSUME NEW q \in Steps, NEW p \in Entry \cup {None}
      PROVE  [s EXCEPT !.pc = q, !.prior = p] \in Review /\ [s EXCEPT !.prior = p, !.pc = q] \in Review
  BY DEF Review
<1>5. ASSUME NEW c \in Result PROVE [s EXCEPT !.cand = c] \in Review
  BY DEF Review
<1> QED BY <1>1, <1>2, <1>3, <1>4, <1>5

(* The review that moves: its types, ReviewInv and its verdict.             *)

LEMMA BeginLocal == ASSUME NEW r \in Reviews, Sound(r), Begin(r) PROVE Local(r)
<1> PICK s \in Review : s = rv[r] BY DEF Sound, CacheTypeOK
<1>1. rv'[r] = [s EXCEPT !.pc = "consult", !.evidence = NoEvidence]
  BY DEF Begin, Sound, CacheTypeOK
<1>2. NoEvidence \in Evidence BY Checks DEF NoEvidence, Evidence, Result
<1>3. [s EXCEPT !.pc = "consult", !.evidence = NoEvidence] \in Review
  BY <1>2, Names, Updates
<1>4. rv'[r] \in Review BY <1>1, <1>3
<1>5. ReviewInv(rv'[r]) BY <1>1 DEF Review, ReviewInv, Sound, Begin, At
<1>6. Standing(rv'[r].evidence) BY <1>1 DEF Review, Standing, NoEvidence, Rederived
<1> QED BY <1>4, <1>5, <1>6 DEF Begin, Local, Sound, CacheTypeOK

LEMMA ConsultLocal == ASSUME NEW r \in Reviews, Sound(r), Consult(r) PROVE Local(r)
<1> PICK s \in Review : s = rv[r] BY DEF Sound, CacheTypeOK
<1>1. s \in Review /\ s.pc = "consult" /\ file \in Entry \cup {None}
  BY DEF Consult, Sound, CacheTypeOK, At
<1>2. CASE Found(s) /\ ~file.stale /\ Servable(file)
  <2>1. rv'[r] = [Worked(s) EXCEPT !.pc = "candidate",
                !.base = [res |-> file.res, replay |-> TRUE, live |-> file.live,
                          agreed |-> streak.status = "PASS" /\ streak.n >= 2]]
    BY <1>2 DEF Consult, Sound, CacheTypeOK
  <2>2. file \in Entry BY <1>1, <1>2 DEF Found
  <2>3. [res |-> file.res, replay |-> TRUE, live |-> file.live,
         agreed |-> streak.status = "PASS" /\ streak.n >= 2] \in BaseCheck
    BY <2>2 DEF Entry, BaseCheck
  <2>4. Worked(s) \in Review BY <1>1 DEF Review, Worked
  <2>5. [Worked(s) EXCEPT !.pc = "candidate", !.base = [res |-> file.res, replay |-> TRUE, live |-> file.live, agreed |-> streak.status = "PASS" /\ streak.n >= 2]] \in Review
    BY <2>3, <2>4, Names, Updates
  <2>6. rv'[r] \in Review BY <2>1, <2>5
  <2>7. ReviewInv(rv'[r]) BY <1>1, <1>2, <2>1, <2>2 DEF Review, Worked, Entry, ReviewInv, Servable, Sound
  <2>8. Standing(rv'[r].evidence) BY <1>1, <2>1 DEF Sound, Worked, Review
  <2> QED BY <1>2, <2>6, <2>7, <2>8 DEF Consult, Local, Sound, CacheTypeOK
<1>3. CASE ~(Found(s) /\ ~file.stale /\ Servable(file))
  <2>1. rv'[r] = [(IF Found(s) /\ ~file.stale THEN Worked(s) ELSE s) EXCEPT !.pc = "run"]
    BY <1>3 DEF Consult, Sound, CacheTypeOK
  <2>2. Worked(s) \in Review BY <1>1 DEF Review, Worked
  <2>3. [(IF Found(s) /\ ~file.stale THEN Worked(s) ELSE s) EXCEPT !.pc = "run"] \in Review
    BY <1>1, <2>2, Names, Updates
  <2>4. rv'[r] \in Review BY <2>1, <2>3
  <2>5. ReviewInv(rv'[r]) BY <1>1, <2>1 DEF Review, Worked, ReviewInv, Sound
  <2>6. Standing(rv'[r].evidence) BY <1>1, <2>1 DEF Sound, Worked, Review
  <2> QED BY <1>3, <2>4, <2>5, <2>6 DEF Consult, Local, Sound, CacheTypeOK
<1> QED BY <1>2, <1>3

LEMMA ExecuteLocal == ASSUME NEW r \in Reviews, Sound(r), Execute(r) PROVE Local(r)
<1> PICK s \in Review : s = rv[r] BY DEF Sound, CacheTypeOK
<1>1. s \in Review /\ s.pc = "run" BY DEF Execute, Sound, CacheTypeOK, At
<1>2. PICK res \in Result, storable \in BOOLEAN :
        /\ res = "none" => ~storable
        /\ rv' = [rv EXCEPT ![r] = [s EXCEPT
                !.base = [NoCheck EXCEPT !.res = res],
                !.pc = IF storable THEN "read" ELSE AfterBaseline(s)]]
  BY DEF Execute
<1>3. rv'[r] = [s EXCEPT !.base = [NoCheck EXCEPT !.res = res],
                !.pc = IF storable THEN "read" ELSE AfterBaseline(s)]
  BY <1>2 DEF Sound, CacheTypeOK
<1>4. [NoCheck EXCEPT !.res = res] \in BaseCheck BY Checks
<1>5. (IF storable THEN "read" ELSE AfterBaseline(s)) \in Steps BY Onward, Names
<1>6. rv'[r] \in Review
  <2>1. PICK q \in Steps : q = IF storable THEN "read" ELSE AfterBaseline(s) BY <1>5
  <2>2. PICK b \in BaseCheck : b = [NoCheck EXCEPT !.res = res] BY <1>4
  <2>3. rv'[r] = [s EXCEPT !.base = b, !.pc = q] BY <1>3, <2>1, <2>2
  <2>4. [s EXCEPT !.base = b, !.pc = q] \in Review BY Updates
  <2> QED BY <2>3, <2>4
<1>7. ReviewInv(rv'[r])
  <2>1. CASE ~storable
    <3>1. rv'[r] = [s EXCEPT !.base = [NoCheck EXCEPT !.res = res], !.pc = AfterBaseline(s)]
      BY <1>3, <2>1
    <3> QED BY <1>1, <2>1, <3>1 DEF Review, ReviewInv, Sound, AfterBaseline, NoCheck
  <2>2. CASE storable
    <3>1. rv'[r] = [s EXCEPT !.base = [NoCheck EXCEPT !.res = res], !.pc = "read"]
      BY <1>3, <2>2
    <3> QED BY <1>1, <1>2, <2>2, <3>1 DEF Review, ReviewInv, Sound, NoCheck
  <2> QED BY <2>1, <2>2
<1>8. Standing(rv'[r].evidence) BY <1>1, <1>3 DEF Sound, Review
<1> QED BY <1>2, <1>6, <1>7, <1>8 DEF Local, Sound, CacheTypeOK

LEMMA ReadPriorLocal == ASSUME NEW r \in Reviews, Sound(r), ReadPrior(r) PROVE Local(r)
<1> PICK s \in Review : s = rv[r] BY DEF Sound, CacheTypeOK
<1> DEFINE prior == IF Found(s) /\ ~file.stale THEN file ELSE None
           t == IF prior # None THEN Worked(s) ELSE s
<1>1. s \in Review /\ s.pc = "read" /\ file \in Entry \cup {None} /\ prior \in Entry \cup {None}
  BY DEF ReadPrior, Sound, CacheTypeOK, At
<1>2. PICK differs \in BOOLEAN : rv' = [rv EXCEPT ![r] = [t EXCEPT !.prior = prior,
                !.pc = IF prior # None /\ (Disagrees(prior, s.base.res) \/ differs) THEN "delete" ELSE "put"]]
  BY DEF ReadPrior
<1>3. rv'[r] = [t EXCEPT !.prior = prior,
                !.pc = IF prior # None /\ (Disagrees(prior, s.base.res) \/ differs) THEN "delete" ELSE "put"]
  BY <1>2 DEF Sound, CacheTypeOK
<1>4. t \in Review BY <1>1 DEF Review, Worked
<1>5. (IF prior # None /\ (Disagrees(prior, s.base.res) \/ differs) THEN "delete" ELSE "put") \in Steps BY Names
<1>6. rv'[r] \in Review
  <2> HIDE DEF prior, t
  <2>1. [t EXCEPT !.prior = prior,
         !.pc = IF prior # None /\ (Disagrees(prior, s.base.res) \/ differs) THEN "delete" ELSE "put"] \in Review
    BY <1>1, <1>4, <1>5, Updates
  <2> QED BY <1>3, <2>1
<1>7. ReviewInv(rv'[r]) BY <1>1, <1>3 DEF Review, ReviewInv, Sound, Worked, Disagrees
<1>8. Standing(rv'[r].evidence) BY <1>1, <1>3 DEF Sound, Review, Worked
<1> QED BY <1>2, <1>6, <1>7, <1>8 DEF Local, Sound, CacheTypeOK

LEMMA WriteLocal ==
  ASSUME NEW r \in Reviews, Sound(r), PutEntry(r) \/ PutRefused(r) \/ DeleteEntry(r)
  PROVE  Local(r)
<1> PICK s \in Review : s = rv[r] BY DEF Sound, CacheTypeOK
<1>1. s \in Review /\ s.pc \in {"put", "delete"}
  BY DEF PutEntry, PutRefused, DeleteEntry, Sound, CacheTypeOK, At
<1>2. PICK t \in {s, Worked(s)} :
        rv' = [rv EXCEPT ![r] = [t EXCEPT !.pc = AfterBaseline(s), !.prior = None]]
  BY DEF PutEntry, PutRefused, DeleteEntry
<1>3. rv'[r] = [t EXCEPT !.pc = AfterBaseline(s), !.prior = None]
  BY <1>2 DEF Sound, CacheTypeOK
<1>4. t \in Review /\ AfterBaseline(s) \in Steps BY <1>1, CountsFailures, Onward
<1>5. [t EXCEPT !.pc = AfterBaseline(s), !.prior = None] \in Review
  BY <1>1, <1>4, Updates
<1>6. rv'[r] \in Review BY <1>3, <1>5
<1>7. ReviewInv(rv'[r]) BY <1>1, <1>3 DEF Review, ReviewInv, Sound, Worked, AfterBaseline
<1>8. Standing(rv'[r].evidence) BY <1>1, <1>3 DEF Sound, Review, Worked
<1> QED BY <1>2, <1>6, <1>7, <1>8 DEF Local, Sound, CacheTypeOK

\* A verdict ends the experiment.
LEMMA Concluded ==
  ASSUME NEW s \in Review, NEW status \in {"UNVERIFIED", "REPRODUCED", "NOT_REPRODUCED"},
         NEW t, t = Conclude(s, status)
  PROVE  /\ t \in Review
         /\ t.pc = "idle" /\ ~t.base.replay /\ ~t.confirm
         /\ t.evidence.status = status /\ t.evidence.base = s.base /\ t.evidence.cand = s.cand
         /\ t.disabled = s.disabled /\ ReviewInv(t)
<1>1. "none" \in Result BY DEF Result
<1>2. [status |-> status, base |-> s.base, cand |-> s.cand] \in Evidence BY DEF Review, Evidence
<1>3. ASSUME NEW e \in Evidence, NEW b \in BaseCheck
      PROVE  [s EXCEPT !.pc = "idle", !.base = b, !.cand = "none", !.confirm = FALSE,
                !.evidence = e] \in Review
  BY <1>1, Names DEF Review, Evidence
<1>4. t \in Review BY <1>2, <1>3, Checks DEF Conclude
<1> QED BY <1>4 DEF Conclude, Review, NoCheck, ReviewInv

LEMMA CandidateLocal == ASSUME NEW r \in Reviews, Sound(r), Candidate(r) PROVE Local(r)
<1> PICK s \in Review : s = rv[r] BY DEF Sound, CacheTypeOK
<1> s.pc = "candidate" BY DEF Candidate, At
<1>1. PICK cand \in Result \ {"hollow"} :
        rv' = [rv EXCEPT ![r] =
            IF MustConfirm([s EXCEPT !.cand = cand], Differential(s.base.res, cand))
            THEN [s EXCEPT !.cand = cand, !.pc = "run", !.confirm = TRUE]
            ELSE Conclude([s EXCEPT !.cand = cand], Differential(s.base.res, cand))]
  BY DEF Candidate, Review
<1> DEFINE u == [s EXCEPT !.cand = cand]
           status == Differential(s.base.res, cand)
<1>2. u \in Review BY Updates
<1>3. u.base = s.base /\ u.cand = cand /\ u.base.res \in Result BY DEF Review, BaseCheck
<1>4. CASE MustConfirm(u, status)
  <2>1. rv'[r] = [s EXCEPT !.cand = cand, !.pc = "run", !.confirm = TRUE]
    BY <1>1, <1>4 DEF Sound, CacheTypeOK
  <2>2. [s EXCEPT !.cand = cand, !.pc = "run", !.confirm = TRUE] \in Review
    BY Names DEF Review
  <2>3. cand = "fail" BY <1>3, <1>4 DEF MustConfirm, Differential
  <2>4. rv'[r] \in Review BY <2>1, <2>2
  <2>5. ReviewInv(rv'[r]) BY <2>1, <2>3 DEF Sound, Review, ReviewInv
  <2>6. Standing(rv'[r].evidence) BY <2>1 DEF Sound, Review
  <2> QED BY <1>1, <2>4, <2>5, <2>6 DEF Local, Sound, CacheTypeOK
<1>5. CASE ~MustConfirm(u, status)
  <2>1. rv'[r] = Conclude(u, status) BY <1>1, <1>5 DEF Sound, CacheTypeOK
  <2>2. status \in {"UNVERIFIED", "REPRODUCED", "NOT_REPRODUCED"} BY DEF Differential
  <2>3. rv'[r] \in Review /\ ReviewInv(rv'[r]) /\ rv'[r].evidence.status = status
        /\ rv'[r].evidence.base = s.base /\ rv'[r].evidence.cand = cand
    <3> HIDE DEF u, status
    <3> QED BY <1>2, <1>3, <2>1, <2>2, Concluded
  <2>4. s.base.replay \in BOOLEAN /\ s.base.live \in Nat /\ (s.base.replay => s.base.live >= 2)
    BY DEF Review, BaseCheck, Sound, ReviewInv
  <2>5. Standing(rv'[r].evidence)
    BY <1>3, <1>5, <2>3, <2>4 DEF Standing, Rederived, Differential, MustConfirm, Result
  <2> QED BY <1>1, <2>3, <2>5 DEF Local, Sound, CacheTypeOK
<1> QED BY <1>4, <1>5

LEMMA SettleLocal == ASSUME NEW r \in Reviews, Sound(r), Settle(r) PROVE Local(r)
<1> PICK s \in Review : s = rv[r] BY DEF Sound, CacheTypeOK
<1>1. /\ s.pc = "settle" /\ s.base.res \in Result
      /\ ReviewInv(s) /\ ~s.base.replay /\ s.cand = "fail"
  BY DEF Settle, At, Sound, Review, BaseCheck, ReviewInv
<1>2. rv' = [rv EXCEPT ![r] =
            IF s.base.res = "pass" THEN Conclude(s, "REPRODUCED")
            ELSE IF s.base.res = "none" THEN Conclude(s, "UNVERIFIED")
            ELSE [s EXCEPT !.pc = "evict"]]
  BY DEF Settle
<1>3. CASE s.base.res = "pass"
  <2>1. rv'[r] = Conclude(s, "REPRODUCED") BY <1>2, <1>3 DEF Sound, CacheTypeOK
  <2>2. rv'[r] \in Review /\ ReviewInv(rv'[r]) /\ rv'[r].evidence.status = "REPRODUCED"
        /\ rv'[r].evidence.base = s.base /\ rv'[r].evidence.cand = s.cand
    BY <2>1, Concluded
  <2>3. Standing(rv'[r].evidence) BY <1>1, <1>3, <2>2 DEF Standing, Rederived
  <2> QED BY <1>2, <2>2, <2>3 DEF Local, Sound, CacheTypeOK
<1>4. CASE s.base.res = "none"
  <2>1. rv'[r] = Conclude(s, "UNVERIFIED") BY <1>2, <1>4 DEF Sound, CacheTypeOK
  <2>2. rv'[r] \in Review /\ ReviewInv(rv'[r]) /\ rv'[r].evidence.status = "UNVERIFIED"
        /\ rv'[r].evidence.base = s.base /\ rv'[r].evidence.cand = s.cand
    BY <2>1, Concluded
  <2>3. Standing(rv'[r].evidence) BY <1>1, <1>4, <2>2 DEF Standing, Rederived
  <2> QED BY <1>2, <2>2, <2>3 DEF Local, Sound, CacheTypeOK
<1>5. CASE s.base.res # "pass" /\ s.base.res # "none"
  <2>1. rv'[r] = [s EXCEPT !.pc = "evict"] BY <1>2, <1>5 DEF Sound, CacheTypeOK
  <2>2. [s EXCEPT !.pc = "evict"] \in Review BY Names, Updates
  <2>3. ReviewInv(rv'[r]) BY <1>1, <1>5, <2>1 DEF Sound, Review, ReviewInv, Result
  <2>4. Standing(rv'[r].evidence) BY <2>1 DEF Sound, Review
  <2> QED BY <1>2, <2>1, <2>2, <2>3, <2>4 DEF Local, Sound, CacheTypeOK
<1> QED BY <1>3, <1>4, <1>5

LEMMA EvictLocal ==
  ASSUME NEW r \in Reviews, Sound(r), EvictRead(r) \/ EvictRemove(r) PROVE Local(r)
<1> PICK s \in Review : s = rv[r] BY DEF Sound, CacheTypeOK
<1>1. s.pc \in {"evict", "remove"} /\ ReviewInv(s) /\ s.base.res # "pass"
  BY DEF EvictRead, EvictRemove, At, Sound, ReviewInv
<1>2. CASE EvictRead(r)
  <2>1. PICK t \in {s, Worked(s)} : rv' = [rv EXCEPT ![r] = [t EXCEPT !.pc = "remove"]]
    BY <1>2 DEF EvictRead
  <2>2. rv'[r] = [t EXCEPT !.pc = "remove"] BY <2>1 DEF Sound, CacheTypeOK
  <2>3. t \in Review BY CountsFailures
  <2>4. [t EXCEPT !.pc = "remove"] \in Review BY <2>3, Names, Updates
  <2>5. ReviewInv(rv'[r]) BY <1>1, <2>2 DEF Review, ReviewInv, Worked
  <2>6. Standing(rv'[r].evidence) BY <2>2 DEF Sound, Review, Worked
  <2> QED BY <2>1, <2>2, <2>4, <2>5, <2>6 DEF Local, Sound, CacheTypeOK
<1>3. CASE EvictRemove(r)
  <2>1. rv'[r] = Conclude(s, "UNVERIFIED") /\ rv' = [rv EXCEPT ![r] = Conclude(s, "UNVERIFIED")]
    BY <1>3 DEF EvictRemove, Sound, CacheTypeOK
  <2>2. rv'[r] \in Review /\ ReviewInv(rv'[r]) /\ rv'[r].evidence.status = "UNVERIFIED"
        /\ rv'[r].evidence.base = s.base
    BY <2>1, Concluded
  <2>3. Standing(rv'[r].evidence) BY <1>1, <2>2 DEF Standing, Rederived
  <2> QED BY <2>1, <2>2, <2>3 DEF Local, Sound, CacheTypeOK
<1> QED BY <1>2, <1>3

LEMMA OpenLocal == ASSUME NEW r \in Reviews, Sound(r), Open(r) PROVE Local(r)
<1>1. rv' = [rv EXCEPT ![r] = Opened] /\ rv'[r] = Opened BY DEF Open, Sound, CacheTypeOK
<1>2. NoEvidence \in Evidence BY Checks DEF NoEvidence, Evidence, Result
<1>3. "none" \in Result BY DEF Result
<1>4. Opened \in Review BY <1>2, <1>3, Names, Checks DEF Opened, Review, Evidence
<1>5. ReviewInv(Opened) BY DEF Opened, ReviewInv, NoCheck
<1>6. Standing(Opened.evidence) BY DEF Opened, NoEvidence, NoCheck, Standing, Rederived
<1> QED BY <1>1, <1>4, <1>5, <1>6 DEF Local

LEMMA IOFailsLocal == ASSUME NEW r \in Reviews, Sound(r), IOFails(r) PROVE Local(r)
<1> PICK s \in Review : s = rv[r] BY DEF Sound, CacheTypeOK
<1>1. /\ s.pc \in {"consult", "read", "put", "delete", "evict", "remove"}
      /\ ReviewInv(s) /\ Standing(s.evidence)
  BY DEF IOFails, At, Sound
<1> DEFINE t == Failed(s)
<1>2. /\ t \in Review /\ t.pc = s.pc /\ t.base = s.base /\ t.cand = s.cand /\ t.confirm = s.confirm
      /\ t.evidence = s.evidence
  <2>1. t = [s EXCEPT !.failures = s.failures + 1,
                      !.disabled = s.disabled \/ s.failures + 1 >= MaxFailures]
    BY Zenon DEF Failed
  <2> HIDE DEF t
  <2>2. Failed(s) \in Review BY CountsFailures
  <2>3. t \in Review BY <2>2, Zenon DEF t
  <2>4. PICK n, d : t = [s EXCEPT !.failures = n, !.disabled = d] BY <2>1, Zenon
  <2> QED BY <2>3, <2>4 DEF Review
<1>3. rv' = [rv EXCEPT ![r] =
            CASE s.pc = "consult" -> [t EXCEPT !.pc = "run"]
              [] s.pc = "read" -> [t EXCEPT !.pc = "put", !.prior = None]
              [] s.pc = "evict" -> [t EXCEPT !.pc = "remove"]
              [] s.pc = "remove" -> Conclude(t, "UNVERIFIED")
              [] OTHER -> [t EXCEPT !.pc = AfterBaseline(s), !.prior = None]]
  BY DEF IOFails
<1> HIDE DEF t
<1>4. CASE s.pc = "consult"
  <2>1. rv'[r] = [t EXCEPT !.pc = "run"] /\ rv' = [rv EXCEPT ![r] = [t EXCEPT !.pc = "run"]]
    BY <1>3, <1>4 DEF Sound, CacheTypeOK
  <2>2. [t EXCEPT !.pc = "run"] \in Review BY <1>2, Names, Updates
  <2>3. ReviewInv(rv'[r]) /\ Standing(rv'[r].evidence)
    BY <1>1, <1>2, <1>4, <2>1 DEF Review, ReviewInv
  <2> QED BY <2>1, <2>2, <2>3 DEF Local
<1>5. CASE s.pc \in {"read", "put", "delete"}
  <2>1. AfterBaseline(s) \in {"settle", "candidate"} BY DEF AfterBaseline
  <2>2. PICK q \in {"put", "settle", "candidate"} :
          /\ rv'[r] = [t EXCEPT !.pc = q, !.prior = None]
          /\ rv' = [rv EXCEPT ![r] = [t EXCEPT !.pc = q, !.prior = None]]
          /\ s.pc = "read" => q = "put"
          /\ s.pc \in {"put", "delete"} => q = AfterBaseline(s)
    <3>1. CASE s.pc = "read" BY <1>3, <3>1 DEF Sound, CacheTypeOK
    <3>2. CASE s.pc \in {"put", "delete"}
      <4>1. /\ rv' = [rv EXCEPT ![r] = [t EXCEPT !.pc = AfterBaseline(s), !.prior = None]]
            /\ rv'[r] = [t EXCEPT !.pc = AfterBaseline(s), !.prior = None]
        BY <1>3, <3>2 DEF Sound, CacheTypeOK
      <4> QED BY <2>1, <3>2, <4>1
    <3> QED BY <1>5, <3>1, <3>2
  <2>3. q \in Steps BY Names
  <2>4. [t EXCEPT !.pc = q, !.prior = None] \in Review BY <1>2, <2>3, Updates
  <2>5. ReviewInv(rv'[r]) /\ Standing(rv'[r].evidence)
    BY <1>1, <1>2, <1>5, <2>2 DEF Review, ReviewInv, AfterBaseline
  <2> QED BY <2>2, <2>4, <2>5 DEF Local
<1>6. CASE s.pc = "evict"
  <2>1. rv'[r] = [t EXCEPT !.pc = "remove"] /\ rv' = [rv EXCEPT ![r] = [t EXCEPT !.pc = "remove"]]
    BY <1>3, <1>6 DEF Sound, CacheTypeOK
  <2>2. [t EXCEPT !.pc = "remove"] \in Review BY <1>2, Names, Updates
  <2>3. ReviewInv(rv'[r]) /\ Standing(rv'[r].evidence)
    BY <1>1, <1>2, <1>6, <2>1 DEF Review, ReviewInv
  <2> QED BY <2>1, <2>2, <2>3 DEF Local
<1>7. CASE s.pc = "remove"
  <2>1. /\ rv'[r] = Conclude(t, "UNVERIFIED")
        /\ rv' = [rv EXCEPT ![r] = Conclude(t, "UNVERIFIED")]
    BY <1>3, <1>7 DEF Sound, CacheTypeOK
  <2>2. rv'[r] \in Review /\ ReviewInv(rv'[r]) /\ rv'[r].evidence.status = "UNVERIFIED"
        /\ rv'[r].evidence.base = s.base
    BY <1>2, <2>1, Concluded
  <2>3. Standing(rv'[r].evidence) BY <1>1, <1>7, <2>2 DEF Standing, Rederived, ReviewInv
  <2> QED BY <2>1, <2>2, <2>3 DEF Local
<1> QED BY <1>1, <1>4, <1>5, <1>6, <1>7

(* What each action changes, field by field.                                 *)

Onwards == {"settle", "candidate"}

LEMMA BeginShape ==
  ASSUME NEW r \in Reviews, CacheTypeOK, Begin(r)
  PROVE  /\ rv[r].pc = "idle" /\ rv'[r].pc = "consult"
         /\ rv'[r].base = rv[r].base /\ rv'[r].disabled = rv[r].disabled
         /\ UNCHANGED <<file, lives, streak, clash>>
<1> PICK s \in Review : s = rv[r] BY DEF CacheTypeOK
<1>1. rv'[r] = [s EXCEPT !.pc = "consult", !.evidence = NoEvidence]
  BY DEF Begin, CacheTypeOK
<1>2. rv'[r].pc = "consult" /\ rv'[r].base = s.base /\ rv'[r].disabled = s.disabled
  BY <1>1 DEF Review
<1> QED BY <1>2 DEF Begin, At, history

LEMMA ConsultShape ==
  ASSUME NEW r \in Reviews, CacheTypeOK, Consult(r)
  PROVE  /\ rv[r].pc = "consult" /\ rv'[r].pc \in {"candidate", "run"}
         /\ rv'[r].disabled = rv[r].disabled
         /\ \/ rv'[r].base = rv[r].base
            \/ /\ file # None /\ Status(file.res) = "PASS" /\ file.live >= 2
               /\ streak.status = "PASS" /\ streak.n >= 2 => rv'[r].base.agreed
         /\ file' \in {file, None}
         /\ clash' = (clash \/ OthersRecord(r))
         /\ UNCHANGED <<lives, streak>>
<1> PICK s \in Review : s = rv[r] BY DEF CacheTypeOK
<1>1. file' \in {file, None} /\ clash' = (clash \/ OthersRecord(r)) /\ UNCHANGED <<lives, streak>>
      /\ s.pc = "consult"
  BY DEF Consult, At
<1>2. CASE Found(s) /\ ~file.stale /\ Servable(file)
  <2>1. rv'[r] = [Worked(s) EXCEPT !.pc = "candidate",
                !.base = [res |-> file.res, replay |-> TRUE, live |-> file.live,
                          agreed |-> streak.status = "PASS" /\ streak.n >= 2]]
    BY <1>2 DEF Consult, CacheTypeOK
  <2>2. PICK b : b = (streak.status = "PASS" /\ streak.n >= 2) OBVIOUS
  <2>3. rv'[r] = [Worked(s) EXCEPT !.pc = "candidate",
                !.base = [res |-> file.res, replay |-> TRUE, live |-> file.live, agreed |-> b]]
    BY <2>1, <2>2, Zenon
  <2>4. rv'[r].pc = "candidate" /\ rv'[r].disabled = s.disabled /\ rv'[r].base.agreed = b
    BY <2>3 DEF Review, Worked
  <2>5. file # None /\ Status(file.res) = "PASS" /\ file.live >= 2
    BY <1>2 DEF Found, Servable
  <2>6. streak.status = "PASS" /\ streak.n >= 2 => rv'[r].base.agreed BY <2>2, <2>4, Zenon
  <2> QED BY <1>1, <2>4, <2>5, <2>6, Zenon
<1>3. CASE ~(Found(s) /\ ~file.stale /\ Servable(file))
  <2>1. PICK t \in {s, Worked(s)} : rv'[r] = [t EXCEPT !.pc = "run"]
    BY <1>3 DEF Consult, CacheTypeOK
  <2>2. rv'[r].pc = "run" /\ rv'[r].disabled = s.disabled /\ rv'[r].base = s.base
    BY <2>1 DEF Review, Worked
  <2> QED BY <1>1, <2>2, Zenon
<1> QED BY <1>2, <1>3

\* What is written through is the result of the run, or nothing.
LEMMA ExecuteShape ==
  ASSUME NEW r \in Reviews, CacheTypeOK, Execute(r)
  PROVE  \E res \in Result :
         /\ rv[r].pc = "run" /\ ~rv'[r].base.replay
         /\ rv'[r].disabled = rv[r].disabled
         /\ res = "none" => rv'[r].pc \in Onwards /\ UNCHANGED <<lives, streak>>
         /\ res # "none" =>
             /\ rv'[r].base.res = res
             /\ rv'[r].pc = "read" /\ Status(res) \in {"PASS", "FAIL"}
             /\ lives' = [lives EXCEPT ![Status(res)] = @ + 1]
             /\ streak' = IF streak.status = Status(res) THEN [streak EXCEPT !.n = @ + 1]
                          ELSE [status |-> Status(res), n |-> 1]
         /\ file' = file
         /\ clash' = (clash \/ OthersRecord(r))
<1> PICK s \in Review : s = rv[r] BY DEF CacheTypeOK
<1>1. PICK res \in Result, storable \in BOOLEAN :
        /\ res = "none" => ~storable
        /\ rv' = [rv EXCEPT ![r] = [s EXCEPT !.base = [NoCheck EXCEPT !.res = res],
                  !.pc = IF storable THEN "read" ELSE AfterBaseline(s)]]
        /\ Agree(IF storable THEN res ELSE "none")
  BY DEF Execute
<1>2. PICK q : q = IF storable THEN "read" ELSE AfterBaseline(s) OBVIOUS
<1>3. rv'[r] = [s EXCEPT !.base = [NoCheck EXCEPT !.res = res], !.pc = q]
  BY <1>1, <1>2 DEF CacheTypeOK
<1>4. rv'[r].base.res = res /\ ~rv'[r].base.replay /\ rv'[r].pc = q /\ rv'[r].disabled = s.disabled
  BY <1>3 DEF Review, NoCheck
<1>5. s.pc = "run" /\ file' = file /\ clash' = (clash \/ OthersRecord(r)) BY DEF Execute, At
<1>6. CASE ~storable
  <2>1. q \in Onwards BY <1>2, <1>6 DEF AfterBaseline, Onwards
  <2>2. UNCHANGED <<lives, streak>> BY <1>1, <1>6 DEF Agree, Status
  <2>3. "none" \in Result BY DEF Result
  <2> QED BY <1>4, <1>5, <2>1, <2>2, <2>3
<1>7. CASE storable
  <2>0. res # "none" BY <1>1, <1>7
  <2>1. Status(res) \in {"PASS", "FAIL"} /\ Status(res) # "NONE" BY <2>0 DEF Result, Status
  <2>2. /\ lives' = [lives EXCEPT ![Status(res)] = @ + 1]
        /\ streak' = IF streak.status = Status(res) THEN [streak EXCEPT !.n = @ + 1]
                     ELSE [status |-> Status(res), n |-> 1]
    BY <1>1, <1>7, <2>1 DEF Agree
  <2> QED BY <1>2, <1>4, <1>5, <1>7, <2>0, <2>1, <2>2
<1> QED BY <1>6, <1>7

LEMMA ReadPriorShape ==
  ASSUME NEW r \in Reviews, CacheTypeOK, ReadPrior(r)
  PROVE  /\ rv[r].pc = "read" /\ rv'[r].pc \in {"put", "delete"}
         /\ rv'[r].base = rv[r].base /\ rv'[r].disabled = rv[r].disabled
         /\ file' \in {file, None}
         /\ rv'[r].prior # None => rv'[r].prior = file /\ file' = file
         /\ rv'[r].prior = None => rv'[r].pc = "put"
         /\ ~rv[r].disabled /\ rv'[r].prior = None => file' = None
         /\ rv'[r].pc = "put" /\ rv'[r].prior # None =>
             Status(rv'[r].prior.res) = Status(rv[r].base.res)
         /\ clash' = (clash \/ OthersRecord(r))
         /\ UNCHANGED <<lives, streak>>
<1> PICK s \in Review : s = rv[r] BY DEF CacheTypeOK
<1>1. PICK prior : prior = IF Found(s) /\ ~file.stale THEN file ELSE None OBVIOUS
<1>2. PICK t \in {s, Worked(s)}, q \in {"put", "delete"} :
        /\ rv'[r] = [t EXCEPT !.prior = prior, !.pc = q]
        /\ q = "delete" => prior # None
        /\ q = "put" => ~(prior # None /\ Disagrees(prior, s.base.res))
  <2>1. PICK differs \in BOOLEAN :
          rv'[r] = [(IF prior # None THEN Worked(s) ELSE s) EXCEPT !.prior = prior,
                !.pc = IF prior # None /\ (Disagrees(prior, s.base.res) \/ differs)
                       THEN "delete" ELSE "put"]
    BY <1>1 DEF ReadPrior, CacheTypeOK
  <2> QED BY <2>1
<1>3. /\ rv'[r].prior = prior /\ rv'[r].pc = q /\ rv'[r].base = s.base
      /\ rv'[r].disabled = s.disabled
  BY <1>2 DEF Review, Worked
<1>4. /\ s.pc = "read" /\ file' = (IF Found(s) /\ file.stale THEN None ELSE file)
      /\ clash' = (clash \/ OthersRecord(r)) /\ UNCHANGED <<lives, streak>>
  BY DEF ReadPrior, At
<1>5. prior # None => prior = file /\ file' = file BY <1>1, <1>4
<1>6. ~s.disabled /\ prior = None => file' = None BY <1>1, <1>4 DEF Found
<1> QED BY <1>2, <1>3, <1>4, <1>5, <1>6 DEF Disagrees

LEMMA WriteShape ==
  ASSUME NEW r \in Reviews, CacheTypeOK, PutEntry(r) \/ PutRefused(r) \/ DeleteEntry(r)
  PROVE  /\ rv'[r].pc \in Onwards
         /\ rv'[r].base = rv[r].base /\ rv'[r].disabled = rv[r].disabled
         /\ UNCHANGED <<lives, streak, clash>>
         /\ \/ /\ rv[r].pc = "put" /\ file' = file /\ (PutEntry(r) => rv[r].disabled)
            \/ /\ rv[r].pc = "delete" /\ file' = None
            \/ /\ rv[r].pc = "put" /\ ~rv[r].disabled
               /\ file' \in [res : {rv[r].base.res}, slow : BOOLEAN, stale : {FALSE},
                    live : {IF rv[r].prior = None THEN 1 ELSE rv[r].prior.live + 1}]
<1> PICK s \in Review : s = rv[r] BY DEF CacheTypeOK
<1>1. PICK t \in {s, Worked(s)} :
        rv'[r] = [t EXCEPT !.pc = AfterBaseline(s), !.prior = None]
  BY DEF PutEntry, PutRefused, DeleteEntry, CacheTypeOK
<1>2. rv'[r].pc \in Onwards /\ rv'[r].base = s.base /\ rv'[r].disabled = s.disabled
  BY <1>1 DEF Review, Worked, AfterBaseline, Onwards
<1>3. UNCHANGED <<lives, streak, clash>> BY DEF PutEntry, PutRefused, DeleteEntry, history
<1>4. CASE PutEntry(r)
  <2>1. PICK slow \in BOOLEAN : file' = IF s.disabled THEN file ELSE Written(s, slow)
    BY <1>4 DEF PutEntry
  <2>2. s.pc = "put" /\ s.disabled \in BOOLEAN BY <1>4 DEF PutEntry, At, Review
  <2> QED BY <1>2, <1>3, <2>1, <2>2 DEF Written
<1>5. CASE PutRefused(r) /\ ~PutEntry(r) BY <1>2, <1>3, <1>5 DEF PutRefused, At
<1>6. CASE DeleteEntry(r) BY <1>2, <1>3, <1>6 DEF DeleteEntry, At
<1> QED BY <1>4, <1>5, <1>6

LEMMA CandidateShape ==
  ASSUME NEW r \in Reviews, CacheTypeOK, Candidate(r)
  PROVE  /\ rv[r].pc = "candidate" /\ rv'[r].pc \in {"run", "idle"}
         /\ rv'[r].base \in {rv[r].base, NoCheck} /\ rv'[r].disabled = rv[r].disabled
         /\ UNCHANGED <<file, lives, streak, clash>>
<1> PICK s \in Review : s = rv[r] BY DEF CacheTypeOK
<1>1. PICK cand \in Result : \E status :
        \/ rv'[r] = [s EXCEPT !.cand = cand, !.pc = "run", !.confirm = TRUE]
        \/ rv'[r] = Conclude([s EXCEPT !.cand = cand], status)
  <2>1. PICK cand \in Result \ {"hollow"} :
        rv'[r] =
            IF MustConfirm([s EXCEPT !.cand = cand], Differential(s.base.res, cand))
            THEN [s EXCEPT !.cand = cand, !.pc = "run", !.confirm = TRUE]
            ELSE Conclude([s EXCEPT !.cand = cand], Differential(s.base.res, cand))
    BY DEF Candidate, Review, CacheTypeOK
  <2> QED BY <2>1
<1>2. rv'[r].pc \in {"run", "idle"} /\ rv'[r].base \in {s.base, NoCheck}
      /\ rv'[r].disabled = s.disabled
  BY <1>1 DEF Review, Conclude
<1> QED BY <1>2 DEF Candidate, At, history

LEMMA SettleShape ==
  ASSUME NEW r \in Reviews, CacheTypeOK, Settle(r)
  PROVE  /\ rv[r].pc = "settle" /\ rv'[r].pc \in {"idle", "evict"}
         /\ rv'[r].base \in {rv[r].base, NoCheck} /\ rv'[r].disabled = rv[r].disabled
         /\ streak' = streak \/ rv'[r].pc = "evict"
         /\ streak' \in [status : {"PASS", "FAIL", "NONE"}, n : Nat]
         /\ UNCHANGED <<file, lives, clash>>
<1> PICK s \in Review : s = rv[r] BY DEF CacheTypeOK
<1>1. /\ rv'[r] = IF s.base.res = "pass" THEN Conclude(s, "REPRODUCED")
            ELSE IF s.base.res = "none" THEN Conclude(s, "UNVERIFIED")
            ELSE [s EXCEPT !.pc = "evict"]
      /\ streak' = IF s.base.res = "hollow" THEN [status |-> "NONE", n |-> 0] ELSE streak
  BY DEF Settle, CacheTypeOK
<1>2. \/ rv'[r] = [s EXCEPT !.pc = "evict"]
      \/ s.base.res # "hollow" /\ \E status : rv'[r] = Conclude(s, status)
  BY <1>1
<1>3. /\ rv'[r].pc \in {"idle", "evict"} /\ rv'[r].base \in {s.base, NoCheck}
      /\ rv'[r].disabled = s.disabled
      /\ s.base.res # "hollow" \/ rv'[r].pc = "evict"
  BY <1>2 DEF Review, Conclude
<1> QED BY <1>1, <1>3 DEF Settle, At, CacheTypeOK

LEMMA EvictShape ==
  ASSUME NEW r \in Reviews, CacheTypeOK, EvictRead(r) \/ EvictRemove(r)
  PROVE  /\ rv'[r].base \in {rv[r].base, NoCheck} /\ rv'[r].disabled = rv[r].disabled
         /\ UNCHANGED <<lives, streak>>
         /\ \/ /\ rv[r].pc = "evict" /\ rv'[r].pc = "remove" /\ file' \in {file, None}
               /\ clash' = (clash \/ OthersRecord(r))
            \/ rv[r].pc = "remove" /\ rv'[r].pc = "idle" /\ file' = None /\ clash' = clash
<1> PICK s \in Review : s = rv[r] BY DEF CacheTypeOK
<1>1. CASE EvictRead(r)
  <2>1. PICK t \in {s, Worked(s)} : rv'[r] = [t EXCEPT !.pc = "remove"]
    BY <1>1 DEF EvictRead, CacheTypeOK
  <2>2. rv'[r].pc = "remove" /\ rv'[r].base = s.base /\ rv'[r].disabled = s.disabled
    BY <2>1 DEF Review, Worked
  <2> QED BY <1>1, <2>2 DEF EvictRead, At
<1>2. CASE EvictRemove(r)
  <2>1. rv'[r] = Conclude(s, "UNVERIFIED") BY <1>2 DEF EvictRemove, CacheTypeOK
  <2>2. rv'[r].pc = "idle" /\ rv'[r].base = NoCheck /\ rv'[r].disabled = s.disabled
    BY <2>1 DEF Review, Conclude
  <2> QED BY <1>2, <2>2 DEF EvictRemove, At, history
<1> QED BY <1>1, <1>2

LEMMA IOFailsShape ==
  ASSUME NEW r \in Reviews, CacheTypeOK, IOFails(r)
  PROVE  /\ rv'[r].pc \in {"read", "put"} =>
             rv'[r].pc = "put" /\ rv[r].pc = "read" /\ rv'[r].base = rv[r].base
             /\ rv'[r].prior = None
         /\ clash' /\ UNCHANGED <<file, lives, streak>>
<1> PICK s \in Review : s = rv[r] BY DEF CacheTypeOK
<1> PICK t \in Review : t = Failed(s) BY CountsFailures
<1>1. PICK n, d : t = [s EXCEPT !.failures = n, !.disabled = d] BY Zenon DEF Failed
<1>2. rv'[r] = CASE s.pc = "consult" -> [t EXCEPT !.pc = "run"]
              [] s.pc = "read" -> [t EXCEPT !.pc = "put", !.prior = None]
              [] s.pc = "evict" -> [t EXCEPT !.pc = "remove"]
              [] s.pc = "remove" -> Conclude(t, "UNVERIFIED")
              [] OTHER -> [t EXCEPT !.pc = AfterBaseline(s), !.prior = None]
  BY DEF IOFails, CacheTypeOK
<1>3. s.pc \in {"consult", "read", "put", "delete", "evict", "remove"}
  BY DEF IOFails, At
<1>4. clash' /\ UNCHANGED <<file, lives, streak>> BY DEF IOFails
<1>5. CASE s.pc = "consult"
  <2>1. rv'[r] = [t EXCEPT !.pc = "run"] BY <1>2, <1>5
  <2>2. rv'[r].pc = "run" BY <2>1 DEF Review
  <2> QED BY <1>4, <2>2
<1>6. CASE s.pc = "read"
  <2>1. rv'[r] = [t EXCEPT !.pc = "put", !.prior = None] BY <1>2, <1>6
  <2>2. rv'[r].pc = "put" /\ rv'[r].prior = None /\ rv'[r].base = t.base BY <2>1 DEF Review
  <2>3. t.base = s.base BY <1>1 DEF Review
  <2> QED BY <1>4, <1>6, <2>2, <2>3
<1>7. CASE s.pc = "evict"
  <2>1. rv'[r] = [t EXCEPT !.pc = "remove"] BY <1>2, <1>7
  <2>2. rv'[r].pc = "remove" BY <2>1 DEF Review
  <2> QED BY <1>4, <2>2
<1>8. CASE s.pc = "remove"
  <2>1. rv'[r] = Conclude(t, "UNVERIFIED") BY <1>2, <1>8
  <2>2. rv'[r].pc = "idle" BY <2>1 DEF Review, Conclude
  <2> QED BY <1>4, <2>2
<1>9. CASE s.pc \in {"put", "delete"}
  <2>1. rv'[r] = [t EXCEPT !.pc = AfterBaseline(s), !.prior = None] BY <1>2, <1>9
  <2>2. AfterBaseline(s) \in Onwards BY DEF AfterBaseline, Onwards
  <2>3. rv'[r].pc \in Onwards BY <2>1, <2>2 DEF Review
  <2> QED BY <1>4, <2>3 DEF Onwards
<1> QED BY <1>3, <1>5, <1>6, <1>7, <1>8, <1>9

LEMMA OpenShape ==
  ASSUME NEW r \in Reviews, CacheTypeOK, Open(r)
  PROVE  /\ rv'[r].pc = "idle" /\ rv'[r].base = NoCheck /\ ~rv'[r].disabled
         /\ file' \in {file, None}
         /\ clash' = (clash \/ Recording(r) \/ At(r, "settle"))
         /\ UNCHANGED <<lives, streak>>
<1>1. rv'[r] = Opened BY DEF Open, CacheTypeOK
<1>2. Opened.pc = "idle" /\ Opened.base = NoCheck /\ ~Opened.disabled BY DEF Opened
<1> QED BY <1>1, <1>2 DEF Open

(* The reviews other than the one that moves.                               *)

LEMMA Others ==
  ASSUME CacheTypeOK, NEW r \in Reviews, Local(r)
  PROVE  \A o \in Reviews : o # r => rv'[o] = rv[o]
BY DEF CacheTypeOK, Local

(* The live runs that are not written yet.                                   *)

LEMMA Counted ==
  ASSUME NEW st
  PROVE  IsFiniteSet(Unwritten(st)) /\ Cardinality(Unwritten(st)) \in Nat
         /\ IsFiniteSet(Unwritten(st)') /\ Cardinality(Unwritten(st)') \in Nat
<1>1. Unwritten(st) \in SUBSET Reviews /\ Unwritten(st)' \in SUBSET Reviews BY DEF Unwritten
<1> QED BY <1>1, CacheAssumption, FS_Subset, FS_CardinalityType

\* What was backed stays so: when fewer runs are unwritten, when one more is and
\* was counted; and the one that is written may add itself.
LEMMA FewerBacked ==
  ASSUME CacheTypeOK, NEW n \in Nat, NEW st \in {"PASS", "FAIL"}, Backed(n, st),
         Unwritten(st)' \subseteq Unwritten(st), lives' = lives
  PROVE  Backed(n, st)'
<1>1. Cardinality(Unwritten(st)') <= Cardinality(Unwritten(st)) BY Counted, FS_Subset
<1> QED BY <1>1, Counted DEF Backed, CacheTypeOK

LEMMA OneWritten ==
  ASSUME CacheTypeOK, NEW n \in Nat, NEW st \in {"PASS", "FAIL"}, Backed(n, st), lives' = lives,
         NEW r \in Unwritten(st), Unwritten(st)' = Unwritten(st) \ {r}
  PROVE  Backed(n + 1, st)'
<1>1. Cardinality(Unwritten(st)') = Cardinality(Unwritten(st)) - 1 BY Counted, FS_RemoveElement
<1> QED BY <1>1, Counted DEF Backed, CacheTypeOK

LEMMA OneMore ==
  ASSUME CacheTypeOK, NEW n \in Nat, NEW st \in {"PASS", "FAIL"}, Backed(n, st),
         NEW r, Unwritten(st)' \subseteq Unwritten(st) \cup {r}, lives'[st] = lives[st] + 1
  PROVE  Backed(n, st)'
<1>1. IsFiniteSet(Unwritten(st)) /\ Cardinality(Unwritten(st)) \in Nat BY Counted
<1>2. /\ IsFiniteSet(Unwritten(st) \cup {r})
      /\ Cardinality(Unwritten(st) \cup {r}) <= Cardinality(Unwritten(st)) + 1
  <2>1. /\ IsFiniteSet(Unwritten(st) \cup {r})
        /\ Cardinality(Unwritten(st) \cup {r}) =
            IF r \in Unwritten(st) THEN Cardinality(Unwritten(st)) ELSE Cardinality(Unwritten(st)) + 1
    BY <1>1, FS_AddElement
  <2> QED BY <1>1, <2>1
<1>3. /\ Cardinality(Unwritten(st)') <= Cardinality(Unwritten(st) \cup {r})
      /\ Cardinality(Unwritten(st) \cup {r}) \in Nat
  BY <1>2, FS_Subset, FS_CardinalityType
<1> QED BY <1>2, <1>3, Counted DEF Backed, CacheTypeOK

LEMMA Results ==
  /\ \A e \in Entry : e.live \in Nat \ {0} /\ e.res \in Result \ {"none"}
                      /\ Status(e.res) \in {"PASS", "FAIL"}
  /\ \A res \in Result \ {"none"} : Status(res) \in {"PASS", "FAIL"}
<1>1. \A res \in Result \ {"none"} : Status(res) \in {"PASS", "FAIL"} BY DEF Result, Status
<1> QED BY <1>1 DEF Entry

\* Most steps count no run and write no entry.
Quiet(r) ==
    /\ lives' = lives /\ file' \in {file, None}
    /\ rv'[r].pc \in {"read", "put"} =>
        rv[r].pc \in {"read", "put"} /\ rv'[r].base = rv[r].base
    /\ rv'[r].pc = "put" /\ rv'[r].prior # None =>
        \/ rv'[r].prior = file
        \/ rv[r].pc = "put" /\ rv'[r].prior = rv[r].prior

LEMMA QuietBacked ==
  ASSUME CacheTypeOK, EntryIsBacked, NEW r \in Reviews, Local(r), Quiet(r)
  PROVE  EntryIsBacked'
<1> \A o \in Reviews : o # r => rv'[o] = rv[o] BY Others
<1>1. \A st : Unwritten(st)' \subseteq Unwritten(st) BY DEF Unwritten, Quiet
<1>2. \A n \in Nat, st \in {"PASS", "FAIL"} : Backed(n, st) => Backed(n, st)'
  BY <1>1, FewerBacked DEF Quiet
<1>3. \A st \in {"PASS", "FAIL"} : Backed(0, st)' BY <1>2 DEF EntryIsBacked
<1>4. file' # None => Backed(file.live, Status(file.res))'
  BY <1>2, Results DEF EntryIsBacked, Quiet, CacheTypeOK
<1>5. ASSUME NEW o \in Reviews, rv'[o].pc = "put", rv'[o].prior # None
      PROVE  Backed(rv[o].prior.live, Status(rv[o].prior.res))'
  <2>1. PICK p : p = rv'[o].prior OBVIOUS
  <2>2. rv[o].prior \in Entry \cup {None} BY DEF CacheTypeOK, Review
  <2>3. p \in Entry /\ Backed(p.live, Status(p.res))
    <3>1. CASE p = rv[o].prior /\ rv[o].pc = "put"
      BY <1>5, <2>1, <2>2, <3>1 DEF EntryIsBacked
    <3>2. CASE p = file BY <1>5, <2>1, <3>2 DEF EntryIsBacked, CacheTypeOK
    <3> QED BY <1>5, <2>1, <3>1, <3>2 DEF Quiet
  <2>4. Backed(p.live, Status(p.res))' BY <1>2, <2>3, Results
  <2> QED BY <2>1, <2>4
<1> QED BY <1>3, <1>4, <1>5 DEF EntryIsBacked

LEMMA ExecuteBacked ==
  ASSUME CacheTypeOK, EntryIsBacked, NEW r \in Reviews, Local(r), Execute(r)
  PROVE  EntryIsBacked'
<1> \A o \in Reviews : o # r => rv'[o] = rv[o] BY Others
<1> PICK res \in Result :
         /\ rv[r].pc = "run"
         /\ res = "none" => rv'[r].pc \in Onwards /\ UNCHANGED <<lives, streak>>
         /\ res # "none" =>
             /\ rv'[r].base.res = res
             /\ rv'[r].pc = "read" /\ Status(res) \in {"PASS", "FAIL"}
             /\ lives' = [lives EXCEPT ![Status(res)] = @ + 1]
         /\ file' = file
  BY ExecuteShape
<1>1. CASE res = "none"
  <2>1. Quiet(r) BY <1>1 DEF Quiet, Onwards
  <2> QED BY <2>1, QuietBacked
<1>2. CASE res # "none"
  <2>1. \A st : Unwritten(st)' \subseteq Unwritten(st) \cup (IF st = Status(res) THEN {r} ELSE {})
    BY <1>2 DEF Unwritten
  <2>2. ASSUME NEW n \in Nat, NEW st \in {"PASS", "FAIL"}, Backed(n, st) PROVE Backed(n, st)'
    <3>1. CASE st = Status(res)
      <4>1. lives'[st] = lives[st] + 1 BY <1>2, <3>1 DEF CacheTypeOK
      <4> QED BY <2>1, <2>2, <3>1, <4>1, OneMore
    <3>2. CASE st # Status(res)
      <4>1. lives'[st] = lives[st] BY <1>2, <3>2 DEF CacheTypeOK
      <4>2. Unwritten(st)' \subseteq Unwritten(st) BY <2>1, <3>2
      <4>3. Cardinality(Unwritten(st)') <= Cardinality(Unwritten(st)) BY <4>2, Counted, FS_Subset
      <4> QED BY <2>2, <4>1, <4>3, Counted DEF Backed, CacheTypeOK
    <3> QED BY <3>1, <3>2
  <2>3. \A st \in {"PASS", "FAIL"} : Backed(0, st)' BY <2>2 DEF EntryIsBacked
  <2>4. file' # None => Backed(file.live, Status(file.res))'
    BY <2>2, Results DEF EntryIsBacked, CacheTypeOK
  <2>5. ASSUME NEW o \in Reviews, rv'[o].pc = "put", rv'[o].prior # None
        PROVE  Backed(rv[o].prior.live, Status(rv[o].prior.res))'
    <3>1. o # r BY <1>2, <2>5
    <3>2. PICK p : p = rv'[o].prior OBVIOUS
    <3>3. p \in Entry /\ Backed(p.live, Status(p.res))
      BY <2>5, <3>1, <3>2 DEF EntryIsBacked, CacheTypeOK, Review
    <3>4. Backed(p.live, Status(p.res))' BY <2>2, <3>3, Results
    <3> QED BY <3>2, <3>4
  <2> QED BY <2>3, <2>4, <2>5 DEF EntryIsBacked
<1> QED BY <1>1, <1>2

LEMMA WriteBacked ==
  ASSUME CacheTypeOK, \A o \in Reviews : ReviewInv(rv[o]), EntryIsBacked,
         NEW r \in Reviews, Local(r),
         PutEntry(r) \/ PutRefused(r) \/ DeleteEntry(r)
  PROVE  EntryIsBacked'
<1> \A o \in Reviews : o # r => rv'[o] = rv[o] BY Others
<1>1. /\ rv'[r].pc \in Onwards /\ lives' = lives
      /\ \/ file' \in {file, None}
         \/ /\ rv[r].pc = "put"
            /\ file' \in [res : {rv[r].base.res}, slow : BOOLEAN, stale : {FALSE},
                    live : {IF rv[r].prior = None THEN 1 ELSE rv[r].prior.live + 1}]
  BY WriteShape
<1>2. CASE file' \in {file, None}
  <2>1. Quiet(r) BY <1>1, <1>2 DEF Quiet, Onwards
  <2> QED BY <2>1, QuietBacked
<1>3. CASE /\ rv[r].pc = "put"
           /\ file' \in [res : {rv[r].base.res}, slow : BOOLEAN, stale : {FALSE},
                    live : {IF rv[r].prior = None THEN 1 ELSE rv[r].prior.live + 1}]
  <2> PICK s \in Review : s = rv[r] BY DEF CacheTypeOK
  <2>1. /\ s.pc = "put" /\ s.base.res \in Result \ {"none"}
        /\ s.prior # None => Status(s.prior.res) = Status(s.base.res)
    BY <1>3 DEF ReviewInv, Review, BaseCheck
  <2> PICK w \in {"PASS", "FAIL"} : w = Status(s.base.res) BY <2>1, Results
  <2>2. \A st : Unwritten(st)' = Unwritten(st) \ {r}
    BY <1>1 DEF Unwritten, Onwards
  <2>3. r \in Unwritten(w) BY <2>1 DEF Unwritten
  <2>4. \A n \in Nat, st \in {"PASS", "FAIL"} : Backed(n, st) => Backed(n, st)'
    BY <1>1, <2>2, FewerBacked
  <2>5. \A n \in Nat : Backed(n, w) => Backed(n + 1, w)' BY <1>1, <2>2, <2>3, OneWritten
  <2>6. \A st \in {"PASS", "FAIL"} : Backed(0, st)' BY <2>4 DEF EntryIsBacked
  <2>7. file' # None => Backed(file.live, Status(file.res))'
    <3>1. PICK n \in Nat : Backed(n, w) /\ n + 1 = file'.live
      <4>1. CASE s.prior = None
        <5>1. Backed(0, w) /\ file'.live = 0 + 1 BY <1>3, <4>1 DEF EntryIsBacked
        <5> QED BY <5>1
      <4>2. CASE s.prior # None
        <5>1. s.prior \in Entry BY <4>2 DEF Review
        <5>2. Backed(s.prior.live, w) BY <2>1, <4>2 DEF EntryIsBacked
        <5>3. s.prior.live \in Nat /\ file'.live = s.prior.live + 1 BY <1>3, <4>2, <5>1, Results
        <5> QED BY <5>2, <5>3
      <4> QED BY <4>1, <4>2
    <3>2. Backed(n + 1, w)' BY <2>5, <3>1
    <3>3. Status(file'.res) = w BY <1>3
    <3> QED BY <3>1, <3>2, <3>3 DEF Backed
  <2>8. ASSUME NEW o \in Reviews, rv'[o].pc = "put", rv'[o].prior # None
        PROVE  Backed(rv[o].prior.live, Status(rv[o].prior.res))'
    <3>1. o # r BY <1>1, <2>8 DEF Onwards
    <3>2. PICK p : p = rv'[o].prior OBVIOUS
    <3>3. p \in Entry /\ Backed(p.live, Status(p.res))
      BY <2>8, <3>1, <3>2 DEF EntryIsBacked, CacheTypeOK, Review
    <3>4. Backed(p.live, Status(p.res))' BY <2>4, <3>3, Results
    <3> QED BY <3>2, <3>4
  <2> QED BY <2>6, <2>7, <2>8 DEF EntryIsBacked
<1> QED BY <1>1, <1>2, <1>3

LEMMA SpoilBacked == ASSUME CacheTypeOK, EntryIsBacked, Spoil PROVE EntryIsBacked'
<1>1. rv' = rv /\ lives' = lives /\ file \in Entry /\ file' = [file EXCEPT !.stale = TRUE]
  BY DEF Spoil, history, CacheTypeOK
<1>2. file'.live = file.live /\ file'.res = file.res BY <1>1 DEF Entry
<1>3. \A st : Unwritten(st)' = Unwritten(st) BY <1>1 DEF Unwritten
<1>4. \A n, st : Backed(n, st)' = Backed(n, st) BY <1>1, <1>3 DEF Backed
<1> QED BY <1>1, <1>2, <1>3 DEF EntryIsBacked, Backed, Spoil

LEMMA QuietSteps ==
  ASSUME CacheTypeOK, NEW r \in Reviews,
         \/ Begin(r) \/ Consult(r) \/ ReadPrior(r) \/ Candidate(r)
         \/ Settle(r) \/ EvictRead(r) \/ EvictRemove(r) \/ IOFails(r) \/ Open(r)
  PROVE  Quiet(r)
<1>1. ASSUME Begin(r) PROVE Quiet(r) BY <1>1, BeginShape DEF Quiet
<1>2. ASSUME Consult(r) PROVE Quiet(r) BY <1>2, ConsultShape DEF Quiet
<1>3. ASSUME ReadPrior(r) PROVE Quiet(r) BY <1>3, ReadPriorShape DEF Quiet
<1>4. ASSUME Candidate(r) PROVE Quiet(r) BY <1>4, CandidateShape DEF Quiet
<1>5. ASSUME Settle(r) PROVE Quiet(r) BY <1>5, SettleShape DEF Quiet
<1>6. ASSUME EvictRead(r) \/ EvictRemove(r) PROVE Quiet(r) BY <1>6, EvictShape DEF Quiet
<1>7. ASSUME IOFails(r) PROVE Quiet(r) BY <1>7, IOFailsShape DEF Quiet
<1>8. ASSUME Open(r) PROVE Quiet(r) BY <1>8, OpenShape DEF Quiet
<1> QED BY <1>1, <1>2, <1>3, <1>4, <1>5, <1>6, <1>7, <1>8

(* Agreement.                                                                *)

Agreement == ContradictedIsNotServed /\ EntryIsAgreed /\ OneRecords

\* The part of the invariant that a step of r starts from.
Start(r) == CacheTypeOK /\ Agreement /\ Local(r)

\* A step that does not record, before or after.
LEMMA Unrecorded ==
  ASSUME NEW r \in Reviews, Start(r), ~Recording(r), ~Recording(r)',
         file' \in {file, None}, streak' = streak,
         rv'[r].disabled => rv[r].disabled,
         rv'[r].base.replay => rv'[r].base.agreed
  PROVE  Agreement'
<1> \A o \in Reviews : o # r => rv'[o] = rv[o] BY Others DEF Start
<1>1. ContradictedIsNotServed' BY DEF ContradictedIsNotServed, Start, Agreement
<1>2. OneRecords'
  <2>1. \A o \in Reviews : ~rv'[o].disabled BY DEF OneRecords, Start, Agreement
  <2>2. ASSUME NEW o \in Reviews, NEW q \in Reviews, o # q, Recording(o)', Recording(q)'
        PROVE  rv'[o].pc = "evict" \/ rv'[q].pc = "evict"
    <3>1. o # r /\ q # r BY <2>2
    <3>2. Recording(o) /\ Recording(q) BY <2>2, <3>1 DEF Recording
    <3> QED BY <2>2, <3>1, <3>2 DEF OneRecords, Start, Agreement
  <2> QED BY <2>1, <2>2 DEF OneRecords
<1>3. EntryIsAgreed'
  <2>1. \A o \in Reviews, q \in {"read", "put", "delete", "evict", "remove"} :
          /\ rv'[o].pc = q <=> rv[o].pc = q
          /\ rv'[o].pc = q => rv'[o] = rv[o]
    BY DEF Recording
  <2>2. CASE \E o \in Reviews : rv[o].pc \in {"evict", "remove"}
    BY <2>1, <2>2 DEF EntryIsAgreed
  <2>3. CASE ~\E o \in Reviews : rv[o].pc \in {"evict", "remove"}
    <3>1. file' # None => Agreed(file, streak.n)'
             \/ \E o \in Reviews : rv'[o].pc \in {"read", "delete"}
      BY <2>1, <2>3 DEF EntryIsAgreed, Start, Agreement, Agreed
    <3>2. ASSUME NEW o \in Reviews
          PROVE  /\ rv'[o].pc \in {"read", "put"} =>
                      streak'.n > 0 /\ streak'.status = Status(rv'[o].base.res)
                 /\ rv'[o].pc = "read" /\ file' # None /\ Status(file'.res) = streak'.status =>
                      file'.live < streak'.n
                 /\ rv'[o].pc = "put" /\ rv'[o].prior # None => Agreed(rv[o].prior, streak.n - 1)'
      BY <2>1, <2>3 DEF EntryIsAgreed, Start, Agreement, Agreed
    <3> QED BY <3>1, <3>2 DEF EntryIsAgreed
  <2> QED BY <2>2, <2>3
<1> QED BY <1>1, <1>2, <1>3 DEF Agreement

LEMMA BeginAgreed == ASSUME NEW r \in Reviews, Start(r), Begin(r) PROVE Agreement'
<1>1. ~Recording(r) /\ ~Recording(r)' BY BeginShape DEF Recording, Start
<1>2. rv[r].base.replay => rv[r].base.agreed
  BY DEF Start, Agreement, ContradictedIsNotServed
<1> QED BY <1>1, <1>2, BeginShape, Unrecorded DEF Start

LEMMA CandidateAgreed == ASSUME NEW r \in Reviews, Start(r), Candidate(r) PROVE Agreement'
<1>1. ~Recording(r) /\ ~Recording(r)' BY CandidateShape DEF Recording, Start
<1>2. rv[r].base.replay => rv[r].base.agreed
  BY DEF Start, Agreement, ContradictedIsNotServed
<1>3. rv'[r].base.replay => rv'[r].base.agreed BY <1>2, CandidateShape DEF Start, NoCheck
<1> QED BY <1>1, <1>3, CandidateShape, Unrecorded DEF Start

LEMMA OpenAgreed ==
  ASSUME NEW r \in Reviews, Start(r), Open(r), ~clash' PROVE Agreement'
<1>1. ~Recording(r) /\ ~Recording(r)' BY OpenShape DEF Recording, Start
<1>2. ~rv'[r].base.replay BY OpenShape DEF Start, NoCheck
<1> QED BY <1>1, <1>2, OpenShape, Unrecorded DEF Start

\* Nobody records: the entry is what the last live runs agreed on.
LEMMA NobodyRecords ==
  ASSUME EntryIsAgreed, \A o \in Reviews : ~Recording(o), file # None
  PROVE  Agreed(file, streak.n)
BY DEF EntryIsAgreed, Recording

LEMMA ConsultAgreed ==
  ASSUME NEW r \in Reviews, Start(r), Consult(r), ~clash' PROVE Agreement'
<1>1. ~Recording(r) /\ ~Recording(r)' /\ ~OthersRecord(r)
  BY ConsultShape DEF Recording, Start
<1>2. \A o \in Reviews : ~Recording(o) BY <1>1 DEF OthersRecord
<1>3. CASE rv'[r].base = rv[r].base
  <2>1. rv'[r].base.replay => rv'[r].base.agreed
    BY <1>3 DEF Start, Agreement, ContradictedIsNotServed
  <2> QED BY <1>1, <2>1, ConsultShape, Unrecorded DEF Start
<1>4. CASE rv'[r].base # rv[r].base
  <2>1. /\ file # None /\ Status(file.res) = "PASS" /\ file.live >= 2
        /\ streak.status = "PASS" /\ streak.n >= 2 => rv'[r].base.agreed
    BY <1>4, ConsultShape DEF Start
  <2>2. Agreed(file, streak.n) BY <1>2, <2>1, NobodyRecords DEF Start, Agreement
  <2>3. file.live \in Nat /\ streak.n \in Nat BY <2>1, Results DEF Start, CacheTypeOK
  <2>4. rv'[r].base.agreed BY <2>1, <2>2, <2>3 DEF Agreed
  <2> QED BY <1>1, <2>4, ConsultShape, Unrecorded DEF Start
<1> QED BY <1>3, <1>4

\* Nobody but r records, after a step of r.
LEMMA Alone ==
  ASSUME NEW r \in Reviews, Start(r), \A o \in Reviews \ {r} : ~Recording(o),
         rv'[r].disabled => rv[r].disabled
  PROVE  /\ \A o \in Reviews : o # r => rv'[o] = rv[o] /\ ~Recording(o)'
         /\ OneRecords'
<1>1. \A o \in Reviews : o # r => rv'[o] = rv[o] BY Others DEF Start
<1>2. \A o \in Reviews : o # r => ~Recording(o)' BY <1>1 DEF Recording
<1>3. \A o \in Reviews : ~rv'[o].disabled BY <1>1 DEF OneRecords, Start, Agreement
<1> QED BY <1>1, <1>2, <1>3 DEF OneRecords

LEMMA ExecuteAgreed ==
  ASSUME NEW r \in Reviews, Start(r), Execute(r), ~clash' PROVE Agreement'
<1> PICK res \in Result :
         /\ rv[r].pc = "run" /\ ~rv'[r].base.replay
         /\ rv'[r].disabled = rv[r].disabled
         /\ res = "none" => rv'[r].pc \in Onwards /\ UNCHANGED <<lives, streak>>
         /\ res # "none" =>
             /\ rv'[r].base.res = res
             /\ rv'[r].pc = "read" /\ Status(res) \in {"PASS", "FAIL"}
             /\ streak' = IF streak.status = Status(res) THEN [streak EXCEPT !.n = @ + 1]
                          ELSE [status |-> Status(res), n |-> 1]
         /\ file' = file
         /\ clash' = (clash \/ OthersRecord(r))
  BY ExecuteShape DEF Start
<1>1. ~Recording(r) BY DEF Recording
<1>2. CASE res = "none"
  <2>1. ~Recording(r)' BY <1>2 DEF Recording, Onwards
  <2> QED BY <1>1, <1>2, <2>1, Unrecorded
<1>3. CASE res # "none"
  <2>1. \A o \in Reviews \ {r} : ~Recording(o) BY DEF OthersRecord
  <2>2. OneRecords' /\ \A o \in Reviews : o # r => rv'[o] = rv[o] /\ ~Recording(o)'
    BY <2>1, Alone
  <2>3. ContradictedIsNotServed'
    BY <2>2 DEF ContradictedIsNotServed, Start, Agreement
  <2>4. streak \in [status : {"PASS", "FAIL", "NONE"}, n : Nat] /\ file \in Entry \cup {None}
    BY DEF Start, CacheTypeOK
  <2>5. /\ streak'.status = Status(res) /\ streak'.n \in Nat /\ streak'.n > 0
        /\ streak.status = Status(res) => streak'.n = streak.n + 1
    BY <1>3, <2>4
  <2>6. file # None => Agreed(file, streak.n)
    BY <1>1, <2>1, NobodyRecords DEF Start, Agreement
  <2>7. file # None /\ Status(file.res) = Status(res) => file.live < streak'.n
    BY <2>4, <2>5, <2>6, Results DEF Agreed
  <2>8. \A o \in Reviews : o # r =>
          rv'[o].pc \notin {"read", "put", "delete", "evict", "remove"}
    BY <2>2 DEF Recording
  <2>9. EntryIsAgreed' BY <1>3, <2>5, <2>7, <2>8 DEF EntryIsAgreed
  <2> QED BY <2>2, <2>3, <2>9 DEF Agreement
<1> QED BY <1>2, <1>3

LEMMA ReadPriorAgreed ==
  ASSUME NEW r \in Reviews, Start(r), ReadPrior(r), ~clash' PROVE Agreement'
<1> /\ rv[r].pc = "read" /\ rv'[r].pc \in {"put", "delete"}
    /\ rv'[r].base = rv[r].base /\ rv'[r].disabled = rv[r].disabled
    /\ rv'[r].prior # None => rv'[r].prior = file /\ file' = file
    /\ rv'[r].prior = None => rv'[r].pc = "put"
    /\ ~rv[r].disabled /\ rv'[r].prior = None => file' = None
    /\ rv'[r].pc = "put" /\ rv'[r].prior # None =>
         Status(rv'[r].prior.res) = Status(rv[r].base.res)
    /\ clash' = (clash \/ OthersRecord(r)) /\ streak' = streak
  BY ReadPriorShape DEF Start
<1>1. \A o \in Reviews \ {r} : ~Recording(o) BY DEF OthersRecord
<1>2. OneRecords' /\ \A o \in Reviews : o # r => rv'[o] = rv[o] /\ ~Recording(o)'
  BY <1>1, Alone
<1>3. ContradictedIsNotServed' BY <1>2 DEF ContradictedIsNotServed, Start, Agreement
<1>4. \A o \in Reviews : o # r =>
        /\ rv'[o].pc \notin {"read", "put", "delete", "evict", "remove"}
        /\ rv[o].pc \notin {"evict", "remove"}
  BY <1>1, <1>2 DEF Recording
<1>5. /\ streak.n > 0 /\ streak.status = Status(rv[r].base.res)
      /\ file # None /\ Status(file.res) = streak.status => file.live < streak.n
  BY <1>4 DEF EntryIsAgreed, Start, Agreement
<1>6. streak.n \in Nat /\ file \in Entry \cup {None} /\ ~rv[r].disabled
  BY DEF Start, CacheTypeOK, Agreement, OneRecords
<1>7. CASE rv'[r].prior = None
  <2>1. rv'[r].pc = "put" /\ file' = None BY <1>6, <1>7
  <2>2. EntryIsAgreed' BY <1>4, <1>5, <1>7, <2>1 DEF EntryIsAgreed
  <2> QED BY <1>2, <1>3, <2>2 DEF Agreement
<1>8. CASE rv'[r].prior # None
  <2>1. file' = file /\ rv'[r].prior = file /\ file \in Entry BY <1>6, <1>8
  <2>2. CASE rv'[r].pc = "delete"
    <3>1. EntryIsAgreed' BY <1>4, <2>2 DEF EntryIsAgreed
    <3> QED BY <1>2, <1>3, <3>1 DEF Agreement
  <2>3. CASE rv'[r].pc = "put"
    <3>1. Status(file.res) = streak.status /\ file.live <= streak.n - 1 /\ file.live <= streak.n
      BY <1>5, <1>6, <1>8, <2>1, <2>3, Results
    <3>2. Agreed(rv[r].prior, streak.n - 1)' /\ Agreed(file, streak.n)'
      BY <2>1, <3>1 DEF Agreed
    <3>3. EntryIsAgreed' BY <1>4, <1>5, <2>3, <3>2 DEF EntryIsAgreed
    <3> QED BY <1>2, <1>3, <3>3 DEF Agreement
  <2> QED BY <2>2, <2>3
<1> QED BY <1>7, <1>8

\* One that leaves the recording, or begins to remove, is one less beside the others.
LEMMA Fewer ==
  ASSUME NEW r \in Reviews, Start(r), rv'[r].disabled => rv[r].disabled,
         Recording(r)' => rv'[r].pc = "evict"
  PROVE  OneRecords'
<1>1. \A o \in Reviews : o # r => rv'[o] = rv[o] BY Others DEF Start
<1>2. \A o \in Reviews : ~rv'[o].disabled BY <1>1 DEF OneRecords, Start, Agreement
<1>3. ASSUME NEW o \in Reviews, NEW q \in Reviews, o # q, Recording(o)', Recording(q)'
      PROVE  rv'[o].pc = "evict" \/ rv'[q].pc = "evict"
  <2>1. CASE o # r /\ q # r
    <3>1. Recording(o) /\ Recording(q) BY <1>1, <1>3, <2>1 DEF Recording
    <3> QED BY <1>1, <1>3, <2>1, <3>1 DEF OneRecords, Start, Agreement
  <2> QED BY <1>3, <2>1
<1> QED BY <1>2, <1>3 DEF OneRecords

LEMMA WriteAgreed ==
  ASSUME NEW r \in Reviews, Start(r), ReviewInv(rv[r]), ~clash',
         PutEntry(r) \/ PutRefused(r) \/ DeleteEntry(r)
  PROVE  Agreement'
<1> /\ rv'[r].pc \in Onwards
    /\ rv'[r].base = rv[r].base /\ rv'[r].disabled = rv[r].disabled
    /\ streak' = streak
    /\ \/ /\ rv[r].pc = "put" /\ file' = file
       \/ /\ rv[r].pc = "delete" /\ file' = None
       \/ /\ rv[r].pc = "put"
          /\ file' \in [res : {rv[r].base.res}, slow : BOOLEAN, stale : {FALSE},
                live : {IF rv[r].prior = None THEN 1 ELSE rv[r].prior.live + 1}]
  BY WriteShape DEF Start
<1>1. ~Recording(r)' BY DEF Recording, Onwards
<1>2. \A o \in Reviews : o # r => rv'[o] = rv[o] BY Others DEF Start
<1>3. OneRecords' BY <1>1, Fewer
<1>4. ContradictedIsNotServed' BY <1>2 DEF ContradictedIsNotServed, Start, Agreement
<1>5. EntryIsAgreed'
  <2>1. rv[r].pc \in {"put", "delete"} OBVIOUS
  <2>2. CASE \E o \in Reviews : rv[o].pc \in {"evict", "remove"}
    <3>1. PICK o \in Reviews : rv[o].pc \in {"evict", "remove"} BY <2>2
    <3>2. o # r BY <2>1, <3>1
    <3> QED BY <1>2, <3>1, <3>2 DEF EntryIsAgreed
  <2>3. CASE ~\E o \in Reviews : rv[o].pc \in {"evict", "remove"}
    <3>1. \A o \in Reviews : o # r => ~Recording(o)
      BY <2>1, <2>3 DEF OneRecords, Start, Agreement, Recording
    <3>2. \A o \in Reviews : rv'[o].pc \notin {"read", "put"}
      BY <1>1, <1>2, <3>1 DEF Recording
    <3>3. \A o \in Reviews : rv[o].pc = "read" \/ rv[o].pc = "delete" => o = r
      BY <3>1 DEF Recording
    <3>4. file' # None => Agreed(file, streak.n)'
      <4>1. CASE rv[r].pc = "put" /\ file' = file
        <5>1. file # None => Agreed(file, streak.n)
          BY <2>3, <3>3, <4>1 DEF EntryIsAgreed, Start, Agreement
        <5> QED BY <4>1, <5>1 DEF Agreed
      <4>2. CASE file' = None BY <4>2
      <4>3. CASE /\ rv[r].pc = "put"
                 /\ file' \in [res : {rv[r].base.res}, slow : BOOLEAN, stale : {FALSE},
                       live : {IF rv[r].prior = None THEN 1 ELSE rv[r].prior.live + 1}]
        <5>1. streak.n > 0 /\ streak.status = Status(rv[r].base.res)
          BY <2>3, <4>3 DEF EntryIsAgreed, Start, Agreement
        <5>2. rv[r].prior # None => rv[r].prior.live <= streak.n - 1
          BY <2>3, <4>3 DEF EntryIsAgreed, Start, Agreement, Agreed
        <5>3. streak.n \in Nat /\ rv[r].prior \in Entry \cup {None}
          BY DEF Start, CacheTypeOK, Review
        <5>4. file'.live <= streak.n BY <4>3, <5>1, <5>2, <5>3, Results
        <5> QED BY <4>3, <5>1, <5>4 DEF Agreed
      <4> QED BY <4>1, <4>2, <4>3
    <3> QED BY <3>2, <3>4 DEF EntryIsAgreed
  <2> QED BY <2>2, <2>3
<1> QED BY <1>3, <1>4, <1>5 DEF Agreement

LEMMA SettleAgreed == ASSUME NEW r \in Reviews, Start(r), Settle(r) PROVE Agreement'
<1> /\ rv[r].pc = "settle" /\ rv'[r].pc \in {"idle", "evict"}
    /\ rv'[r].base \in {rv[r].base, NoCheck} /\ rv'[r].disabled = rv[r].disabled
    /\ streak' = streak \/ rv'[r].pc = "evict"
    /\ file' = file
  BY SettleShape DEF Start
<1>1. rv'[r].base.replay => rv'[r].base.agreed
  BY DEF NoCheck, Start, Agreement, ContradictedIsNotServed
<1>2. CASE rv'[r].pc = "idle"
  <2>1. ~Recording(r) /\ ~Recording(r)' BY <1>2 DEF Recording
  <2> QED BY <1>1, <1>2, <2>1, Unrecorded
<1>3. CASE rv'[r].pc = "evict"
  <2>1. OneRecords' BY <1>3, Fewer
  <2>2. EntryIsAgreed' BY <1>3 DEF EntryIsAgreed
  <2>3. \A o \in Reviews : o # r => rv'[o] = rv[o] BY Others DEF Start
  <2>4. ContradictedIsNotServed' BY <1>1, <2>3 DEF ContradictedIsNotServed, Start, Agreement
  <2> QED BY <2>1, <2>2, <2>4 DEF Agreement
<1> QED BY <1>2, <1>3

LEMMA EvictAgreed ==
  ASSUME NEW r \in Reviews, Start(r), EvictRead(r) \/ EvictRemove(r), ~clash'
  PROVE  Agreement'
<1> /\ rv'[r].base \in {rv[r].base, NoCheck} /\ rv'[r].disabled = rv[r].disabled
    /\ streak' = streak
    /\ \/ /\ rv[r].pc = "evict" /\ rv'[r].pc = "remove" /\ clash' = (clash \/ OthersRecord(r))
       \/ rv[r].pc = "remove" /\ rv'[r].pc = "idle" /\ file' = None /\ clash' = clash
  BY EvictShape DEF Start
<1>1. \A o \in Reviews : o # r => rv'[o] = rv[o] BY Others DEF Start
<1>2. ContradictedIsNotServed'
  BY <1>1 DEF NoCheck, ContradictedIsNotServed, Start, Agreement
<1>3. CASE rv'[r].pc = "remove"
  <2>1. \A o \in Reviews \ {r} : ~Recording(o) BY <1>3 DEF OthersRecord
  <2>2. OneRecords' BY <2>1, Alone
  <2>3. EntryIsAgreed' BY <1>3 DEF EntryIsAgreed
  <2> QED BY <1>2, <2>2, <2>3 DEF Agreement
<1>4. CASE rv'[r].pc = "idle"
  <2>1. rv[r].pc = "remove" /\ file' = None BY <1>4
  <2>2. OneRecords' BY <1>4, Fewer DEF Recording
  <2>3. EntryIsAgreed'
    <3>1. \A o \in Reviews : rv'[o].pc \in {"read", "put"} => FALSE
      <4> SUFFICES ASSUME NEW o \in Reviews, rv'[o].pc \in {"read", "put"} PROVE FALSE
        OBVIOUS
      <4>1. o # r BY <1>4
      <4>2. Recording(o) /\ Recording(r) /\ rv[o].pc # "evict"
        BY <1>1, <2>1, <4>1 DEF Recording
      <4> QED BY <2>1, <4>1, <4>2 DEF OneRecords, Start, Agreement
    <3> QED BY <2>1, <3>1 DEF EntryIsAgreed
  <2> QED BY <1>2, <2>2, <2>3 DEF Agreement
<1> QED BY <1>3, <1>4

LEMMA SpoilAgreed == ASSUME CacheTypeOK, Agreement, Spoil PROVE Agreement'
<1>1. rv' = rv /\ streak' = streak /\ file \in Entry /\ file' = [file EXCEPT !.stale = TRUE]
      /\ file # None
  BY DEF Spoil, history, CacheTypeOK
<1>2. file'.live = file.live /\ file'.res = file.res BY <1>1 DEF Entry
<1>3. ContradictedIsNotServed' /\ OneRecords'
  BY <1>1 DEF Agreement, ContradictedIsNotServed, OneRecords, Recording
<1>4. EntryIsAgreed'
  BY <1>1, <1>2 DEF Agreement, EntryIsAgreed, Agreed
<1> QED BY <1>3, <1>4 DEF Agreement

(* The theorems.                                                             *)

\* Every action of one review.
Act(r) ==
    \/ Begin(r) \/ Consult(r) \/ Execute(r) \/ Candidate(r)
    \/ ReadPrior(r) \/ PutEntry(r) \/ PutRefused(r) \/ DeleteEntry(r)
    \/ Settle(r) \/ EvictRead(r) \/ EvictRemove(r)
    \/ IOFails(r) \/ Open(r)

\* The inductive invariant.
CacheIInv == CacheInv /\ VerdictsStand

\* A step of a review keeps each part.
LEMMA ActLocal ==
  ASSUME CacheIInv, NEW r \in Reviews, Act(r) PROVE Local(r)
<1>1. Sound(r) BY DEF CacheIInv, CacheInv, VerdictsStand, Sound, Standing
<1> QED BY <1>1, BeginLocal, ConsultLocal, ExecuteLocal, CandidateLocal, ReadPriorLocal,
           WriteLocal, SettleLocal, EvictLocal, IOFailsLocal, OpenLocal DEF Act

LEMMA ActTypes ==
  ASSUME CacheIInv, NEW r \in Reviews, Act(r)
  PROVE  CacheTypeOK' /\ (\A o \in Reviews : ReviewInv(rv[o]))' /\ VerdictsStand'
         /\ (clash => clash')
<1>1. Local(r) BY ActLocal
<1>2. CacheTypeOK BY DEF CacheIInv, CacheInv
<1>3. \A o \in Reviews : o # r => rv'[o] = rv[o] BY <1>1, <1>2, Others
<1>4. (\A o \in Reviews : ReviewInv(rv[o]))' /\ VerdictsStand'
  BY <1>1, <1>3 DEF CacheIInv, CacheInv, VerdictsStand, Local, Standing
<1>5. rv' \in [Reviews -> Review] BY <1>1, <1>2 DEF Local, CacheTypeOK
<1>6. file' \in Entry \cup {None}
  <2>1. CASE Quiet(r) BY <1>2, <2>1 DEF Quiet, CacheTypeOK
  <2>2. CASE Execute(r) BY <1>2, <2>2 DEF Execute, CacheTypeOK
  <2>3. CASE PutEntry(r) \/ PutRefused(r) \/ DeleteEntry(r)
    <3>1. rv[r].base.res \in Result /\ rv[r].prior \in Entry \cup {None}
      BY <1>2 DEF CacheTypeOK, Review, BaseCheck
    <3>2. rv[r].pc = "put" => rv[r].base.res # "none"
      BY DEF CacheIInv, CacheInv, ReviewInv
    <3>3. PICK n : n = IF rv[r].prior = None THEN 1 ELSE rv[r].prior.live + 1 OBVIOUS
    <3>4. n \in Nat \ {0} BY <3>1, <3>3, Results
    <3>5. \/ file' \in {file, None}
          \/ /\ rv[r].pc = "put"
             /\ file' \in [res : {rv[r].base.res}, slow : BOOLEAN, stale : {FALSE}, live : {n}]
      BY <1>2, <2>3, <3>3, WriteShape
    <3> QED BY <1>2, <3>1, <3>2, <3>4, <3>5 DEF Entry, CacheTypeOK
  <2> QED BY <1>2, <2>1, <2>2, <2>3, QuietSteps DEF Act
<1>7. lives' \in [{"PASS", "FAIL"} -> Nat] /\ streak' \in [status : {"PASS", "FAIL", "NONE"}, n : Nat]
  <2>1. CASE Execute(r)
    <3>1. PICK res \in Result :
            \/ UNCHANGED <<lives, streak>>
            \/ /\ Status(res) \in {"PASS", "FAIL"}
               /\ lives' = [lives EXCEPT ![Status(res)] = @ + 1]
               /\ streak' = IF streak.status = Status(res) THEN [streak EXCEPT !.n = @ + 1]
                            ELSE [status |-> Status(res), n |-> 1]
      BY <1>2, <2>1, ExecuteShape
    <3> QED BY <1>2, <3>1 DEF CacheTypeOK
  <2>2. CASE Settle(r) BY <1>2, <2>2, SettleShape DEF CacheTypeOK
  <2>3. CASE ~Execute(r) /\ ~Settle(r)
    <3>1. lives' = lives /\ streak' = streak
      BY <2>3 DEF Act, Begin, Consult, Candidate, ReadPrior, PutEntry, PutRefused, DeleteEntry,
                  EvictRead, EvictRemove, IOFails, Open, history
    <3> QED BY <1>2, <3>1 DEF CacheTypeOK
  <2> QED BY <2>1, <2>2, <2>3
<1>8. runs' \in Nat /\ faults' \in Nat
  <2>1. runs' = runs + 1 \/ runs' = runs
    BY DEF Act, Begin, Consult, Execute, Candidate, ReadPrior, PutEntry, PutRefused,
           DeleteEntry, Settle, EvictRead, EvictRemove, IOFails, Open
  <2>2. faults' = faults + 1 \/ faults' = faults
    BY DEF Act, Begin, Consult, Execute, Candidate, ReadPrior, PutEntry, PutRefused,
           DeleteEntry, Settle, EvictRead, EvictRemove, IOFails, Open, Fault
  <2> QED BY <1>2, <2>1, <2>2 DEF CacheTypeOK
<1>9. clash' \in BOOLEAN /\ (clash => clash')
  <2>1. clash \in BOOLEAN BY <1>2 DEF CacheTypeOK
  <2>2. CASE clash' = clash BY <2>1, <2>2
  <2>3. CASE clash' = TRUE BY <2>3
  <2>4. CASE clash' = (clash \/ OthersRecord(r)) BY <2>4, Zenon
  <2>5. CASE clash' = (clash \/ Recording(r) \/ At(r, "settle")) BY <2>5, Zenon
  <2> QED BY <2>2, <2>3, <2>4, <2>5
       DEF Act, Begin, Consult, Execute, Candidate, ReadPrior, PutEntry, PutRefused,
           DeleteEntry, Settle, EvictRead, EvictRemove, IOFails, Open, history
<1> QED BY <1>4, <1>5, <1>6, <1>7, <1>8, <1>9 DEF CacheTypeOK

LEMMA ActBacked ==
  ASSUME CacheIInv, NEW r \in Reviews, Act(r) PROVE EntryIsBacked'
<1>1. CacheTypeOK /\ EntryIsBacked /\ \A o \in Reviews : ReviewInv(rv[o])
  BY DEF CacheIInv, CacheInv
<1>2. Local(r) BY ActLocal
<1>3. CASE Execute(r) BY <1>1, <1>2, <1>3, ExecuteBacked
<1>4. CASE PutEntry(r) \/ PutRefused(r) \/ DeleteEntry(r) BY <1>1, <1>2, <1>4, WriteBacked
<1>5. CASE Quiet(r) BY <1>1, <1>2, <1>5, QuietBacked
<1> QED BY <1>1, <1>3, <1>4, <1>5, QuietSteps DEF Act

LEMMA ActAgreed ==
  ASSUME CacheIInv, NEW r \in Reviews, Act(r) PROVE ServedIsAgreed'
<1> SUFFICES ASSUME ~clash' PROVE Agreement'
  BY DEF ServedIsAgreed, Agreement
<1>1. ~clash BY ActTypes
<1>2. Start(r) /\ ReviewInv(rv[r])
  BY <1>1, ActLocal DEF Start, CacheIInv, CacheInv, ServedIsAgreed, Agreement
<1>3. ~IOFails(r) BY DEF IOFails
<1> QED BY <1>2, <1>3, BeginAgreed, ConsultAgreed, ExecuteAgreed, CandidateAgreed, ReadPriorAgreed,
           WriteAgreed, SettleAgreed, EvictAgreed, OpenAgreed DEF Act

LEMMA SpoilKeeps == ASSUME CacheIInv, Spoil PROVE CacheIInv'
<1>1. rv' = rv /\ runs' = runs /\ lives' = lives /\ streak' = streak /\ clash' = clash
      /\ file \in Entry /\ file' = [file EXCEPT !.stale = TRUE] /\ faults' = faults + 1
  BY DEF Spoil, history, Fault, CacheIInv, CacheInv, CacheTypeOK
<1>2. CacheTypeOK'
  <2>1. file' \in Entry BY <1>1 DEF Entry
  <2> QED BY <1>1, <2>1 DEF CacheIInv, CacheInv, CacheTypeOK
<1>3. EntryIsBacked' BY SpoilBacked DEF CacheIInv, CacheInv
<1>4. ServedIsAgreed'
  <2>1. CASE clash BY <1>1, <2>1 DEF ServedIsAgreed
  <2>2. CASE ~clash BY <1>1, <2>2, SpoilAgreed DEF ServedIsAgreed, Agreement, CacheIInv, CacheInv
  <2> QED BY <2>1, <2>2
<1>5. (\A r \in Reviews : ReviewInv(rv[r]))' /\ VerdictsStand'
  BY <1>1 DEF CacheIInv, CacheInv, VerdictsStand
<1> QED BY <1>2, <1>3, <1>4, <1>5 DEF CacheIInv, CacheInv

LEMMA CacheNextKeeps == ASSUME CacheIInv, [CacheNext]_cacheVars PROVE CacheIInv'
<1>1. CASE \E r \in Reviews : Act(r)
  <2>1. PICK r \in Reviews : Act(r) BY <1>1
  <2> QED BY <2>1, ActTypes, ActBacked, ActAgreed DEF CacheIInv, CacheInv
<1>2. CASE Spoil BY <1>2, SpoilKeeps
<1>3. CASE UNCHANGED cacheVars
  BY <1>3 DEF cacheVars, CacheIInv, CacheInv, CacheTypeOK, EntryIsBacked, Backed, Unwritten,
     ServedIsAgreed, ContradictedIsNotServed, EntryIsAgreed, Agreed, OneRecords, Recording,
     VerdictsStand
<1> QED BY <1>1, <1>2, <1>3 DEF CacheNext, Act

LEMMA CacheStarts == ASSUME CacheInit PROVE CacheIInv
<1>1. \A r \in Reviews : rv[r] = Opened BY DEF CacheInit
<1>2. NoEvidence \in Evidence BY Checks DEF NoEvidence, Evidence, Result
<1>3. "none" \in Result BY DEF Result
<1>4. Opened \in Review BY <1>2, <1>3, Names, Checks DEF Opened, Review, Evidence
<1>5. CacheTypeOK BY <1>4 DEF CacheInit, CacheTypeOK
<1>6. \A r \in Reviews : ReviewInv(rv[r]) BY <1>1 DEF Opened, ReviewInv, NoCheck
<1>7. EntryIsBacked
  <2>1. \A st : Unwritten(st) = {} BY <1>1 DEF Unwritten, Opened
  <2>2. \A st \in {"PASS", "FAIL"} : Backed(0, st)
    BY <2>1, FS_EmptySet DEF Backed, CacheInit
  <2> QED BY <1>1, <2>2 DEF EntryIsBacked, CacheInit, Opened
<1>8. ServedIsAgreed
  BY <1>1 DEF ServedIsAgreed, ContradictedIsNotServed, EntryIsAgreed, OneRecords, Recording,
              Opened, NoCheck, CacheInit
<1>9. VerdictsStand BY <1>1 DEF VerdictsStand, Opened, NoEvidence, NoCheck, Rederived
<1> QED BY <1>5, <1>6, <1>7, <1>8, <1>9 DEF CacheIInv, CacheInv

LEMMA Inductive == CacheSpec => []CacheIInv
<1>1. CacheIInv /\ [CacheNext]_cacheVars => CacheIInv' BY CacheNextKeeps
<1> QED BY <1>1, CacheStarts, PTL DEF CacheSpec

\* An entry never claims more live runs than there were, and a replay was agreed on
\* by two live runs in a row unless two reviews recorded at once or the directory failed
\* (Store.Put, Harness.recordCacheWrite, Harness.evictContradicted).
THEOREM CacheHolds == CacheSpec => []CacheInv
<1>1. CacheIInv => CacheInv BY DEF CacheIInv
<1> QED BY <1>1, Inductive, PTL

\* The recorded verdict of a generated test is the one the finalized report derives
\* again (Harness.runGenerated, Harness.confirmBaseline).
THEOREM VerdictsHold == CacheSpec => []VerdictsStand
<1>1. CacheIInv => VerdictsStand BY DEF CacheIInv
<1> QED BY <1>1, Inductive, PTL

=============================================================================
