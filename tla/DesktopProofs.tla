---------------------------- MODULE DesktopProofs ----------------------------
(***************************************************************************)
(* Proofs about Probe Desktop.  The document watcher: whatever the edits,  *)
(* the scans, the approvals, the explanations and the stops, every copy of *)
(* the document is of one piece and the baseline was reviewed.  The update *)
(* of the application: whatever fails or stops, the executable is at its   *)
(* path, or the process that moved it brings one there.                    *)
(***************************************************************************)
EXTENDS DocumentWatch, SelfUpdate, FiniteSetTheorems, TLAPS

(* What is sound of a copy, as a function of the versions, of the contents *)
(* described and reviewed, and of whether an approval was overtaken.       *)
SoundIn(d, v, de, re, ov) ==
    /\ WellFormed(d) /\ ExplainsItsVersion(d)
    /\ d.base # None => d.base[1] \in re
    /\ d.cur # None => d.cur[1] \in de \cup re
    /\ d.stamp <= Len(v) /\ d.rev <= Len(v)
    /\ d.stamp # 0 => v[d.stamp] # None
    /\ d.st = "removed" => d.stamp < Len(v)
    /\ d.stamp = Len(v) /\ ~ov =>
          /\ d.st \in {"clean", "changed"} /\ d.cur # None => d.cur[1] = v[Len(v)]
          /\ d.st = "clean" => v[Len(v)] \in re

LEMMA SoundIs ==
  ASSUME NEW d
  PROVE  Sound(d) <=> SoundIn(d, saved, described, reviewed, Overtaken)
BY DEF Sound, SoundIn, OfKnownContent, OfItsVersion, OfItsContent, Now

\* Versions are added at the end.
Extends(v, w) ==
    /\ Len(v) <= Len(w) /\ \A i \in 1..Len(v) : w[i] = v[i]
    /\ Len(w) = Len(v) => w = v

\* A copy that is left alone stays sound while the rest goes on.
LEMMA SoundStays ==
  ASSUME NEW v \in Seq(Content), NEW w \in Seq(Content), NEW de, NEW df, NEW re, NEW rf,
         NEW ov \in BOOLEAN, NEW ow \in BOOLEAN,
         Extends(v, w), de \subseteq df, re \subseteq rf, ov => ow,
         NEW d \in Document, SoundIn(d, v, de, re, ov)
  PROVE  SoundIn(d, w, df, rf, ow)
<1>1. d.stamp \in Nat /\ d.rev \in Nat /\ Len(v) \in Nat /\ Len(w) \in Nat
  BY DEF Document
<1>2. d.stamp # 0 => w[d.stamp] # None
  BY <1>1 DEF SoundIn, Extends
<1>3. d.stamp = Len(w) => w = v
  BY <1>1 DEF SoundIn, Extends
<1> QED
  BY <1>1, <1>2, <1>3 DEF SoundIn, Extends

-----------------------------------------------------------------------------
(* The outcomes of an analysis and of an approval, one by one. *)

LEMMA NoneIsNothing ==
  /\ \A c \in Contents : c # None
  /\ \A h \in Bytes : h # None /\ h[1] \in Contents
  /\ \A p \in Report : p # None /\ p.to \in Contents
BY WatchAssumption DEF WatchAssumption, Bytes, Report

LEMMA NewDocumentSound ==
  ASSUME NEW v, Len(v) \in Nat, Len(v) >= 1, NEW de, NEW re, NEW ov \in BOOLEAN
  PROVE  NewDocument \in Document /\ SoundIn(NewDocument, v, de, re, ov)
BY DEF NewDocument, Document, Hash, Status, SoundIn, WellFormed, HasBaseline,
       ExplainsItsVersion

LEMMA FailedSound ==
  ASSUME NEW v, NEW de, NEW re, NEW ov \in BOOLEAN, NEW d \in Document, SoundIn(d, v, de, re, ov)
  PROVE  Failed(d) \in Document /\ SoundIn(Failed(d), v, de, re, ov)
<1> DEFINE x == Failed(d)
<1>1. x \in Document
  BY DEF Failed, Document, Status, Hash, Explanation
<1>2. /\ x.st = "error" /\ x.stamp = d.stamp /\ x.base = d.base /\ x.rev = d.rev
      /\ x.cur = d.cur /\ x.rep = d.rep /\ x.expl = d.expl
  BY DEF Failed, Document
<1>3. d.stamp \in Nat /\ d.rev \in Nat
  BY DEF Document
<1> HIDE DEF x
<1>4. SoundIn(x, v, de, re, ov)
  BY <1>2, <1>3 DEF SoundIn, WellFormed, HasBaseline, ExplainsItsVersion
<1> QED
  BY <1>1, <1>4 DEF x

\* An entry of the listing: one of the versions, present.
EntryOf(e, v) == e.stamp \in 1..Len(v) /\ v[e.stamp] # None

LEMMA TooLargeSound ==
  ASSUME NEW v, Len(v) \in Nat, NEW de, NEW re, NEW ov \in BOOLEAN, NEW e, EntryOf(e, v),
         NEW d \in Document, SoundIn(d, v, de, re, ov)
  PROVE  TooLarge(d, e) \in Document /\ SoundIn(TooLarge(d, e), v, de, re, ov)
<1> DEFINE x == TooLarge(d, e)
<1>0. e.stamp \in Nat
  BY DEF EntryOf
<1>1. x \in Document
  BY <1>0 DEF TooLarge, Stamped, Document, Status, Hash, Explanation, EntryOf
<1>2. /\ x.st = "too-large" /\ x.stamp = e.stamp /\ x.base = d.base /\ x.rev = d.rev
      /\ x.cur = d.cur /\ x.rep = d.rep /\ x.expl = d.expl
  BY DEF TooLarge, Stamped, Document
<1>3. d.stamp \in Nat /\ d.rev \in Nat
  BY DEF Document
<1> HIDE DEF x
<1>4. SoundIn(x, v, de, re, ov)
  BY <1>2, <1>3 DEF SoundIn, WellFormed, HasBaseline, ExplainsItsVersion, EntryOf
<1> QED
  BY <1>1, <1>4 DEF x

LEMMA CloudOnlySound ==
  ASSUME NEW v, Len(v) \in Nat, NEW de, NEW re, NEW ov \in BOOLEAN, NEW e, EntryOf(e, v),
         NEW d \in Document, SoundIn(d, v, de, re, ov), ~HasBaseline(d)
  PROVE  CloudOnly(d, e) \in Document /\ SoundIn(CloudOnly(d, e), v, de, re, ov)
<1> DEFINE x == CloudOnly(d, e)
<1>0. e.stamp \in Nat
  BY DEF EntryOf
<1>1. x \in Document
  BY <1>0 DEF CloudOnly, Stamped, Document, Status, Hash, Explanation, EntryOf
<1>2. /\ x.st = "cloud-only" /\ x.stamp = e.stamp /\ x.base = d.base /\ x.rev = d.rev
      /\ x.cur = d.cur /\ x.rep = d.rep /\ x.expl = d.expl
  BY DEF CloudOnly, Stamped, Document
<1>3. d.stamp \in Nat /\ d.rev \in Nat
  BY DEF Document
<1> HIDE DEF x
<1>4. SoundIn(x, v, de, re, ov)
  BY <1>2, <1>3 DEF SoundIn, WellFormed, HasBaseline, ExplainsItsVersion, EntryOf
<1> QED
  BY <1>1, <1>4 DEF x

LEMMA ByRevisionSound ==
  ASSUME NEW v, Len(v) \in Nat, NEW de, NEW re, NEW ov \in BOOLEAN, NEW e, EntryOf(e, v),
         v[e.stamp] \in re,
         NEW d \in Document, SoundIn(d, v, de, re, ov), ~HasBaseline(d)
  PROVE  ByRevision(d, e) \in Document /\ SoundIn(ByRevision(d, e), v, de, re, ov)
<1> DEFINE x == ByRevision(d, e)
<1>0. e.stamp \in Nat
  BY DEF EntryOf
<1>1. x \in Document
  BY <1>0 DEF ByRevision, Clean, Stamped, Document, Status, Hash, Explanation, EntryOf
<1>2. /\ x.st = "clean" /\ x.stamp = e.stamp /\ x.base = d.base /\ x.rev = e.stamp
      /\ x.cur = None /\ x.rep = None /\ x.expl = None
  BY DEF ByRevision, Clean, Stamped, Document
<1>3. d.stamp \in Nat /\ d.rev \in Nat
  BY DEF Document
<1> HIDE DEF x
<1>4. SoundIn(x, v, de, re, ov)
  BY <1>2, <1>3 DEF SoundIn, WellFormed, HasBaseline, ExplainsItsVersion, EntryOf
<1> QED
  BY <1>1, <1>4 DEF x

\* The bytes read since the listing.
ReadSince(h, e, v) == h \in Bytes /\ (e.stamp = Len(v) => h[1] = v[Len(v)])

LEMMA CleanSound ==
  ASSUME NEW v, Len(v) \in Nat, NEW de, NEW re, NEW ov \in BOOLEAN, NEW e, EntryOf(e, v),
         NEW h, ReadSince(h, e, v), h[1] \in re,
         NEW d \in Document, SoundIn(d, v, de, re, ov), HasBaseline(d)
  PROVE  Clean(d, e, h) \in Document /\ SoundIn(Clean(d, e, h), v, de, re, ov)
<1> DEFINE x == Clean(d, e, h)
<1>0. e.stamp \in Nat
  BY DEF EntryOf
<1>1. x \in Document
  BY <1>0 DEF Clean, Stamped, Document, Status, Hash, Explanation, EntryOf, ReadSince
<1>2. /\ x.st = "clean" /\ x.stamp = e.stamp /\ x.base = d.base /\ x.rev = d.rev
      /\ x.cur = h /\ x.rep = None /\ x.expl = None
  BY DEF Clean, Stamped, Document
<1>3. d.stamp \in Nat /\ d.rev \in Nat
  BY DEF Document
<1> HIDE DEF x
<1>4. SoundIn(x, v, de, re, ov)
  BY <1>2, <1>3 DEF SoundIn, WellFormed, HasBaseline, ExplainsItsVersion, EntryOf, ReadSince
<1> QED
  BY <1>1, <1>4 DEF x

LEMMA FirstBaselineSound ==
  ASSUME NEW v, Len(v) \in Nat, NEW de, NEW re, NEW ov \in BOOLEAN, NEW e, EntryOf(e, v),
         NEW h, ReadSince(h, e, v), h[1] \in re,
         NEW d \in Document, SoundIn(d, v, de, re, ov), d.rev = 0
  PROVE  LET x == [Clean(d, e, h) EXCEPT !.base = h]
         IN  x \in Document /\ SoundIn(x, v, de, re, ov)
<1> DEFINE x == [Clean(d, e, h) EXCEPT !.base = h]
<1>0. e.stamp \in Nat
  BY DEF EntryOf
<1>1. x \in Document
  BY <1>0, NoneIsNothing DEF Clean, Stamped, Document, Status, Hash, Explanation, EntryOf, ReadSince
<1>2. /\ x.st = "clean" /\ x.stamp = e.stamp /\ x.base = h /\ x.rev = d.rev
      /\ x.cur = h /\ x.rep = None /\ x.expl = None
  BY DEF Clean, Stamped, Document
<1>3. d.stamp \in Nat /\ d.rev \in Nat
  BY DEF Document
<1> HIDE DEF x
<1>4. SoundIn(x, v, de, re, ov)
  BY <1>2, <1>3, NoneIsNothing DEF SoundIn, WellFormed, HasBaseline, ExplainsItsVersion, EntryOf, ReadSince
<1> QED
  BY <1>1, <1>4 DEF x

LEMMA LostBaselineSound ==
  ASSUME NEW v, Len(v) \in Nat, NEW de, NEW re, NEW ov \in BOOLEAN, NEW e, EntryOf(e, v),
         NEW h, ReadSince(h, e, v), h[1] \in de,
         NEW d \in Document, SoundIn(d, v, de, re, ov), HasBaseline(d)
  PROVE  LostBaseline(d, e, h) \in Document /\ SoundIn(LostBaseline(d, e, h), v, de, re, ov)
<1> DEFINE p == [from |-> None, to |-> h[1]]
<1>1. p \in Report /\ p # None /\ p.to = h[1] /\ h # None
  BY NoneIsNothing DEF Report, Content, ReadSince
<1> HIDE DEF p
<1> DEFINE x == LostBaseline(d, e, h)
<1>0. e.stamp \in Nat
  BY DEF EntryOf
<1>2. x \in Document
  BY <1>0, <1>1 DEF LostBaseline, Stamped, Document, Status, Hash, EntryOf, ReadSince, p
<1>3. /\ x.st = "changed" /\ x.stamp = e.stamp /\ x.base = d.base /\ x.rev = d.rev
      /\ x.cur = h /\ x.rep = p /\ x.expl = None
  BY DEF LostBaseline, Stamped, Document, p
<1>4. d.stamp \in Nat /\ d.rev \in Nat
  BY DEF Document
<1> HIDE DEF x
<1>5. SoundIn(x, v, de, re, ov)
  BY <1>1, <1>3, <1>4 DEF SoundIn, WellFormed, HasBaseline, ExplainsItsVersion, EntryOf, ReadSince
<1> QED
  BY <1>2, <1>5 DEF x

LEMMA TouchedSound ==
  ASSUME NEW v, Len(v) \in Nat, NEW de, NEW re, NEW ov \in BOOLEAN, NEW e, EntryOf(e, v),
         NEW d \in Document, SoundIn(d, v, de, re, ov), d.rep # None,
         ReadSince(d.cur, e, v)
  PROVE  Touched(d, e) \in Document /\ SoundIn(Touched(d, e), v, de, re, ov)
<1> DEFINE x == Touched(d, e)
<1>0. e.stamp \in Nat
  BY DEF EntryOf
<1>1. x \in Document
  BY <1>0 DEF Touched, Stamped, Document, Status, Hash, Explanation, EntryOf, ReadSince
<1>2. /\ x.st = "changed" /\ x.stamp = e.stamp /\ x.base = d.base /\ x.rev = d.rev
      /\ x.cur = d.cur /\ x.rep = d.rep /\ x.expl = d.expl
  BY DEF Touched, Stamped, Document
<1>3. d.stamp \in Nat /\ d.rev \in Nat
  BY DEF Document
<1> HIDE DEF x
<1>4. SoundIn(x, v, de, re, ov)
  BY <1>2, <1>3 DEF SoundIn, WellFormed, HasBaseline, ExplainsItsVersion, EntryOf, ReadSince
<1> QED
  BY <1>1, <1>4 DEF x

\* What holds for a later report and a still later one holds from the first to the last.
LEMMA HoldsOn ==
  ASSUME NEW a, NEW b, NEW c, StillHolds(a, b), StillHolds(b, c)
  PROVE  StillHolds(a, c)
BY DEF StillHolds

Covers(x, report) ==
    x # None /\ ~x.outdated =>
        x.of.to = x.on.to /\ (x.on = report \/ StillHolds(x.on, report))

LEMMA CarryExplanationSound ==
  ASSUME NEW d \in Document, ExplainsItsVersion(d), NEW p \in Report
  PROVE  LET x == CarryExplanation(d.expl, d.rep, p)
         IN  x \in Explanation \cup {None} /\ Covers(x, p)
<1> DEFINE x == CarryExplanation(d.expl, d.rep, p)
<1>1. CASE d.expl = None \/ d.rep = None
  BY <1>1 DEF CarryExplanation, Covers
<1>2. CASE ~(d.expl = None \/ d.rep = None) /\ StillHolds(d.rep, p)
  <2>1. x = d.expl
    BY <1>2 DEF CarryExplanation
  <2>2. Covers(x, p)
    BY <1>2, <2>1, HoldsOn DEF ExplainsItsVersion, Covers
  <2> QED
    BY <2>1, <2>2 DEF Document
<1>3. CASE ~(d.expl = None \/ d.rep = None) /\ ~StillHolds(d.rep, p)
  <2>1. x = [d.expl EXCEPT !.outdated = TRUE] /\ d.expl \in Explanation
    BY <1>3 DEF CarryExplanation, Document
  <2>2. x \in Explanation /\ x.outdated
    BY <2>1 DEF Explanation
  <2> QED
    BY <2>2 DEF Covers
<1> QED
  BY <1>1, <1>2, <1>3

LEMMA ChangedSound ==
  ASSUME NEW v, Len(v) \in Nat, NEW de, NEW re, NEW ov \in BOOLEAN, NEW e, EntryOf(e, v),
         NEW h, ReadSince(h, e, v), h[1] \in de, NEW p \in Report, p.to = h[1],
         NEW d \in Document, SoundIn(d, v, de, re, ov), HasBaseline(d)
  PROVE  Changed(d, e, h, p) \in Document /\ SoundIn(Changed(d, e, h, p), v, de, re, ov)
<1> PICK x : x = CarryExplanation(d.expl, d.rep, p)
  OBVIOUS
<1>1. x \in Explanation \cup {None} /\ Covers(x, p)
  BY CarryExplanationSound DEF SoundIn
<1>2. p # None /\ h # None
  BY NoneIsNothing DEF ReadSince
<1> DEFINE y == Changed(d, e, h, p)
<1>0. e.stamp \in Nat
  BY DEF EntryOf
<1>3. y \in Document
  BY <1>0, <1>1 DEF Changed, Stamped, Document, Status, Hash, EntryOf, ReadSince
<1>4. /\ y.st = "changed" /\ y.stamp = e.stamp /\ y.base = d.base /\ y.rev = d.rev
      /\ y.cur = h /\ y.rep = p /\ y.expl = x
  BY DEF Changed, Stamped, Document
<1>5. d.stamp \in Nat /\ d.rev \in Nat
  BY DEF Document
<1> HIDE DEF y
<1>6. SoundIn(y, v, de, re, ov)
  BY <1>1, <1>2, <1>4, <1>5 DEF SoundIn, WellFormed, HasBaseline, ExplainsItsVersion, Covers, EntryOf, ReadSince
<1> QED
  BY <1>3, <1>6 DEF y

LEMMA GoneSound ==
  ASSUME NEW v, Len(v) \in Nat, NEW de, NEW re, NEW ov \in BOOLEAN, NEW d \in Document,
         SoundIn(d, v, de, re, ov), HasBaseline(d), d.stamp < Len(v)
  PROVE  Gone(d) \in Document /\ SoundIn(Gone(d), v, de, re, ov)
<1> DEFINE x == Gone(d)
<1>1. x \in Document
  BY DEF Gone, Document, Status, Hash, Explanation
<1>2. /\ x.st = "removed" /\ x.stamp = d.stamp /\ x.base = d.base /\ x.rev = d.rev
      /\ x.cur = d.cur /\ x.rep = None /\ x.expl = None
  BY DEF Gone, Document
<1>3. d.stamp \in Nat /\ d.rev \in Nat
  BY DEF Document
<1> HIDE DEF x
<1>4. SoundIn(x, v, de, re, ov)
  BY <1>2, <1>3 DEF SoundIn, WellFormed, HasBaseline, ExplainsItsVersion
<1> QED
  BY <1>1, <1>4 DEF x

\* What an approval puts back is sound when it is the analysis it started from.
LEMMA ApprovedSound ==
  ASSUME NEW v, Len(v) \in Nat, NEW de, NEW re, NEW ov \in BOOLEAN, NEW d \in Document,
         SoundIn(d, v, de, re, ov), NEW h \in Bytes, h[1] \in re,
         ~ov => d.cur = h /\ d.st \notin {"too-large", "error"}
  PROVE  Approved(d, h) \in Document /\ SoundIn(Approved(d, h), v, de, re, ov)
<1> DEFINE x == Approved(d, h)
<1>1. x \in Document
  BY NoneIsNothing DEF Approved, Document, Status, Hash, Explanation
<1>2. /\ x.st = "clean" /\ x.stamp = d.stamp /\ x.base = h /\ x.rev = 0
      /\ x.cur = d.cur /\ x.rep = None /\ x.expl = None
  BY DEF Approved, Document
<1>3. d.stamp \in Nat /\ d.rev \in Nat /\ d.st \in Status
  BY DEF Document
<1> HIDE DEF x
<1>4. SoundIn(x, v, de, re, ov)
  BY <1>2, <1>3, NoneIsNothing DEF Status, SoundIn, WellFormed, HasBaseline, ExplainsItsVersion
<1> QED
  BY <1>1, <1>4 DEF x

LEMMA RevisionSound ==
  ASSUME NEW v, NEW de, NEW re, NEW ov \in BOOLEAN, NEW d \in Document, SoundIn(d, v, de, re, ov),
         d.rev # 0, NEW h \in Bytes, h[1] \in re, Len(v) \in Nat
  PROVE  LET x == [d EXCEPT !.base = h, !.rev = 0]
         IN  x \in Document /\ SoundIn(x, v, de, re, ov)
<1> DEFINE x == [d EXCEPT !.base = h, !.rev = 0]
<1>1. x \in Document
  BY NoneIsNothing DEF Document, Status, Hash, Explanation
<1>2. /\ x.st = d.st /\ x.stamp = d.stamp /\ x.base = h /\ x.rev = 0
      /\ x.cur = d.cur /\ x.rep = d.rep /\ x.expl = d.expl
  BY DEF Document
<1>3. d.stamp \in Nat /\ d.rev \in Nat
  BY DEF Document
<1> HIDE DEF x
<1>4. SoundIn(x, v, de, re, ov)
  BY <1>2, <1>3, NoneIsNothing DEF SoundIn, WellFormed, HasBaseline, ExplainsItsVersion
<1> QED
  BY <1>1, <1>4 DEF x

LEMMA ExplainedSound ==
  ASSUME NEW v, NEW de, NEW re, NEW ov \in BOOLEAN, NEW d \in Document, SoundIn(d, v, de, re, ov),
         NEW p \in Report, d.rep # None, p.to = d.rep.to
  PROVE  LET x == [d EXCEPT !.expl = [of |-> p, on |-> d.rep, outdated |-> FALSE]]
         IN  x \in Document /\ SoundIn(x, v, de, re, ov)
<1> DEFINE x == [d EXCEPT !.expl = [of |-> p, on |-> d.rep, outdated |-> FALSE]]
<1>1. x \in Document
  BY DEF Document, Status, Hash, Explanation
<1>2. /\ x.st = d.st /\ x.stamp = d.stamp /\ x.base = d.base /\ x.rev = d.rev
      /\ x.cur = d.cur /\ x.rep = d.rep /\ x.expl = [of |-> p, on |-> d.rep, outdated |-> FALSE]
  BY DEF Document
<1>3. d.stamp \in Nat /\ d.rev \in Nat
  BY DEF Document
<1> HIDE DEF x
<1>4. SoundIn(x, v, de, re, ov)
  BY <1>2, <1>3 DEF SoundIn, WellFormed, HasBaseline, ExplainsItsVersion
<1> QED
  BY <1>1, <1>4 DEF x

-----------------------------------------------------------------------------
(* The copies, and what the steps only add to. *)

LEMMA Types ==
  ASSUME TypeOK
  PROVE  /\ Copies \subseteq MaybeDocument
         /\ saved \in Seq(Content) /\ Len(saved) \in Nat /\ Len(saved) >= 1
         /\ \A i \in 1..Len(saved) : saved[i] \in Content
         /\ Overtaken \in BOOLEAN
<1>1. ASSUME NEW r \in Requests, req[r].pc \in {"read", "write", "pending", "commit", "save"}
      PROVE  req[r].d \in MaybeDocument
  BY <1>1 DEF TypeOK, ApprovalState, MaybeDocument
<1>2. scan.pc # "idle" => scan.d \in MaybeDocument
  BY DEF TypeOK, ScanState, MaybeDocument
<1>3. {mem, disk} \cup late \subseteq MaybeDocument
  BY DEF TypeOK, MaybeDocument
<1>4. saved \in Seq(Content) /\ Len(saved) >= 1
  BY DEF TypeOK, Now
<1>5. Len(saved) \in Nat /\ \A i \in 1..Len(saved) : saved[i] \in Content
  BY <1>4
<1> QED
  BY <1>1, <1>2, <1>3, <1>4, <1>5 DEF Copies, Overtaken

\* Every copy is sound.
LEMMA Held ==
  ASSUME WatchInv, NEW d \in Copies, d # None
  PROVE  d \in Document /\ SoundIn(d, saved, described, reviewed, Overtaken)
BY Types, SoundIs DEF WatchInv, CopiesAreSound, MaybeDocument

LEMMA Growth ==
  ASSUME TypeOK, [Next]_vars
  PROVE  /\ Extends(saved, saved')
         /\ described \subseteq described' /\ reviewed \subseteq reviewed'
         /\ Overtaken => Overtaken'
<1> USE DEF world, files, ghosts
<1>1. ASSUME NEW c \in Content, Save(c)
      PROVE  Extends(saved, saved') /\ UNCHANGED ghosts
  BY <1>1, Types DEF Save, Extends
<1>2. UNCHANGED saved => Extends(saved, saved')
  BY Types DEF Extends
<1>3. clash \subseteq clash' => (Overtaken => Overtaken')
  BY DEF Overtaken
<1>4. ASSUME ScanWork
      PROVE  UNCHANGED <<saved, clash>> /\ described \subseteq described' /\ reviewed \subseteq reviewed'
  BY <1>4 DEF ScanWork, ScanList, ProcessBegin, ProcessRead, ProcessRevision, ProcessRevisionGone,
       ProcessCompare, FirstBaseline, BackToBaseline, SameAsReported, Compare, ProcessCommit, ScanEnd,
       ScanSave
<1>5. ASSUME NEW r \in Requests,
             Look(r) \/ AcceptBegin(r) \/ AcceptRemoved(r) \/ AcceptWork(r) \/ AcceptFault(r)
      PROVE  UNCHANGED <<saved, described>> /\ clash \subseteq clash' /\ reviewed \subseteq reviewed'
  BY <1>5 DEF Look, AcceptBegin, AcceptRemoved, AcceptWork, RemoveCopies, AcceptRead, AcceptWrite,
       AcceptPending, AcceptCommit, AcceptHistory, AcceptSave, AcceptFault
<1>6. ASSUME NEW auto \in BOOLEAN, Ask(auto)
      PROVE  UNCHANGED <<saved, ghosts>>
  BY <1>6 DEF Ask
<1>7. ASSUME Download \/ ChangeSettings \/ ScanUnavailable \/ ProcessFault \/ SetExplanation
             \/ AskFails \/ LateSave \/ Restart
      PROVE  UNCHANGED <<saved, ghosts>>
  BY <1>7 DEF Download, ChangeSettings, ScanUnavailable, ProcessFault, SetExplanation, AskFails,
       LateSave, Restart
<1>8. CASE UNCHANGED vars
  BY <1>8, <1>2, <1>3 DEF vars
<1> QED
  BY <1>1, <1>2, <1>3, <1>4, <1>5, <1>6, <1>7, <1>8 DEF Next

\* A step that makes at most one new copy.
LEMMA CopiesStep ==
  ASSUME WatchInv, [Next]_vars, TypeOK', NEW x, Copies' \subseteq Copies \cup {x},
         x # None => x \in Document /\ SoundIn(x, saved', described', reviewed', Overtaken')
  PROVE  CopiesAreSound'
<1> SUFFICES ASSUME NEW d \in Copies', d # None
             PROVE  SoundIn(d, saved', described', reviewed', Overtaken')
  BY SoundIs DEF CopiesAreSound, Sound, SoundIn, OfKnownContent, OfItsVersion, OfItsContent, Now
<1>1. CASE d = x
  BY <1>1
<1>2. CASE d \in Copies
  <2>1. d \in Document /\ SoundIn(d, saved, described, reviewed, Overtaken)
    BY <1>2, Held
  <2>2. saved \in Seq(Content) /\ Overtaken \in BOOLEAN
    BY Types DEF WatchInv
  <2>3. saved' \in Seq(Content) /\ Overtaken' \in BOOLEAN
    BY DEF TypeOK, Overtaken
  <2> QED
    BY <2>1, <2>2, <2>3, SoundStays, Growth DEF WatchInv
<1> QED
  BY <1>1, <1>2

-----------------------------------------------------------------------------
(* The steps of an analysis. *)

\* A step of an analysis goes on with document d and bytes h at p.
GoesOn(p, d, h) ==
    /\ ScanStep(p, d, h)
    /\ d \in Document /\ SoundIn(d, saved, described', reviewed', Overtaken)
    /\ h \in Hash
    /\ p \in {"revision", "compare"} => ReadSince(h, scan.e, saved)
    /\ p = "revision" => d.base = None /\ d.rev # 0
    /\ p = "compare" => d.base # None \/ d.rev = 0

\* What a step of an analysis does outside of its copy.
Analyzes ==
    /\ {baseFile', pendFile'} \subseteq Hash
    /\ baseFile' # None => baseFile'[1] \in reviewed'
    /\ described' \subseteq Contents /\ reviewed' \subseteq Contents
    /\ online' \in BOOLEAN
    /\ UNCHANGED <<kind, saved, settings, mem, disk, hist, histDisk, req, page, ask, late, clash>>

\* What a step of an analysis finds.
LEMMA ScanHolds ==
  ASSUME WatchInv, scan.pc \in {"process", "read", "revision", "compare", "commit"}
  PROVE  /\ EntryOf(scan.e, saved) /\ scan.seen
         /\ scan.d \in Document /\ SoundIn(scan.d, saved, described, reviewed, Overtaken)
         /\ saved[scan.e.stamp] \in Contents
         /\ scan.pc \in {"revision", "compare"} => ReadSince(scan.data, scan.e, saved)
<1>1. scan.d \in Document /\ scan.data \in Hash /\ scan.d \in Copies
  BY DEF WatchInv, TypeOK, ScanState, Copies
<1>2. scan.d # None
  BY <1>1, WatchAssumption DEF WatchAssumption
<1>3. SoundIn(scan.d, saved, described, reviewed, Overtaken)
  BY <1>1, <1>2, Held
<1>4. EntryOf(scan.e, saved) /\ scan.seen
  BY DEF WatchInv, ScanInv, EntryOf, Now
<1>5. saved[scan.e.stamp] \in Contents
  BY <1>4, Types DEF WatchInv, EntryOf, Content
<1>6. scan.pc \in {"revision", "compare"} => ReadSince(scan.data, scan.e, saved)
  BY <1>1 DEF WatchInv, ScanInv, ReadSince, Hash, Now
<1> QED
  BY <1>1, <1>3, <1>4, <1>5, <1>6

\* A copy of the document in memory, or a new one.
LEMMA MemHolds ==
  ASSUME WatchInv
  PROVE  /\ mem # None => mem \in Document /\ SoundIn(mem, saved, described, reviewed, Overtaken)
         /\ LET d == IF mem = None THEN NewDocument ELSE mem
            IN  d \in Document /\ SoundIn(d, saved, described, reviewed, Overtaken)
<1>1. mem # None => mem \in Document /\ SoundIn(mem, saved, described, reviewed, Overtaken)
  BY Held DEF Copies
<1>2. NewDocument \in Document /\ SoundIn(NewDocument, saved, described, reviewed, Overtaken)
  BY NewDocumentSound, Types DEF WatchInv
<1> QED
  BY <1>1, <1>2

\* With more contents described or reviewed, what was sound still is.
LEMMA SoundGrows ==
  ASSUME WatchInv, NEW d \in Document, SoundIn(d, saved, described, reviewed, Overtaken),
         NEW de, NEW re, described \subseteq de, reviewed \subseteq re
  PROVE  SoundIn(d, saved, de, re, Overtaken)
BY Types DEF WatchInv, SoundIn

LEMMA ProcessBeginEffect ==
  ASSUME WatchInv, ProcessBegin
  PROVE  Analyzes /\ \E p \in {"end", "commit", "read"}, d \in Document : GoesOn(p, d, None)
<1> DEFINE e == scan.e
           d == IF mem = None THEN NewDocument ELSE mem
           unchanged == mem # None /\ SameVersion(mem, e) /\ mem.st \notin {"error", "removed"}
           kept == ~unchanged /\ ~HasBaseline(d) /\ KeepsVersions
<1>1. scan.pc = "process"
  BY DEF ProcessBegin
<1>2. /\ EntryOf(e, saved) /\ saved[e.stamp] \in Contents
      /\ d \in Document /\ SoundIn(d, saved, described, reviewed, Overtaken)
  BY <1>1, ScanHolds, MemHolds
<1>3. /\ IF unchanged THEN ScanStep("end", NewDocument, None)
         ELSE IF kept THEN Commit(ByRevision(d, e))
         ELSE IF ~HasBaseline(d) /\ e.cloud /\ ~scan.cfg.download THEN Commit(CloudOnly(d, e))
         ELSE IF ~Exported /\ saved[e.stamp] \in Large THEN Commit(TooLarge(d, e))
         ELSE ScanStep("read", d, None)
      /\ reviewed' = IF kept THEN reviewed \cup {saved[e.stamp]} ELSE reviewed
      /\ UNCHANGED <<world, mem, disk, files, hist, histDisk, req, page, ask, late, described, clash>>
  BY DEF ProcessBegin
<1>4. Analyzes
  BY <1>2, <1>3 DEF Analyzes, WatchInv, TypeOK, BaselineIsReviewed, world, files
<1>5. Len(saved) \in Nat /\ Len(saved) >= 1 /\ Overtaken \in BOOLEAN
  BY Types DEF WatchInv
<1>6. reviewed \subseteq reviewed' /\ described' = described
  BY <1>3
<1>7. SoundIn(d, saved, described', reviewed', Overtaken)
  BY <1>2, <1>6, SoundGrows
<1> HIDE DEF e, d
<1>8. CASE unchanged
  BY <1>3, <1>5, <1>8, <1>4, NewDocumentSound DEF GoesOn, Hash
<1>9. CASE kept
  <2>1. saved[e.stamp] \in reviewed' /\ ~HasBaseline(d)
    BY <1>3, <1>9
  <2>2. ByRevision(d, e) \in Document /\ SoundIn(ByRevision(d, e), saved, described', reviewed', Overtaken)
    BY <1>2, <1>5, <1>7, <2>1, ByRevisionSound
  <2>3. ScanStep("commit", ByRevision(d, e), None)
    BY <1>3, <1>9 DEF Commit
  <2> QED
    BY <1>4, <2>2, <2>3 DEF GoesOn, Hash
<1>10. CASE ~unchanged /\ ~kept
  <2>1. ~HasBaseline(d) =>
          CloudOnly(d, e) \in Document /\ SoundIn(CloudOnly(d, e), saved, described', reviewed', Overtaken)
    BY <1>2, <1>5, <1>7, CloudOnlySound
  <2>2. TooLarge(d, e) \in Document /\ SoundIn(TooLarge(d, e), saved, described', reviewed', Overtaken)
    BY <1>2, <1>5, <1>7, TooLargeSound
  <2>3. \/ ScanStep("commit", CloudOnly(d, e), None) /\ ~HasBaseline(d)
        \/ ScanStep("commit", TooLarge(d, e), None)
        \/ ScanStep("read", d, None)
    BY <1>3, <1>10 DEF Commit
  <2> QED
    BY <1>2, <1>4, <1>7, <2>1, <2>2, <2>3 DEF GoesOn, Hash
<1> QED
  BY <1>8, <1>9, <1>10

\* A failed analysis, and one of a version too large.
LEMMA GivesUp ==
  ASSUME WatchInv, scan.pc \in {"read", "revision", "compare"},
         UNCHANGED <<described, reviewed>>,
         Commit(Failed(scan.d)) \/ Commit(TooLarge(scan.d, scan.e))
  PROVE  \E d \in Document : GoesOn("commit", d, None)
<1>1. /\ EntryOf(scan.e, saved) /\ scan.d \in Document
      /\ SoundIn(scan.d, saved, described, reviewed, Overtaken)
  BY ScanHolds
<1>2. Len(saved) \in Nat /\ Overtaken \in BOOLEAN
  BY Types DEF WatchInv
<1>3. /\ Failed(scan.d) \in Document
      /\ SoundIn(Failed(scan.d), saved, described, reviewed, Overtaken)
  BY <1>1, <1>2, FailedSound
<1>4. /\ TooLarge(scan.d, scan.e) \in Document
      /\ SoundIn(TooLarge(scan.d, scan.e), saved, described, reviewed, Overtaken)
  BY <1>1, <1>2, TooLargeSound
<1> QED
  BY <1>3, <1>4 DEF GoesOn, Commit, Hash

\* A step of the analysis that leaves the files and the contents known alone.
LEMMA QuietAnalyzes ==
  ASSUME WatchInv, online' \in BOOLEAN,
         UNCHANGED <<kind, saved, settings, mem, disk, files, hist, histDisk, req, page, ask, late, ghosts>>
  PROVE  Analyzes
BY DEF Analyzes, WatchInv, TypeOK, BaselineIsReviewed, files, ghosts

LEMMA ProcessReadEffect ==
  ASSUME WatchInv, ProcessRead
  PROVE  Analyzes /\ \E p \in {"commit", "revision", "compare"}, d \in Document, h \in Hash : GoesOn(p, d, h)
<1>1. /\ scan.pc = "read" /\ online' = FALSE
      /\ UNCHANGED <<kind, saved, settings, mem, disk, files, hist, histDisk, req, page, ask, late, ghosts>>
  BY DEF ProcessRead
<1>2. Analyzes
  BY <1>1, QuietAnalyzes
<1>3. CASE Commit(Failed(scan.d)) \/ Commit(TooLarge(scan.d, scan.e))
  BY <1>1, <1>2, <1>3, GivesUp DEF ghosts, Hash
<1>4. ASSUME Present, NEW h \in BytesOf(saved[Now]),
             ScanStep(IF scan.d.base = None /\ scan.d.rev # 0 THEN "revision" ELSE "compare", scan.d, h)
      PROVE  \E p \in {"revision", "compare"} : GoesOn(p, scan.d, h)
  <2>1. scan.d \in Document /\ SoundIn(scan.d, saved, described, reviewed, Overtaken)
    BY <1>1, ScanHolds
  <2>2. saved[Len(saved)] \in Contents
    BY <1>4, Types DEF WatchInv, Present, Now, Content
  <2>3. h \in Bytes /\ h[1] = saved[Len(saved)]
    BY <1>4, <2>2 DEF BytesOf, Bytes, Now
  <2>4. h \in Hash /\ ReadSince(h, scan.e, saved)
    BY <2>3 DEF Hash, ReadSince
  <2>5. UNCHANGED <<described, reviewed>>
    BY <1>1 DEF ghosts
  <2> QED
    BY <1>4, <2>1, <2>4, <2>5 DEF GoesOn
<1>5. \/ Commit(Failed(scan.d)) \/ Commit(TooLarge(scan.d, scan.e))
      \/ Present /\ \E h \in BytesOf(saved[Now]) :
            ScanStep(IF scan.d.base = None /\ scan.d.rev # 0 THEN "revision" ELSE "compare", scan.d, h)
  BY DEF ProcessRead
<1>6. scan.d \in Document /\ \A h \in BytesOf(saved[Now]) : Present => h \in Hash
  <2>1. Present => saved[Now] \in Contents
    BY Types DEF WatchInv, Present, Now, Content
  <2> QED
    BY <1>1, <2>1, ScanHolds DEF BytesOf, Hash, Bytes
<1> QED
  BY <1>2, <1>3, <1>4, <1>5, <1>6

LEMMA ProcessFaultEffect ==
  ASSUME WatchInv, ProcessFault
  PROVE  Analyzes /\ \E d \in Document : GoesOn("commit", d, None)
<1>1. /\ scan.pc \in {"read", "revision", "compare"} /\ Commit(Failed(scan.d))
      /\ UNCHANGED <<world, mem, disk, files, hist, histDisk, req, page, ask, late, ghosts>>
  BY DEF ProcessFault
<1>2. UNCHANGED <<kind, saved, settings, online, described, reviewed>>
  BY <1>1 DEF world, ghosts
<1>3. Analyzes
  BY <1>1, <1>2, QuietAnalyzes DEF WatchInv, TypeOK
<1> QED
  BY <1>1, <1>2, <1>3, GivesUp

\* The versions the source may return for the one that was remembered.
LEMMA RevisionsKnown ==
  ASSUME WatchInv, NEW n \in Nat, n <= Len(saved), n # 0
  PROVE  Revisions(n) \subseteq Contents
BY Types DEF WatchInv, Revisions, Content

LEMMA ProcessRevisionEffect ==
  ASSUME WatchInv, ProcessRevision
  PROVE  Analyzes /\ \E p \in {"commit", "compare"}, d \in Document, h \in Hash : GoesOn(p, d, h)
<1>1. scan.pc = "revision"
  BY DEF ProcessRevision
<1>2. /\ scan.d \in Document /\ SoundIn(scan.d, saved, described, reviewed, Overtaken)
      /\ ReadSince(scan.data, scan.e, saved) /\ scan.data \in Hash
      /\ scan.d.base = None /\ scan.d.rev # 0
  BY <1>1, ScanHolds DEF WatchInv, ScanInv, ReadSince, Hash
<1>3. scan.d.rev \in Nat /\ scan.d.rev <= Len(saved)
  BY <1>2 DEF Document, SoundIn
<1>4. PICK c \in Revisions(scan.d.rev) :
        IF c \in Large
        THEN Commit(TooLarge(scan.d, scan.e)) /\ UNCHANGED <<files, reviewed>>
        ELSE \E base \in BytesOf(c) :
                /\ baseFile' = base
                /\ reviewed' = reviewed \cup {c}
                /\ ScanStep("compare", [scan.d EXCEPT !.base = base, !.rev = 0], scan.data)
                /\ UNCHANGED pendFile
  BY DEF ProcessRevision
<1>5. UNCHANGED <<world, mem, disk, hist, histDisk, req, page, ask, late, described, clash>>
  BY DEF ProcessRevision
<1>6. c \in Contents
  BY <1>2, <1>3, <1>4, RevisionsKnown
<1>7. CASE c \in Large
  <2>1. Commit(TooLarge(scan.d, scan.e)) /\ UNCHANGED <<files, reviewed>>
    BY <1>4, <1>7
  <2>2. Analyzes
    BY <1>5, <2>1, QuietAnalyzes DEF WatchInv, TypeOK, world, ghosts
  <2> QED
    BY <1>1, <1>5, <2>1, <2>2, GivesUp DEF Hash
<1>8. CASE c \notin Large
  <2>1. PICK base \in BytesOf(c) :
                /\ baseFile' = base
                /\ reviewed' = reviewed \cup {c}
                /\ ScanStep("compare", [scan.d EXCEPT !.base = base, !.rev = 0], scan.data)
                /\ UNCHANGED pendFile
    BY <1>4, <1>8
  <2>2. base \in Bytes /\ base[1] = c
    BY <1>6 DEF BytesOf, Bytes
  <2>3. Analyzes
    BY <1>5, <1>6, <2>1, <2>2 DEF Analyzes, WatchInv, TypeOK, Hash, world
  <2> DEFINE x == [scan.d EXCEPT !.base = base, !.rev = 0]
  <2>4. SoundIn(scan.d, saved, described', reviewed', Overtaken)
    BY <1>2, <1>5, <2>1, SoundGrows
  <2>5. Len(saved) \in Nat /\ Overtaken \in BOOLEAN
    BY Types DEF WatchInv
  <2>6. x \in Document /\ SoundIn(x, saved, described', reviewed', Overtaken)
    <3>1. base[1] \in reviewed' /\ scan.d.rev # 0 /\ scan.d \in Document
      BY <1>2, <2>1, <2>2
    <3> QED
      BY <2>2, <2>4, <2>5, <3>1, RevisionSound
  <2>7. x.rev = 0
    BY <1>2 DEF Document
  <2> HIDE DEF x
  <2>8. ScanStep("compare", x, scan.data)
    BY <2>1 DEF x
  <2> QED
    BY <1>2, <2>3, <2>6, <2>7, <2>8 DEF GoesOn
<1> QED
  BY <1>7, <1>8

LEMMA ProcessRevisionGoneEffect ==
  ASSUME WatchInv, ProcessRevisionGone
  PROVE  Analyzes /\ \E d \in Document : GoesOn("commit", d, None)
<1>1. /\ scan.pc = "revision" /\ Commit(LostBaseline(scan.d, scan.e, scan.data))
      /\ pendFile' \in {scan.data, pendFile}
      /\ described' = described \cup {scan.data[1]}
      /\ UNCHANGED <<world, mem, disk, baseFile, hist, histDisk, req, page, ask, late, reviewed, clash>>
  BY DEF ProcessRevisionGone
<1>2. /\ scan.d \in Document /\ SoundIn(scan.d, saved, described, reviewed, Overtaken)
      /\ ReadSince(scan.data, scan.e, saved) /\ EntryOf(scan.e, saved)
  BY <1>1, ScanHolds
<1>3. scan.data \in Bytes /\ scan.data[1] \in Contents
  BY <1>2, NoneIsNothing DEF ReadSince
<1>4. Analyzes
  BY <1>1, <1>3 DEF Analyzes, WatchInv, TypeOK, BaselineIsReviewed, Hash, world
<1>5. SoundIn(scan.d, saved, described', reviewed', Overtaken)
  BY <1>1, <1>2, SoundGrows
<1>6. Len(saved) \in Nat /\ Overtaken \in BOOLEAN
  BY Types DEF WatchInv
<1>7. HasBaseline(scan.d)
  BY <1>1 DEF WatchInv, ScanInv, HasBaseline
<1>8. scan.data[1] \in described'
  BY <1>1
<1>9. /\ LostBaseline(scan.d, scan.e, scan.data) \in Document
      /\ SoundIn(LostBaseline(scan.d, scan.e, scan.data), saved, described', reviewed', Overtaken)
  BY <1>2, <1>5, <1>6, <1>7, <1>8, LostBaselineSound
<1> QED
  BY <1>1, <1>4, <1>9 DEF GoesOn, Commit, Hash

LEMMA ProcessCompareEffect ==
  ASSUME WatchInv, ProcessCompare
  PROVE  Analyzes /\ \E d \in Document : GoesOn("commit", d, None)
<1> DEFINE d == scan.d
           e == scan.e
           h == scan.data
<1>1. /\ scan.pc = "compare"
      /\ UNCHANGED <<world, mem, disk, hist, histDisk, req, page, ask, late, clash>>
  BY DEF ProcessCompare
<1>2. /\ d \in Document /\ SoundIn(d, saved, described, reviewed, Overtaken)
      /\ ReadSince(h, e, saved) /\ EntryOf(e, saved)
  BY <1>1, ScanHolds
<1>3. h \in Bytes /\ h # None /\ h[1] \in Contents
  BY <1>2, NoneIsNothing DEF ReadSince
<1>4. Len(saved) \in Nat /\ Overtaken \in BOOLEAN
  BY Types DEF WatchInv
<1>5. d.base # None \/ d.rev = 0
  BY <1>1 DEF WatchInv, ScanInv
<1>6. /\ baseFile \in Hash /\ pendFile \in Hash /\ described \subseteq Contents /\ reviewed \subseteq Contents
      /\ online \in BOOLEAN /\ (baseFile # None => baseFile \in Bytes /\ baseFile[1] \in reviewed)
  BY DEF WatchInv, TypeOK, BaselineIsReviewed, Hash
<1> HIDE DEF d, e, h
<1>7. CASE FirstBaseline(d, e, h)
  <2>1. /\ d.base = None /\ baseFile' = h /\ reviewed' = reviewed \cup {h[1]}
        /\ Commit([Clean(d, e, h) EXCEPT !.base = h]) /\ UNCHANGED <<pendFile, described>>
    BY <1>7 DEF FirstBaseline
  <2>2. Analyzes
    BY <1>1, <1>3, <1>6, <2>1 DEF Analyzes, Hash, world
  <2>3. SoundIn(d, saved, described', reviewed', Overtaken) /\ h[1] \in reviewed'
    BY <1>2, <2>1, SoundGrows
  <2> DEFINE x == [Clean(d, e, h) EXCEPT !.base = h]
  <2>4. x \in Document /\ SoundIn(x, saved, described', reviewed', Overtaken)
    BY <1>2, <1>4, <1>5, <2>1, <2>3, FirstBaselineSound
  <2> HIDE DEF x
  <2>5. ScanStep("commit", x, None)
    BY <2>1 DEF Commit, x
  <2> QED
    BY <2>2, <2>4, <2>5 DEF GoesOn, Hash
<1>8. CASE BackToBaseline(d, e, h)
  <2>1. /\ d.base = h /\ Commit(Clean(d, e, h)) /\ pendFile' = None
        /\ UNCHANGED <<baseFile, described, reviewed>>
    BY <1>8 DEF BackToBaseline
  <2>2. Analyzes
    BY <1>1, <1>6, <2>1 DEF Analyzes, Hash, world
  <2>3. HasBaseline(d) /\ h[1] \in reviewed
    BY <1>2, <1>3, <2>1 DEF HasBaseline, SoundIn
  <2>4. Clean(d, e, h) \in Document /\ SoundIn(Clean(d, e, h), saved, described, reviewed, Overtaken)
    BY <1>2, <1>4, <2>3, CleanSound
  <2> QED
    BY <2>1, <2>2, <2>4 DEF GoesOn, Commit, Hash
<1>9. CASE SameAsReported(d, e, h)
  <2>1. /\ h = d.cur /\ d.rep # None /\ Commit(Touched(d, e))
        /\ UNCHANGED <<files, described, reviewed>>
    BY <1>9 DEF SameAsReported
  <2>2. Analyzes
    BY <1>1, <1>6, <2>1 DEF Analyzes, Hash, world, files
  <2>3. Touched(d, e) \in Document /\ SoundIn(Touched(d, e), saved, described, reviewed, Overtaken)
    BY <1>2, <1>4, <2>1, TouchedSound
  <2> QED
    BY <2>1, <2>2, <2>3 DEF GoesOn, Commit, Hash
<1>10. CASE Compare(d, e, h)
  <2>1. HasBaseline(d) /\ UNCHANGED <<baseFile, reviewed>>
    BY <1>10 DEF Compare, HasBaseline
  <2>2. CASE baseFile = None
    <3>1. Commit(Failed(d)) /\ UNCHANGED <<pendFile, described>>
      BY <1>10, <2>2 DEF Compare
    <3>2. Analyzes
      BY <1>1, <1>6, <2>1, <3>1 DEF Analyzes, Hash, world
    <3> QED
      BY <1>1, <2>1, <3>1, <3>2, GivesUp DEF d
  <2>3. CASE baseFile # None /\ Exported /\ baseFile[1] = h[1]
    <3>1. Commit(Clean(d, e, h)) /\ pendFile' = None /\ UNCHANGED described
      BY <1>10, <2>3 DEF Compare
    <3>2. Analyzes
      BY <1>1, <1>6, <2>1, <3>1 DEF Analyzes, Hash, world
    <3>3. h[1] \in reviewed
      BY <1>6, <2>3
    <3>4. Clean(d, e, h) \in Document /\ SoundIn(Clean(d, e, h), saved, described, reviewed, Overtaken)
      BY <1>2, <1>4, <2>1, <3>3, CleanSound
    <3> QED
      BY <2>1, <3>1, <3>2, <3>4 DEF GoesOn, Commit, Hash
  <2>4. CASE baseFile # None /\ ~(Exported /\ baseFile[1] = h[1])
    <3> DEFINE p == [from |-> baseFile[1], to |-> h[1]]
    <3>1. /\ Commit(Changed(d, e, h, p)) /\ pendFile' \in {h, pendFile}
          /\ described' = described \cup {h[1]}
      BY <1>10, <2>4 DEF Compare
    <3>2. Analyzes
      BY <1>1, <1>3, <1>6, <2>1, <3>1 DEF Analyzes, Hash, world
    <3>3. p \in Report /\ p.to = h[1]
      BY <1>3, <1>6, <2>4, NoneIsNothing DEF Report, Content
    <3>4. SoundIn(d, saved, described', reviewed', Overtaken) /\ h[1] \in described'
      BY <1>2, <2>1, <3>1, SoundGrows
    <3> HIDE DEF p
    <3>5. Changed(d, e, h, p) \in Document /\ SoundIn(Changed(d, e, h, p), saved, described', reviewed', Overtaken)
      BY <1>2, <1>4, <2>1, <3>3, <3>4, ChangedSound
    <3> QED
      BY <3>1, <3>2, <3>5 DEF GoesOn, Commit, Hash
  <2> QED
    BY <2>2, <2>3, <2>4
<1> QED
  BY <1>7, <1>8, <1>9, <1>10 DEF ProcessCompare, d, e, h

\* All of them: the copy of the scan is sound wherever it stands.
ProcessStep == ProcessBegin \/ ProcessRead \/ ProcessFault \/ ProcessRevision
               \/ ProcessRevisionGone \/ ProcessCompare

LEMMA ProcessEffect ==
  ASSUME WatchInv, ProcessStep
  PROVE  /\ Analyzes
         /\ scan.pc \in {"process", "read", "revision", "compare"}
         /\ \E p \in {"end", "read", "revision", "compare", "commit"}, d \in Document, h \in Hash : GoesOn(p, d, h)
<1>1. None \in Hash
  BY DEF Hash
<1>2. scan.pc \in {"process", "read", "revision", "compare"}
  BY DEF ProcessStep, ProcessBegin, ProcessRead, ProcessFault, ProcessRevision, ProcessRevisionGone,
     ProcessCompare
<1> QED
  BY <1>1, <1>2, ProcessBeginEffect, ProcessReadEffect, ProcessFaultEffect, ProcessRevisionEffect,
     ProcessRevisionGoneEffect, ProcessCompareEffect DEF ProcessStep

-----------------------------------------------------------------------------
(* The parts of the invariant that a step leaves alone. *)

LEMMA ApprovalsStay ==
  ASSUME WatchInv, UNCHANGED req, reviewed \subseteq reviewed'
  PROVE  ApprovalInv'
BY DEF WatchInv, ApprovalInv

LEMMA HistoryStays ==
  ASSUME WatchInv, UNCHANGED <<hist, histDisk>>
  PROVE  HistoryInv'
BY DEF WatchInv, HistoryInv

LEMMA QuestionStays ==
  ASSUME WatchInv, UNCHANGED ask
  PROVE  QuestionInv'
BY DEF WatchInv, QuestionInv

LEMMA BaselineStays ==
  ASSUME WatchInv, baseFile' \in {baseFile, None}, reviewed \subseteq reviewed'
  PROVE  BaselineIsReviewed'
BY DEF WatchInv, BaselineIsReviewed

\* The document is recorded with the same version, if it is still there.
SameStamp == mem' # None => mem # None /\ mem'.stamp = mem.stamp

LEMMA ScanStays ==
  ASSUME WatchInv, UNCHANGED scan, TypeOK', Extends(saved, saved'), SameStamp
  PROVE  ScanInv'
<1>1. Len(saved) \in Nat /\ Len(saved)' \in Nat /\ Len(saved) <= Len(saved)'
  BY Types DEF WatchInv, TypeOK, Extends
<1>2. CASE scan.pc \in {"process", "read", "revision", "compare", "commit"}
  <2>1. /\ scan.seen /\ scan.e.stamp \in 1..Len(saved) /\ saved[scan.e.stamp] # None
        /\ scan.pc \in {"revision", "compare"} =>
              scan.data # None /\ (scan.e.stamp = Len(saved) => scan.data[1] = saved[Len(saved)])
        /\ scan.pc = "revision" => scan.d.base = None /\ scan.d.rev # 0
        /\ scan.pc = "compare" => scan.d.base # None \/ scan.d.rev = 0
    BY <1>2 DEF WatchInv, ScanInv, Now
  <2>2. saved'[scan.e.stamp] = saved[scan.e.stamp]
    BY <2>1 DEF Extends
  <2>3. scan.e.stamp = Len(saved)' => saved' = saved
    BY <1>1, <2>1 DEF Extends
  <2>4. scan.e.stamp \in 1..Len(saved)'
    BY <1>1, <2>1
  <2> QED
    BY <1>2, <2>1, <2>2, <2>3, <2>4 DEF ScanInv, Now
<1>3. CASE scan.pc = "end"
  <2>1. scan.completed /\ ~scan.seen /\ mem # None => mem.stamp < Len(saved)
    BY <1>3 DEF WatchInv, ScanInv, Now
  <2>2. mem # None => mem.stamp \in Nat
    BY MemHolds DEF Document
  <2> QED
    BY <1>1, <1>3, <2>1, <2>2 DEF ScanInv, SameStamp, Now
<1>4. CASE scan.pc \in {"idle", "save"}
  BY <1>4 DEF ScanInv
<1> QED
  BY <1>2, <1>3, <1>4 DEF WatchInv, TypeOK, ScanState

-----------------------------------------------------------------------------
(* The scan. *)

LEMMA ScanFields ==
  ASSUME TypeOK, scan.pc \in {"process", "read", "revision", "compare", "commit", "end"}
  PROVE  scan \in [pc : {"process", "read", "revision", "compare", "commit", "end"},
          e : [stamp : Nat, cloud : BOOLEAN], cfg : [watched : BOOLEAN, download : BOOLEAN],
          completed : BOOLEAN, seen : BOOLEAN, d : Document, data : Hash]
BY DEF TypeOK, ScanState

LEMMA ProcessNext ==
  ASSUME WatchInv, ProcessStep, [Next]_vars
  PROVE  WatchInv'
<1>1. Analyzes /\ scan.pc \in {"process", "read", "revision", "compare"}
  BY ProcessEffect
<1>2. PICK p \in {"end", "read", "revision", "compare", "commit"}, d \in Document, h \in Hash : GoesOn(p, d, h)
  BY ProcessEffect
<1>3. scan' = [scan EXCEPT !.pc = p, !.d = d, !.data = h]
  BY <1>2 DEF GoesOn, ScanStep
<1>4. scan \in [pc : {"process", "read", "revision", "compare", "commit", "end"},
          e : [stamp : Nat, cloud : BOOLEAN], cfg : [watched : BOOLEAN, download : BOOLEAN],
          completed : BOOLEAN, seen : BOOLEAN, d : Document, data : Hash]
  BY <1>1, ScanFields DEF WatchInv
<1>5. /\ scan'.pc = p /\ scan'.d = d /\ scan'.data = h
      /\ scan'.e = scan.e /\ scan'.seen = scan.seen
  BY <1>3, <1>4
<1>6. scan' \in ScanState
  BY <1>3, <1>4 DEF ScanState
<1>7. TypeOK'
  BY <1>1, <1>6 DEF Analyzes, WatchInv, TypeOK, Now
<1>8. BaselineIsReviewed'
  BY <1>1 DEF Analyzes, BaselineIsReviewed
<1>9. CopiesAreSound'
  <2>1. Copies' \subseteq Copies \cup {d}
    BY <1>1, <1>5 DEF Copies, Analyzes
  <2>2. SoundIn(d, saved', described', reviewed', Overtaken')
    BY <1>1, <1>2 DEF GoesOn, Analyzes, Overtaken
  <2> QED
    BY <1>7, <2>1, <2>2, CopiesStep
<1>10. ScanInv'
  <2>1. scan.seen /\ scan.e.stamp \in 1..Len(saved) /\ saved[scan.e.stamp] # None
    BY <1>1 DEF WatchInv, ScanInv, Now
  <2>2. /\ p \in {"revision", "compare"} => h # None /\ (scan.e.stamp = Len(saved) => h[1] = saved[Len(saved)])
        /\ p = "revision" => d.base = None /\ d.rev # 0
        /\ p = "compare" => d.base # None \/ d.rev = 0
    BY <1>2, NoneIsNothing DEF GoesOn, ReadSince
  <2>3. UNCHANGED saved
    BY <1>1 DEF Analyzes
  <2> QED
    BY <1>5, <2>1, <2>2, <2>3 DEF ScanInv, Now
<1>11. ApprovalInv' /\ HistoryInv' /\ QuestionInv'
  BY <1>1, ApprovalsStay, HistoryStays, QuestionStays, Growth DEF Analyzes, WatchInv
<1> QED
  BY <1>7, <1>8, <1>9, <1>10, <1>11 DEF WatchInv

\* The listing: a version that is there, or a document that is not.
LEMMA ListNext ==
  ASSUME WatchInv, ScanList \/ ScanUnavailable, [Next]_vars
  PROVE  WatchInv'
<1> USE DEF world, files, ghosts
<1>1. /\ scan.pc = "idle"
      /\ UNCHANGED <<world, mem, disk, files, hist, histDisk, req, page, ask, late, ghosts>>
  BY DEF ScanList, ScanUnavailable
<1>2. PICK p \in {"process", "end"}, com \in BOOLEAN, sn \in BOOLEAN :
        /\ scan' = [pc |-> p, e |-> Listed, cfg |-> settings, completed |-> com, seen |-> sn,
                    d |-> NewDocument, data |-> None]
        /\ p = "process" => sn /\ Present
        /\ com /\ ~sn => ~Present
  BY DEF ScanList, ScanUnavailable, WatchInv, TypeOK
<1>3. /\ NewDocument \in Document
      /\ SoundIn(NewDocument, saved, described, reviewed, Overtaken)
      /\ Len(saved) \in Nat /\ Len(saved) >= 1
  BY NewDocumentSound, Types DEF WatchInv
<1>4. scan' \in ScanState
  BY <1>2, <1>3 DEF ScanState, Listed, WatchInv, TypeOK, Hash, Now
<1>5. TypeOK'
  BY <1>1, <1>4 DEF WatchInv, TypeOK, Now
<1>6. CopiesAreSound'
  <2>1. Copies' \subseteq Copies \cup {NewDocument}
    BY <1>1, <1>2 DEF Copies
  <2>2. SoundIn(NewDocument, saved', described', reviewed', Overtaken')
    BY <1>1, <1>3 DEF Overtaken
  <2> QED
    BY <1>3, <1>5, <2>1, <2>2, CopiesStep
<1>7. ScanInv'
  <2>1. CASE p = "process"
    BY <1>1, <1>2, <1>3, <2>1 DEF ScanInv, Present, Now, Listed
  <2>2. CASE p = "end"
    <3>1. mem # None => mem.stamp \in Nat /\ mem.stamp <= Len(saved) /\ (mem.stamp # 0 => saved[mem.stamp] # None)
      BY MemHolds DEF Document, SoundIn
    <3>2. mem # None /\ ~Present => mem.stamp < Len(saved)
      BY <1>3, <3>1 DEF Present, Now
    <3> QED
      BY <1>1, <1>2, <2>2, <3>2 DEF ScanInv, Now
  <2> QED
    BY <2>1, <2>2
<1>8. ApprovalInv' /\ HistoryInv' /\ QuestionInv' /\ BaselineIsReviewed'
  BY <1>1, ApprovalsStay, HistoryStays, QuestionStays, BaselineStays
<1> QED
  BY <1>5, <1>6, <1>7, <1>8 DEF WatchInv

\* The copy is put back.
LEMMA CommitNext ==
  ASSUME WatchInv, ProcessCommit, [Next]_vars
  PROVE  WatchInv'
<1> USE DEF world, files, ghosts
<1>1. /\ scan.pc = "commit" /\ mem' = scan.d
      /\ scan' = [scan EXCEPT !.pc = "end", !.d = NewDocument]
      /\ UNCHANGED <<world, disk, files, hist, histDisk, req, page, ask, late, ghosts>>
  BY DEF ProcessCommit
<1>2. scan \in [pc : {"process", "read", "revision", "compare", "commit", "end"},
          e : [stamp : Nat, cloud : BOOLEAN], cfg : [watched : BOOLEAN, download : BOOLEAN],
          completed : BOOLEAN, seen : BOOLEAN, d : Document, data : Hash]
  BY <1>1, ScanFields DEF WatchInv
<1>3. /\ NewDocument \in Document
      /\ SoundIn(NewDocument, saved, described, reviewed, Overtaken)
  BY NewDocumentSound, Types DEF WatchInv
<1>4. scan.seen
  BY <1>1, ScanHolds
<1>5. scan' \in ScanState /\ scan'.pc = "end" /\ scan'.d = NewDocument /\ scan'.seen = scan.seen
  BY <1>1, <1>2, <1>3 DEF ScanState
<1>6. TypeOK'
  BY <1>1, <1>2, <1>5 DEF WatchInv, TypeOK, Now, MaybeDocument
<1>7. CopiesAreSound'
  <2>1. Copies' \subseteq Copies \cup {NewDocument}
    BY <1>1, <1>5 DEF Copies
  <2>2. SoundIn(NewDocument, saved', described', reviewed', Overtaken')
    BY <1>1, <1>3 DEF Overtaken
  <2> QED
    BY <1>3, <1>6, <2>1, <2>2, CopiesStep
<1>8. ScanInv'
  BY <1>4, <1>5 DEF ScanInv
<1>9. ApprovalInv' /\ HistoryInv' /\ QuestionInv' /\ BaselineIsReviewed'
  BY <1>1, ApprovalsStay, HistoryStays, QuestionStays, BaselineStays
<1> QED
  BY <1>6, <1>7, <1>8, <1>9 DEF WatchInv

\* A review added to the list is of a change with its report, or of a deletion.
LEMMA RecordedHolds ==
  ASSUME WatchInv, mem # None
  PROVE  /\ Recorded(mem) \in Seq(Review)
         /\ \A i \in DOMAIN Recorded(mem) : Recorded(mem)[i].st = "changed" =>
               Recorded(mem)[i].rep # None /\ Recorded(mem)[i].rep.to = Recorded(mem)[i].cur[1]
<1> DEFINE x == [st |-> mem.st, rep |-> mem.rep, cur |-> mem.cur]
<1>1. mem \in Document /\ WellFormed(mem)
  BY MemHolds DEF SoundIn
<1>2. x \in Review /\ (x.st = "changed" => x.rep # None /\ x.rep.to = x.cur[1])
  BY <1>1 DEF Review, Document, WellFormed
<1>3. hist \in Seq(Review) /\ Recorded(mem) = <<x>> \o hist
  BY DEF WatchInv, TypeOK, Recorded
<1>4. \A i \in DOMAIN hist : hist[i].st = "changed" => hist[i].rep # None /\ hist[i].rep.to = hist[i].cur[1]
  BY DEF WatchInv, HistoryInv
<1> HIDE DEF x
<1>5. <<x>> \in Seq(Review) /\ Len(<<x>>) = 1 /\ <<x>>[1] = x
  BY <1>2
<1>6. <<x>> \o hist \in Seq(Review) /\ Len(<<x>> \o hist) = 1 + Len(hist)
  BY <1>3, <1>5
<1>7. \A i \in 1..(1 + Len(hist)) : (<<x>> \o hist)[i] = IF i = 1 THEN x ELSE hist[i - 1]
  BY <1>3, <1>5
<1> QED
  BY <1>2, <1>3, <1>4, <1>6, <1>7

LEMMA HistoryStep ==
  ASSUME WatchInv, hist' \in {hist, histDisk, <<>>} \/ (mem # None /\ hist' = Recorded(mem)),
         histDisk' \in {hist, histDisk}
  PROVE  HistoryInv' /\ hist' \in Seq(Review) /\ histDisk' \in Seq(Review)
<1> DEFINE Fine(h) == h \in Seq(Review) /\ \A i \in DOMAIN h :
                         h[i].st = "changed" => h[i].rep # None /\ h[i].rep.to = h[i].cur[1]
<1>1. Fine(hist) /\ Fine(histDisk)
  BY DEF WatchInv, TypeOK, HistoryInv
<1>2. <<>> \in Seq(Review) /\ DOMAIN <<>> = {}
  OBVIOUS
<1>3. mem # None => Fine(Recorded(mem))
  BY RecordedHolds
<1>4. Fine(<<>>)
  BY <1>2
<1> HIDE DEF Fine
<1>5. Fine(hist') /\ Fine(histDisk')
  BY <1>1, <1>3, <1>4
<1> QED
  BY <1>5 DEF Fine, HistoryInv

LEMMA EndNext ==
  ASSUME WatchInv, ScanEnd, [Next]_vars
  PROVE  WatchInv'
<1> USE DEF world, files, ghosts
<1> DEFINE forget == ~scan.cfg.watched
           vanished == scan.completed /\ ~scan.seen /\ mem # None
<1>1. /\ scan.pc = "end"
      /\ mem' = IF mem = None \/ forget THEN None
                ELSE IF vanished /\ mem.st # "removed"
                     THEN IF HasBaseline(mem) THEN Gone(mem) ELSE None
                     ELSE mem
      /\ baseFile' \in {baseFile, None} /\ pendFile' \in {pendFile, None}
      /\ hist' \in {hist, <<>>}
      /\ scan' = [pc |-> "save", d |-> mem', prune |-> forget /\ hist # <<>>]
      /\ UNCHANGED <<world, disk, histDisk, req, page, ask, late, ghosts>>
  BY DEF ScanEnd
<1>0. hist' \in {hist, <<>>} /\ histDisk' = histDisk
  BY <1>1
<1>2. mem # None => mem \in Document /\ SoundIn(mem, saved, described, reviewed, Overtaken)
  BY MemHolds
<1>3. ASSUME mem # None, vanished, HasBaseline(mem)
      PROVE  Gone(mem) \in Document /\ SoundIn(Gone(mem), saved, described, reviewed, Overtaken)
  <2>1. mem.stamp < Len(saved)
    BY <1>1, <1>3 DEF WatchInv, ScanInv, Now
  <2> QED
    BY <1>2, <1>3, <2>1, GoneSound, Types DEF WatchInv
<1>4. mem' # None => mem' \in Document /\ SoundIn(mem', saved, described, reviewed, Overtaken)
  BY <1>1, <1>2, <1>3
<1>5. scan' \in ScanState /\ scan'.pc = "save" /\ scan'.d = mem'
  BY <1>1, <1>4 DEF ScanState, MaybeDocument
<1>6. TypeOK'
  <2>1. hist' \in Seq(Review) /\ histDisk' \in Seq(Review)
    BY <1>0, HistoryStep
  <2>2. mem' \in MaybeDocument
    BY <1>4 DEF MaybeDocument
  <2>3. /\ baseFile' \in {baseFile, None} /\ pendFile' \in {pendFile, None}
        /\ UNCHANGED <<world, disk, req, page, ask, late, ghosts>>
    BY <1>1
  <2> QED
    BY <2>1, <2>2, <2>3, <1>5 DEF WatchInv, TypeOK, Now, MaybeDocument, Hash
<1>7. CopiesAreSound'
  <2> PICK x : x = mem'
    OBVIOUS
  <2>1. Copies' \subseteq Copies \cup {x}
    BY <1>1, <1>5 DEF Copies
  <2>2. x # None => x \in Document /\ SoundIn(x, saved', described', reviewed', Overtaken')
    BY <1>1, <1>4 DEF Overtaken
  <2> QED
    BY <1>6, <2>1, <2>2, CopiesStep
<1>8. ScanInv'
  BY <1>5 DEF ScanInv
<1>9. HistoryInv'
  BY <1>0, HistoryStep
<1>10. ApprovalInv' /\ QuestionInv' /\ BaselineIsReviewed'
  <2>1. baseFile' \in {baseFile, None} /\ UNCHANGED <<req, ask, reviewed>>
    BY <1>1
  <2> QED
    BY <2>1, ApprovalsStay, QuestionStays, BaselineStays
<1> QED
  BY <1>6, <1>7, <1>8, <1>9, <1>10 DEF WatchInv

\* A step that puts no new document anywhere.
LEMMA NoNewCopy ==
  ASSUME WatchInv, [Next]_vars, TypeOK', Copies' \subseteq Copies \cup {None}
  PROVE  CopiesAreSound'
BY CopiesStep

LEMMA SaveNext ==
  ASSUME WatchInv, ScanSave, [Next]_vars
  PROVE  WatchInv'
<1> USE DEF world, files, ghosts
<1>1. /\ scan.pc = "save" /\ disk' = scan.d /\ scan' = Idle
      /\ histDisk' \in {hist, histDisk}
      /\ UNCHANGED <<world, mem, files, hist, req, page, ask, late, ghosts>>
  BY DEF ScanSave
<1>2. scan.d \in MaybeDocument /\ scan' \in ScanState /\ scan'.pc = "idle"
  BY <1>1 DEF WatchInv, TypeOK, ScanState, Idle
<1>3. TypeOK'
  BY <1>1, <1>2, HistoryStep DEF WatchInv, TypeOK, Now
<1>4. Copies' \subseteq Copies \cup {None}
  BY <1>1, <1>2 DEF Copies
<1>5. ScanInv'
  BY <1>2 DEF ScanInv
<1>6. ApprovalInv' /\ HistoryInv' /\ QuestionInv' /\ BaselineIsReviewed'
  BY <1>1, ApprovalsStay, HistoryStep, QuestionStays, BaselineStays
<1> QED
  BY <1>3, <1>4, <1>5, <1>6, NoNewCopy DEF WatchInv

-----------------------------------------------------------------------------
(* The world, the explanations and the end of the application. *)

LEMMA WorldNext ==
  ASSUME WatchInv, (\E c \in Content : Save(c)) \/ Download \/ ChangeSettings \/ UNCHANGED vars,
         [Next]_vars
  PROVE  WatchInv'
<1> USE DEF files, ghosts
<1>1. /\ saved' = saved \/ \E c \in Content : saved' = Append(saved, c)
      /\ online' \in BOOLEAN /\ settings' \in [watched : BOOLEAN, download : BOOLEAN]
      /\ UNCHANGED <<kind, mem, disk, files, hist, histDisk, scan, req, page, ask, late, ghosts>>
  <2>1. CASE \E c \in Content : Save(c)
    BY <2>1 DEF Save, WatchInv, TypeOK
  <2>2. CASE Download
    BY <2>2 DEF Download, WatchInv, TypeOK
  <2>3. CASE ChangeSettings
    BY <2>3 DEF ChangeSettings, WatchInv, TypeOK
  <2>4. CASE UNCHANGED vars
    BY <2>4 DEF vars, WatchInv, TypeOK
  <2> QED
    BY <2>1, <2>2, <2>3, <2>4
<1>2. saved' \in Seq(Content) /\ Len(saved') >= 1
  BY <1>1, Types DEF WatchInv
<1>3. TypeOK'
  BY <1>1, <1>2 DEF WatchInv, TypeOK, Now
<1>4. Copies' \subseteq Copies \cup {None}
  BY <1>1 DEF Copies
<1>5. ScanInv'
  BY <1>1, <1>3, ScanStays, Growth DEF WatchInv, SameStamp
<1>6. ApprovalInv' /\ HistoryInv' /\ QuestionInv' /\ BaselineIsReviewed'
  BY <1>1, ApprovalsStay, HistoryStays, QuestionStays, BaselineStays
<1> QED
  BY <1>3, <1>4, <1>5, <1>6, NoNewCopy DEF WatchInv

LEMMA AskNext ==
  ASSUME WatchInv, (\E auto \in BOOLEAN : Ask(auto)) \/ AskFails, [Next]_vars
  PROVE  WatchInv'
<1> USE DEF world, files, ghosts
<1>1. UNCHANGED <<world, mem, disk, files, hist, histDisk, scan, req, page, late, ghosts>>
  BY DEF Ask, AskFails
<1>2. /\ ask' \in QuestionState
      /\ ask'.pc = "asked" => ask'.cur # None /\ ask'.rep.to = ask'.cur[1]
  <2>1. ASSUME NEW auto \in BOOLEAN, Ask(auto)
        PROVE  /\ ask' \in QuestionState /\ ask'.cur # None /\ ask'.rep.to = ask'.cur[1]
    <3>1. mem \in Document /\ WellFormed(mem) /\ mem.rep # None
      BY <2>1, MemHolds DEF Ask, SoundIn
    <3>2. mem.cur \in Hash /\ mem.cur # None /\ mem.rep \in Report /\ mem.rep.to = mem.cur[1]
      BY <3>1 DEF Document, WellFormed
    <3>3. ask.tried \in Hash
      BY DEF WatchInv, TypeOK, QuestionState
    <3>4. PICK h \in Hash : ask' = [pc |-> "asked", tried |-> h, cur |-> mem.cur, rep |-> mem.rep]
      BY <2>1, <3>2, <3>3 DEF Ask
    <3> QED
      BY <3>2, <3>4 DEF QuestionState
  <2>2. ASSUME AskFails
        PROVE  ask' \in QuestionState /\ ask'.pc = "idle"
    BY <2>2 DEF AskFails, AskDone, WatchInv, TypeOK, QuestionState
  <2> QED
    BY <2>1, <2>2
<1>3. TypeOK'
  BY <1>1, <1>2 DEF WatchInv, TypeOK, Now
<1>4. Copies' \subseteq Copies \cup {None}
  BY <1>1 DEF Copies
<1>5. ScanInv'
  BY <1>1, <1>3, ScanStays, Growth DEF WatchInv, SameStamp
<1>6. QuestionInv'
  BY <1>2 DEF QuestionInv
<1>7. ApprovalInv' /\ HistoryInv' /\ BaselineIsReviewed'
  BY <1>1, ApprovalsStay, HistoryStays, BaselineStays
<1> QED
  BY <1>3, <1>4, <1>5, <1>6, <1>7, NoNewCopy DEF WatchInv

\* The answer is put in the document it was asked about.
LEMMA ExplanationNext ==
  ASSUME WatchInv, SetExplanation, [Next]_vars
  PROVE  WatchInv'
<1> USE DEF world, files, ghosts
<1>1. /\ ask.pc = "asked" /\ ask' = [pc |-> "idle", tried |-> ask.tried]
      /\ UNCHANGED <<world, disk, files, hist, histDisk, scan, req, page, ghosts>>
  BY DEF SetExplanation, AskDone
<1>2. ask' \in QuestionState /\ ask'.pc = "idle"
  BY <1>1 DEF WatchInv, TypeOK, QuestionState
<1> PICK x : x = mem'
  OBVIOUS
<1>3. /\ x # None => x \in Document /\ SoundIn(x, saved, described, reviewed, Overtaken)
      /\ late' = late \/ (late' = late \cup {x} /\ x # None)
      /\ SameStamp
  <2>1. CASE UNCHANGED <<mem, late>>
    <3>1. mem' = mem /\ late' = late
      BY <2>1
    <3>2. mem # None => mem \in Document /\ SoundIn(mem, saved, described, reviewed, Overtaken)
      BY MemHolds
    <3>3. SameStamp
      BY <3>1 DEF SameStamp
    <3>5. x # None => x \in Document /\ SoundIn(x, saved, described, reviewed, Overtaken)
      BY <3>1, <3>2
    <3> QED
      BY <3>1, <3>3, <3>5
  <2>2. CASE mem # None /\ mem.cur = ask.cur /\ mem.rep # None
    <3>1. /\ mem' = [mem EXCEPT !.expl = [of |-> ask.rep, on |-> mem.rep, outdated |-> FALSE]]
          /\ late' = late \cup {mem'}
      BY <2>2 DEF SetExplanation
    <3>2. ask.rep \in Report /\ mem.cur # None /\ ask.rep.to = mem.cur[1]
      BY <1>1, <2>2 DEF WatchInv, TypeOK, QuestionState, QuestionInv
    <3>3. mem \in Document /\ SoundIn(mem, saved, described, reviewed, Overtaken)
      BY <2>2, MemHolds
    <3>7. mem.rep # None /\ ask.rep.to = mem.rep.to
      BY <2>2, <3>2, <3>3 DEF SoundIn, WellFormed
    <3>4. x \in Document /\ SoundIn(x, saved, described, reviewed, Overtaken)
      BY <3>1, <3>2, <3>3, <3>7, ExplainedSound, Types DEF WatchInv
    <3>5. mem'.stamp = mem.stamp
      BY <3>1, <3>3 DEF Document
    <3>6. x # None
      BY <3>4, WatchAssumption DEF WatchAssumption
    <3> QED
      BY <2>2, <3>1, <3>4, <3>5, <3>6 DEF SameStamp
  <2> QED
    BY <2>1, <2>2 DEF SetExplanation
<1>4. TypeOK'
  BY <1>1, <1>2, <1>3 DEF WatchInv, TypeOK, Now, MaybeDocument
<1>5. CopiesAreSound'
  <2>1. Copies' \subseteq Copies \cup {x}
    BY <1>1, <1>3 DEF Copies
  <2>2. x # None => x \in Document /\ SoundIn(x, saved', described', reviewed', Overtaken')
    BY <1>1, <1>3 DEF Overtaken
  <2> QED
    BY <1>4, <2>1, <2>2, CopiesStep
<1>6. ScanInv'
  BY <1>1, <1>3, <1>4, ScanStays, Growth DEF WatchInv
<1>7. QuestionInv'
  BY <1>2 DEF QuestionInv
<1>8. ApprovalInv' /\ HistoryInv' /\ BaselineIsReviewed'
  BY <1>1, ApprovalsStay, HistoryStays, BaselineStays
<1> QED
  BY <1>4, <1>5, <1>6, <1>7, <1>8 DEF WatchInv

LEMMA LateNext ==
  ASSUME WatchInv, LateSave, [Next]_vars
  PROVE  WatchInv'
<1> USE DEF world, files, ghosts
<1>1. /\ disk' \in late /\ late' \subseteq late
      /\ UNCHANGED <<world, mem, files, hist, histDisk, scan, req, page, ask, ghosts>>
  BY DEF LateSave
<1>2. TypeOK'
  BY <1>1 DEF WatchInv, TypeOK, Now, MaybeDocument
<1>3. Copies' \subseteq Copies \cup {None}
  BY <1>1 DEF Copies
<1>4. ScanInv'
  BY <1>1, <1>2, ScanStays, Growth DEF WatchInv, SameStamp
<1>5. ApprovalInv' /\ HistoryInv' /\ QuestionInv' /\ BaselineIsReviewed'
  BY <1>1, ApprovalsStay, HistoryStays, QuestionStays, BaselineStays
<1> QED
  BY <1>2, <1>3, <1>4, <1>5, NoNewCopy DEF WatchInv

LEMMA RestartNext ==
  ASSUME WatchInv, Restart, [Next]_vars
  PROVE  WatchInv'
<1> USE DEF world, files, ghosts
<1>1. /\ mem' = disk /\ hist' = histDisk /\ scan' = Idle
      /\ req' = [r \in Requests |-> Idle] /\ ask' = [pc |-> "idle", tried |-> None] /\ late' = {}
      /\ UNCHANGED <<world, disk, files, histDisk, page, ghosts>>
  BY DEF Restart
<1>2. /\ scan' \in ScanState /\ scan'.pc = "idle" /\ ask' \in QuestionState /\ ask'.pc = "idle"
      /\ req' \in [Requests -> ApprovalState] /\ \A r \in Requests : req'[r].pc = "idle"
  BY <1>1 DEF Idle, ScanState, QuestionState, ApprovalState, Hash
<1>3. TypeOK'
  BY <1>1, <1>2 DEF WatchInv, TypeOK, Now
<1>4. Copies' \subseteq Copies \cup {None}
  BY <1>1, <1>2 DEF Copies
<1>5. ScanInv' /\ ApprovalInv' /\ QuestionInv'
  BY <1>2 DEF ScanInv, ApprovalInv, QuestionInv
<1>6. HistoryInv' /\ BaselineIsReviewed'
  BY <1>1, HistoryStep, BaselineStays
<1> QED
  BY <1>3, <1>4, <1>5, <1>6, NoNewCopy DEF WatchInv
-----------------------------------------------------------------------------
(* The approvals. *)

LEMMA LookNext ==
  ASSUME WatchInv, NEW r \in Requests, Look(r), [Next]_vars
  PROVE  WatchInv'
<1> USE DEF world, files, ghosts
<1>1. /\ mem # None /\ page' = [page EXCEPT ![r] = {mem.cur}]
      /\ UNCHANGED <<world, mem, disk, files, hist, histDisk, scan, req, ask, late, ghosts>>
  BY DEF Look
<1>2. page' \in [Requests -> SUBSET Hash]
  <2>1. mem.cur \in Hash
    BY <1>1, MemHolds DEF Document
  <2>2. page \in [Requests -> SUBSET Hash] /\ {mem.cur} \in SUBSET Hash
    BY <2>1 DEF WatchInv, TypeOK
  <2> QED
    BY <1>1, <2>2
<1>3. TypeOK'
  BY <1>1, <1>2 DEF WatchInv, TypeOK, Now
<1>4. Copies' \subseteq Copies \cup {None}
  BY <1>1 DEF Copies
<1>5. ScanInv'
  BY <1>1, <1>3, ScanStays, Growth DEF WatchInv, SameStamp
<1>6. ApprovalInv' /\ HistoryInv' /\ QuestionInv' /\ BaselineIsReviewed'
  BY <1>1, ApprovalsStay, HistoryStays, QuestionStays, BaselineStays
<1> QED
  BY <1>3, <1>4, <1>5, <1>6, NoNewCopy DEF WatchInv

\* The states of an approval that hold a copy of the document.
HoldsCopy(x) == x.pc \in {"read", "write", "pending", "commit", "save"}

\* An approval at x writes what was analyzed, which is reviewed once written.
WritesAnalyzed(x) ==
    /\ x.pc \in {"read", "write", "pending", "commit"} => x.d.cur # None
    /\ x.pc \in {"write", "pending", "commit"} => x.data = x.d.cur
    /\ x.pc \in {"pending", "commit"} => x.data[1] \in reviewed'

\* What the steps of an approval have in common: it goes on to x and leaves the
\* document as m.
AnswerStep(r, x, m) ==
    /\ req' = [req EXCEPT ![r] = x] /\ WritesAnalyzed(x)
    /\ HoldsCopy(x) => x.d \in Copies \cup {m}
    /\ mem' = m
    /\ m = mem \/ (m # None => m \in Document /\ SoundIn(m, saved', described', reviewed', Overtaken'))
    /\ m # None => mem # None /\ m.stamp = mem.stamp
    /\ online' \in BOOLEAN /\ disk' \in Copies
    /\ {baseFile', pendFile'} \subseteq Hash
    /\ baseFile' # None => baseFile'[1] \in reviewed'
    /\ reviewed' \subseteq Contents
    /\ clash' \subseteq {"analysis", "approval", "too-large", "error"}
    /\ hist' = hist \/ (mem # None /\ hist' = Recorded(mem))
    /\ histDisk' \in {hist, histDisk}
    /\ UNCHANGED <<kind, saved, settings, scan, page, ask, late, described>>

LEMMA AnswerNext ==
  ASSUME WatchInv, [Next]_vars, NEW r \in Requests, NEW x \in ApprovalState, NEW m,
         AnswerStep(r, x, m)
  PROVE  WatchInv'
<1>1. /\ req' = [req EXCEPT ![r] = x] /\ WritesAnalyzed(x)
      /\ HoldsCopy(x) => x.d \in Copies \cup {m}
      /\ mem' = m /\ disk' \in Copies
      /\ m # None => mem # None /\ m.stamp = mem.stamp
      /\ UNCHANGED <<kind, saved, settings, scan, page, ask, late, described>>
  BY DEF AnswerStep
<1>2. reviewed \subseteq reviewed' /\ Extends(saved, saved')
  BY Growth DEF WatchInv
<1>3. m # None => m \in Document /\ SoundIn(m, saved', described', reviewed', Overtaken')
  <2>1. CASE m = mem /\ m # None
    <3>1. m \in Document /\ SoundIn(m, saved, described, reviewed, Overtaken)
      BY <2>1, MemHolds
    <3>2. /\ saved \in Seq(Content) /\ Overtaken \in BOOLEAN /\ Overtaken' \in BOOLEAN
          /\ saved' = saved
      BY <1>1, Types DEF WatchInv, Overtaken
    <3> QED
      BY <3>1, <3>2, SoundStays, Growth DEF WatchInv
  <2> QED
    BY <2>1 DEF AnswerStep
<1>4. req \in [Requests -> ApprovalState] /\ req' \in [Requests -> ApprovalState]
  BY <1>1 DEF WatchInv, TypeOK
<1>5. \A q \in Requests : req'[q] = IF q = r THEN x ELSE req[q]
  BY <1>1, <1>4
<1>6. HistoryInv' /\ hist' \in Seq(Review) /\ histDisk' \in Seq(Review)
  BY HistoryStep DEF AnswerStep
<1>7. mem' \in MaybeDocument /\ disk' \in MaybeDocument
  BY <1>1, <1>3, Types DEF MaybeDocument, WatchInv
<1>8. TypeOK'
  BY <1>1, <1>4, <1>6, <1>7 DEF AnswerStep, WatchInv, TypeOK, Now
<1>9. CopiesAreSound'
  <2>1. Copies' \subseteq Copies \cup {m}
    <3>1. ASSUME NEW q \in Requests, HoldsCopy(req'[q])
          PROVE  req'[q].d \in Copies \cup {m}
      BY <1>1, <1>5, <3>1 DEF Copies, HoldsCopy
    <3>2. {mem', disk'} \cup late' \cup (IF scan'.pc = "idle" THEN {} ELSE {scan'.d}) \subseteq Copies \cup {m}
      BY <1>1 DEF Copies
    <3> QED
      BY <3>1, <3>2 DEF Copies, HoldsCopy
  <2> QED
    BY <1>3, <1>8, <2>1, CopiesStep
<1>10. ScanInv'
  BY <1>1, <1>2, <1>8, ScanStays DEF SameStamp
<1>11. ApprovalInv'
  <2>1. ASSUME NEW q \in Requests
        PROVE  WritesAnalyzed(req'[q])
    BY <1>1, <1>2, <1>5 DEF WatchInv, ApprovalInv, WritesAnalyzed
  <2> QED
    BY <2>1 DEF ApprovalInv, WritesAnalyzed
<1>12. QuestionInv' /\ BaselineIsReviewed'
  BY <1>1, QuestionStays DEF AnswerStep, BaselineIsReviewed
<1> QED
  BY <1>6, <1>8, <1>9, <1>10, <1>11, <1>12 DEF WatchInv

\* What an approval under way holds.
LEMMA AnswerHolds ==
  ASSUME WatchInv, NEW r \in Requests, req[r].pc \in {"read", "write", "pending", "commit"}
  PROVE  /\ req[r] \in [pc : {"read", "write", "pending", "commit"}, d : Document, data : Hash,
                        seen : SUBSET Hash]
         /\ req[r].d \in Copies
         /\ SoundIn(req[r].d, saved, described, reviewed, Overtaken)
         /\ req[r].d.cur \in Bytes
         /\ req[r].d.cur[1] \in (described \cup reviewed) \cap Contents
<1>1. req[r] \in [pc : {"read", "write", "pending", "commit"}, d : Document, data : Hash,
                  seen : SUBSET Hash]
  BY DEF WatchInv, TypeOK, ApprovalState
<1>2. req[r].d \in Copies /\ req[r].d \in Document
  BY <1>1 DEF Copies
<1>3. req[r].d # None
  BY <1>2, WatchAssumption DEF WatchAssumption
<1>4. SoundIn(req[r].d, saved, described, reviewed, Overtaken)
  BY <1>2, <1>3, Held
<1>5. req[r].d.cur # None /\ req[r].d.cur \in Hash
  BY <1>2 DEF WatchInv, ApprovalInv, Document
<1>6. req[r].d.cur \in Bytes
  BY <1>5 DEF Hash
<1> QED
  BY <1>1, <1>2, <1>4, <1>5, <1>6, NoneIsNothing DEF SoundIn

\* What stays when an approval does nothing else than go on.
LEMMA NothingElse ==
  ASSUME WatchInv
  PROVE  /\ online \in BOOLEAN /\ disk \in Copies /\ mem \in Copies /\ mem \in MaybeDocument
         /\ {baseFile, pendFile} \subseteq Hash /\ None \in Hash
         /\ baseFile # None => baseFile[1] \in reviewed
         /\ reviewed \subseteq Contents
         /\ clash \subseteq {"analysis", "approval", "too-large", "error"}
BY DEF WatchInv, TypeOK, BaselineIsReviewed, Copies, Hash
LEMMA AcceptBeginNext ==
  ASSUME WatchInv, NEW r \in Requests, AcceptBegin(r), [Next]_vars
  PROVE  WatchInv'
<1> USE DEF world, files, ghosts
<1> DEFINE x == [pc |-> "read", d |-> mem, data |-> None, seen |-> page[r]]
<1>1. /\ mem # None /\ mem.cur # None
      /\ req' = [req EXCEPT ![r] = x]
      /\ UNCHANGED <<world, mem, disk, files, hist, histDisk, scan, page, ask, late, ghosts>>
  BY DEF AcceptBegin
<1>2. mem \in Document /\ page[r] \in SUBSET Hash
  BY <1>1, MemHolds DEF WatchInv, TypeOK
<1>3. /\ x \in ApprovalState
      /\ x.pc = "read" /\ x.d = mem
  BY <1>2 DEF ApprovalState, Hash
<1> HIDE DEF x
<1>4. AnswerStep(r, x, mem)
  BY <1>1, <1>3, NothingElse DEF AnswerStep, WritesAnalyzed
<1> QED
  BY <1>3, <1>4, AnswerNext

\* A deletion acknowledged: the document is forgotten, its review recorded.
LEMMA AcceptRemovedNext ==
  ASSUME WatchInv, NEW r \in Requests, AcceptRemoved(r), [Next]_vars
  PROVE  WatchInv'
<1> USE DEF world, files, ghosts
<1> DEFINE x == [pc |-> "copies"]
<1>1. /\ mem # None /\ mem' = None /\ hist' = Recorded(mem)
      /\ req' = [req EXCEPT ![r] = x]
      /\ UNCHANGED <<world, disk, files, histDisk, scan, page, ask, late, ghosts>>
  BY DEF AcceptRemoved
<1>2. x \in ApprovalState /\ x.pc = "copies"
  BY DEF ApprovalState
<1> HIDE DEF x
<1>3. AnswerStep(r, x, None)
  BY <1>1, <1>2, NothingElse DEF AnswerStep, WritesAnalyzed, HoldsCopy
<1> QED
  BY <1>2, <1>3, AnswerNext

LEMMA RemoveCopiesNext ==
  ASSUME WatchInv, NEW r \in Requests, RemoveCopies(r), [Next]_vars
  PROVE  WatchInv'
<1> USE DEF world, files, ghosts
<1> DEFINE x == [pc |-> "history"]
<1>1. /\ baseFile' = None /\ pendFile' = None
      /\ clash' \in {clash, clash \cup {"analysis"}}
      /\ req' = [req EXCEPT ![r] = x]
      /\ UNCHANGED <<world, mem, disk, hist, histDisk, scan, page, ask, late, described, reviewed>>
  BY DEF RemoveCopies
<1>2. x \in ApprovalState /\ x.pc = "history"
  BY DEF ApprovalState
<1> HIDE DEF x
<1>3. clash' \subseteq {"analysis", "approval", "too-large", "error"}
  BY <1>1, NothingElse
<1>4. AnswerStep(r, x, mem)
  BY <1>1, <1>2, <1>3, NothingElse DEF AnswerStep, WritesAnalyzed, HoldsCopy
<1> QED
  BY <1>2, <1>4, AnswerNext

\* What is read again is what was analyzed, or the approval is refused.
LEMMA AcceptReadNext ==
  ASSUME WatchInv, NEW r \in Requests, AcceptRead(r), [Next]_vars
  PROVE  WatchInv'
<1> USE DEF world, files, ghosts
<1>1. /\ req[r].pc = "read" /\ online' \in {online, FALSE}
      /\ mem' = mem \/ (mem # None /\ mem' = Failed(mem))
      /\ UNCHANGED <<kind, saved, settings, disk, files, hist, histDisk, scan, page, ask, late, ghosts>>
  BY DEF AcceptRead
<1>2. \/ req' = [req EXCEPT ![r] = Idle]
      \/ \E data : data = req[r].d.cur /\ req' = [req EXCEPT ![r] = [@ EXCEPT !.pc = "write", !.data = data]]
  BY DEF AcceptRead, Matches
<1>3. PICK x \in ApprovalState :
        /\ req' = [req EXCEPT ![r] = x] /\ WritesAnalyzed(x)
        /\ HoldsCopy(x) => x.d \in Copies
  <2>1. CASE req' = [req EXCEPT ![r] = Idle]
    <3>1. Idle \in ApprovalState /\ WritesAnalyzed(Idle) /\ ~HoldsCopy(Idle)
      BY DEF Idle, ApprovalState, WritesAnalyzed, HoldsCopy
    <3> QED
      BY <2>1, <3>1
  <2>2. CASE \E data : data = req[r].d.cur /\ req' = [req EXCEPT ![r] = [@ EXCEPT !.pc = "write", !.data = data]]
    <3> DEFINE y == [req[r] EXCEPT !.pc = "write", !.data = req[r].d.cur]
    <3>1. req' = [req EXCEPT ![r] = y]
      BY <2>2 DEF WatchInv, TypeOK
    <3>2. /\ req[r] \in [pc : {"read", "write", "pending", "commit"}, d : Document, data : Hash,
                         seen : SUBSET Hash]
          /\ req[r].d \in Copies /\ req[r].d.cur \in Bytes
      BY <1>1, AnswerHolds
    <3>3. y \in ApprovalState /\ y.pc = "write" /\ y.d = req[r].d /\ y.data = req[r].d.cur
      BY <3>2 DEF ApprovalState, Hash
    <3> HIDE DEF y
    <3>4. WritesAnalyzed(y)
      BY <3>2, <3>3, NoneIsNothing DEF WritesAnalyzed
    <3> QED
      BY <3>1, <3>2, <3>3, <3>4
  <2> QED
    BY <1>2, <2>1, <2>2
<1> PICK m : m = mem'
  OBVIOUS
<1>4. /\ m = mem \/ (m # None => m \in Document /\ SoundIn(m, saved', described', reviewed', Overtaken'))
      /\ m # None => mem # None /\ m.stamp = mem.stamp
  <2>1. CASE mem' = mem
    BY <2>1
  <2>2. CASE mem # None /\ mem' = Failed(mem)
    <3>1. /\ mem \in Document /\ SoundIn(mem, saved, described, reviewed, Overtaken)
          /\ Overtaken \in BOOLEAN
      BY <2>2, MemHolds, Types DEF WatchInv
    <3>2. /\ Failed(mem) \in Document /\ SoundIn(Failed(mem), saved, described, reviewed, Overtaken)
      BY <3>1, FailedSound
    <3>3. Failed(mem).stamp = mem.stamp
      BY <3>1 DEF Failed, Document
    <3>4. UNCHANGED <<saved, described, reviewed, Overtaken>>
      BY <1>1 DEF Overtaken
    <3> QED
      BY <2>2, <3>2, <3>3, <3>4
  <2> QED
    BY <1>1, <2>1, <2>2
<1>5. online' \in BOOLEAN
  BY <1>1, NothingElse
<1>6. AnswerStep(r, x, m)
  BY <1>1, <1>3, <1>4, <1>5, NothingElse DEF AnswerStep
<1> QED
  BY <1>3, <1>6, AnswerNext

LEMMA AcceptFaultNext ==
  ASSUME WatchInv, NEW r \in Requests, AcceptFault(r), [Next]_vars
  PROVE  WatchInv'
<1> USE DEF world, files, ghosts
<1>1. /\ req' = [req EXCEPT ![r] = Idle]
      /\ UNCHANGED <<world, mem, disk, files, hist, histDisk, scan, page, ask, late, ghosts>>
  BY DEF AcceptFault
<1>2. Idle \in ApprovalState /\ Idle.pc = "idle"
  BY DEF Idle, ApprovalState
<1>3. AnswerStep(r, Idle, mem)
  BY <1>1, <1>2, NothingElse DEF AnswerStep, WritesAnalyzed, HoldsCopy
<1> QED
  BY <1>2, <1>3, AnswerNext

\* What is written is described by a report or was reviewed.
LEMMA AcceptWriteNext ==
  ASSUME WatchInv, NEW r \in Requests, AcceptWrite(r), [Next]_vars
  PROVE  WatchInv'
<1> USE DEF world, files, ghosts
<1> DEFINE x == [req[r] EXCEPT !.pc = "pending"]
<1>1. /\ req[r].pc = "write" /\ baseFile' = req[r].data
      /\ reviewed' = reviewed \cup ({req[r].data[1]} \cap described)
      /\ UNCHANGED <<world, mem, disk, pendFile, hist, histDisk, scan, page, ask, late,
                     described, clash>>
  BY DEF AcceptWrite
<1>2. req' = [req EXCEPT ![r] = x]
  BY DEF AcceptWrite, WatchInv, TypeOK
<1>3. /\ req[r] \in [pc : {"read", "write", "pending", "commit"}, d : Document, data : Hash,
                     seen : SUBSET Hash]
      /\ req[r].d \in Copies /\ req[r].d.cur \in Bytes
      /\ req[r].d.cur[1] \in (described \cup reviewed) \cap Contents
      /\ req[r].data = req[r].d.cur
  BY <1>1, AnswerHolds DEF WatchInv, ApprovalInv
<1>4. x \in ApprovalState /\ x.pc = "pending" /\ x.d = req[r].d /\ x.data = req[r].d.cur
  BY <1>3 DEF ApprovalState
<1> HIDE DEF x
<1>5. x.data[1] \in reviewed' /\ baseFile' = x.data /\ baseFile' \in Hash
  BY <1>1, <1>3, <1>4 DEF Hash
<1>6. WritesAnalyzed(x)
  BY <1>3, <1>4, <1>5, NoneIsNothing DEF WritesAnalyzed
<1>7. reviewed' \subseteq Contents
  BY <1>1, <1>3, NothingElse
<1>8. AnswerStep(r, x, mem)
  BY <1>1, <1>2, <1>3, <1>4, <1>5, <1>6, <1>7, NothingElse DEF AnswerStep
<1> QED
  BY <1>4, <1>8, AnswerNext

LEMMA AcceptPendingNext ==
  ASSUME WatchInv, NEW r \in Requests, AcceptPending(r), [Next]_vars
  PROVE  WatchInv'
<1> USE DEF world, files, ghosts
<1> DEFINE x == [req[r] EXCEPT !.pc = "commit"]
<1>1. /\ req[r].pc = "pending" /\ pendFile' = None
      /\ UNCHANGED <<world, mem, disk, baseFile, hist, histDisk, scan, page, ask, late, ghosts>>
  BY DEF AcceptPending
<1>2. req' = [req EXCEPT ![r] = x]
  BY DEF AcceptPending, WatchInv, TypeOK
<1>3. /\ req[r] \in [pc : {"read", "write", "pending", "commit"}, d : Document, data : Hash,
                     seen : SUBSET Hash]
      /\ req[r].d \in Copies /\ req[r].d.cur \in Bytes
      /\ req[r].data = req[r].d.cur /\ req[r].data[1] \in reviewed
  BY <1>1, AnswerHolds DEF WatchInv, ApprovalInv
<1>4. x \in ApprovalState /\ x.pc = "commit" /\ x.d = req[r].d /\ x.data = req[r].data
  BY <1>3 DEF ApprovalState
<1> HIDE DEF x
<1>5. WritesAnalyzed(x)
  BY <1>1, <1>3, <1>4, NoneIsNothing DEF WritesAnalyzed
<1>6. AnswerStep(r, x, mem)
  BY <1>1, <1>2, <1>3, <1>4, <1>5, NothingElse DEF AnswerStep
<1> QED
  BY <1>4, <1>6, AnswerNext

\* The document found at the end is approved as it is.
LEMMA AcceptCommitNext ==
  ASSUME WatchInv, NEW r \in Requests, AcceptCommit(r), [Next]_vars
  PROVE  WatchInv'
<1> USE DEF world, files, ghosts
<1> DEFINE x == [pc |-> "history"]
           h == req[r].d.cur
<1>1. /\ req[r].pc = "commit" /\ req' = [req EXCEPT ![r] = x]
      /\ clash' = clash \cup Clashes(h)
      /\ mem = None => mem' = mem /\ hist' = hist
      /\ mem # None => mem' = Approved(mem, h) /\ hist' \in {hist, Recorded(mem)}
      /\ UNCHANGED <<world, disk, files, histDisk, scan, page, ask, late, described, reviewed>>
  BY DEF AcceptCommit
<1>2. h \in Bytes /\ h[1] \in reviewed
  BY <1>1, AnswerHolds DEF WatchInv, ApprovalInv
<1>3. x \in ApprovalState /\ x.pc = "history"
  BY DEF ApprovalState
<1> HIDE DEF x, h
<1>4. Clashes(h) \subseteq {"analysis", "approval", "too-large", "error"}
  BY DEF Clashes
<1>5. clash' \subseteq {"analysis", "approval", "too-large", "error"}
  BY <1>1, <1>4, NothingElse
<1> PICK m : m = mem'
  OBVIOUS
<1>6. /\ m = mem \/ (m # None => m \in Document /\ SoundIn(m, saved', described', reviewed', Overtaken'))
      /\ m # None => mem # None /\ m.stamp = mem.stamp
  <2>1. CASE mem = None
    BY <1>1, <2>1
  <2>2. CASE mem # None
    <3>1. /\ mem \in Document /\ SoundIn(mem, saved, described, reviewed, Overtaken)
          /\ saved \in Seq(Content) /\ Len(saved) \in Nat
          /\ Overtaken \in BOOLEAN /\ Overtaken' \in BOOLEAN
      BY <2>2, MemHolds, Types DEF WatchInv, Overtaken
    <3>2. UNCHANGED <<saved, described, reviewed>> /\ (Overtaken => Overtaken') /\ Extends(saved, saved')
      BY <1>1, Growth DEF WatchInv
    <3>3. Extends(saved, saved)
      BY <3>2
    <3>4. SoundIn(mem, saved, described, reviewed, Overtaken')
      BY <3>1, <3>2, <3>3, SoundStays
    <3>5. ~Overtaken' => mem.cur = h /\ mem.st \notin {"too-large", "error"}
      BY <1>1, <2>2 DEF Overtaken, Clashes
    <3>6. Approved(mem, h) \in Document /\ SoundIn(Approved(mem, h), saved, described, reviewed, Overtaken')
      BY <1>2, <3>1, <3>4, <3>5, ApprovedSound
    <3>7. Approved(mem, h).stamp = mem.stamp
      BY <3>1 DEF Approved, Document
    <3> QED
      BY <1>1, <2>2, <3>2, <3>6, <3>7
  <2> QED
    BY <2>1, <2>2
<1>7. hist' = hist \/ (mem # None /\ hist' = Recorded(mem))
  BY <1>1
<1>8. AnswerStep(r, x, m)
  BY <1>1, <1>3, <1>5, <1>6, <1>7, NothingElse DEF AnswerStep, WritesAnalyzed, HoldsCopy
<1> QED
  BY <1>3, <1>8, AnswerNext

LEMMA AcceptSavesNext ==
  ASSUME WatchInv, NEW r \in Requests, AcceptHistory(r) \/ AcceptSave(r), [Next]_vars
  PROVE  WatchInv'
<1> USE DEF world, files, ghosts
<1>1. CASE AcceptHistory(r)
  <2> DEFINE x == [pc |-> "save", d |-> mem]
  <2>1. /\ histDisk' = hist /\ req' = [req EXCEPT ![r] = x]
        /\ UNCHANGED <<world, mem, disk, files, hist, scan, page, ask, late, ghosts>>
    BY <1>1 DEF AcceptHistory
  <2>2. x \in ApprovalState /\ x.pc = "save" /\ x.d = mem
    BY NothingElse DEF ApprovalState
  <2> HIDE DEF x
  <2>3. AnswerStep(r, x, mem)
    BY <2>1, <2>2, NothingElse DEF AnswerStep, WritesAnalyzed
  <2> QED
    BY <2>2, <2>3, AnswerNext
<1>2. CASE AcceptSave(r)
  <2>1. /\ req[r].pc = "save" /\ disk' = req[r].d /\ req' = [req EXCEPT ![r] = Idle]
        /\ UNCHANGED <<world, mem, files, hist, histDisk, scan, page, ask, late, ghosts>>
    BY <1>2 DEF AcceptSave
  <2>2. Idle \in ApprovalState /\ Idle.pc = "idle"
    BY DEF Idle, ApprovalState
  <2>3. disk' \in Copies
    BY <2>1 DEF Copies
  <2>4. AnswerStep(r, Idle, mem)
    BY <2>1, <2>2, <2>3, NothingElse DEF AnswerStep, WritesAnalyzed, HoldsCopy
  <2> QED
    BY <2>2, <2>4, AnswerNext
<1> QED
  BY <1>1, <1>2
-----------------------------------------------------------------------------
(* The theorems. *)

LEMMA InitWatch == Init => WatchInv
<1> SUFFICES ASSUME Init PROVE WatchInv
  OBVIOUS
<1>1. /\ kind \in Kinds /\ online \in BOOLEAN
      /\ settings \in [watched : BOOLEAN, download : BOOLEAN]
      /\ mem = None /\ disk = None /\ baseFile = None /\ pendFile = None
      /\ hist = <<>> /\ histDisk = <<>> /\ scan = Idle /\ late = {}
      /\ req = [r \in Requests |-> Idle] /\ page = [r \in Requests |-> {}]
      /\ ask = [pc |-> "idle", tried |-> None]
      /\ described = {} /\ reviewed = {} /\ clash = {}
  BY DEF Init
<1>2. saved \in Seq(Content) /\ Len(saved) = 1
  <2>1. PICK c \in Content : saved = <<c>>
    BY DEF Init, Content
  <2>2. <<c>> \in Seq(Content) /\ Len(<<c>>) = 1
    OBVIOUS
  <2> QED
    BY <2>1, <2>2
<1>3. /\ scan \in ScanState /\ scan.pc = "idle" /\ ask \in QuestionState /\ ask.pc = "idle"
      /\ req \in [Requests -> ApprovalState] /\ \A r \in Requests : req[r].pc = "idle"
      /\ page \in [Requests -> SUBSET Hash] /\ None \in Hash
  BY <1>1 DEF Idle, ScanState, QuestionState, ApprovalState, Hash
<1>4. TypeOK
  <2>1. hist \in Seq(Review) /\ histDisk \in Seq(Review)
    BY <1>1
  <2> QED
    BY <1>1, <1>2, <1>3, <2>1 DEF TypeOK, Now, MaybeDocument, Document
<1>5. BaselineIsReviewed /\ ScanInv /\ ApprovalInv /\ QuestionInv
  BY <1>1, <1>3 DEF BaselineIsReviewed, ScanInv, ApprovalInv, QuestionInv
<1>6. HistoryInv
  BY <1>1 DEF HistoryInv
<1>7. CopiesAreSound
  BY <1>1, <1>3 DEF CopiesAreSound, Copies
<1> QED
  BY <1>4, <1>5, <1>6, <1>7 DEF WatchInv

LEMMA NextWatch == WatchInv /\ [Next]_vars => WatchInv'
<1> SUFFICES ASSUME WatchInv, [Next]_vars PROVE WatchInv'
  OBVIOUS
<1>1. CASE (\E c \in Content : Save(c)) \/ Download \/ ChangeSettings \/ UNCHANGED vars
  BY <1>1, WorldNext
<1>2. CASE ScanList \/ ScanUnavailable
  BY <1>2, ListNext
<1>3. CASE ProcessStep
  BY <1>3, ProcessNext
<1>4. CASE ProcessCommit
  BY <1>4, CommitNext
<1>5. CASE ScanEnd
  BY <1>5, EndNext
<1>6. CASE ScanSave
  BY <1>6, SaveNext
<1>7. ASSUME NEW r \in Requests,
             Look(r) \/ AcceptBegin(r) \/ AcceptRemoved(r) \/ AcceptWork(r) \/ AcceptFault(r)
      PROVE  WatchInv'
  BY <1>7, LookNext, AcceptBeginNext, AcceptRemovedNext, RemoveCopiesNext, AcceptReadNext,
     AcceptFaultNext, AcceptWriteNext, AcceptPendingNext, AcceptCommitNext, AcceptSavesNext
     DEF AcceptWork
<1>8. CASE (\E auto \in BOOLEAN : Ask(auto)) \/ AskFails
  BY <1>8, AskNext
<1>9. CASE SetExplanation
  BY <1>9, ExplanationNext
<1>10. CASE LateSave
  BY <1>10, LateNext
<1>11. CASE Restart
  BY <1>11, RestartNext
<1> QED
  BY <1>1, <1>2, <1>3, <1>4, <1>5, <1>6, <1>7, <1>8, <1>9, <1>10, <1>11
  DEF Next, ScanWork, ProcessStep

\* Wherever a copy of the document is, in memory, in state.json, in the hands of a scan, an
\* approval, a save or a question, its status, hash, report, reference and explanation agree, and
\* the baseline file never holds bytes that were not first found, kept by the source, or approved
\* after a report had described them (watcher.go, process, Accept and Load).
THEOREM WatchHolds == Spec => []WatchInv
<1>1. Init => WatchInv
  BY InitWatch
<1>2. WatchInv /\ [Next]_vars => WatchInv'
  BY NextWatch
<1> QED
  BY <1>1, <1>2, PTL DEF Spec

\* A document shown clean for its current version has a content that was first found or approved:
\* whatever the scans, the stops and the approvals do together, a change is not forgotten, unless an
\* approval put its mark over another analysis than its own (watcher.go, Accept).
THEOREM ChangesAreKept == Spec => []ChangeIsKeptWithoutClash
<1>1. WatchInv => ChangeIsKeptWithoutClash
  <2> SUFFICES ASSUME WatchInv, ~Overtaken, ShownClean
               PROVE  saved[Now] \in reviewed
    BY DEF ChangeIsKeptWithoutClash, ChangeIsKept
  <2>1. mem # None /\ mem.st = "clean" /\ mem.stamp = Len(saved)
    BY DEF ShownClean, Now
  <2>2. SoundIn(mem, saved, described, reviewed, Overtaken)
    BY <2>1, MemHolds
  <2> QED
    BY <2>1, <2>2 DEF SoundIn, Now
<1> QED
  BY <1>1, WatchHolds, PTL

AllDiffer(s, n) == \A i, k \in 1..n : s[i] = s[k] => i = k

\* Every element of s is one of t, the one in place j left aside.
Spared(s, t, n, j) == \A i \in 1..n : \E m \in (1..n) \ {j} : t[m] = s[i]

\* Then two elements of s would be the same.
LEMMA NoneToSpare ==
  ASSUME NEW n \in Nat, NEW s, NEW t, NEW j \in 1..n, AllDiffer(s, n)
  PROVE  ~Spared(s, t, n, j)
<1> SUFFICES ASSUME Spared(s, t, n, j) PROVE FALSE
  OBVIOUS
<1> DEFINE S == 1..n
           T == (1..n) \ {j}
           g(i) == CHOOSE m \in T : t[m] = s[i]
           f == [i \in S |-> g(i)]
<1>1. \A i \in S : g(i) \in T /\ t[g(i)] = s[i]
  BY DEF Spared
<1>2. IsFiniteSet(S) /\ Cardinality(S) = n
  <2>1. n \in Int /\ 1 \in Int /\ (IF 1 > n THEN 0 ELSE n - 1 + 1) = n
    OBVIOUS
  <2> QED
    BY <2>1, FS_Interval, Zenon
<1>3. IsFiniteSet(T) /\ Cardinality(T) < Cardinality(S)
  <2>1. IsFiniteSet(T) /\ Cardinality(T) = n - 1
    BY <1>2, FS_RemoveElement, Zenon
  <2> QED
    BY <1>2, <2>1
<1> HIDE DEF S, T, g
<1>4. f \in [S -> T] /\ \A i \in S : f[i] = g(i)
  BY <1>1
<1> HIDE DEF f
<1>5. PICK x \in S, y \in S : x # y /\ f[x] = f[y]
  BY <1>2, <1>3, <1>4, FS_PigeonHole
<1>6. s[x] = s[y]
  BY <1>1, <1>4, <1>5
<1> QED
  BY <1>5, <1>6 DEF S, AllDiffer

\* Two reports of which the second keeps an explanation of the first have the same changes,
\* if those of the first are all different.
LEMMA SameChanges ==
  ASSUME NEW a \in Report, NEW b \in Report, StillHolds(a, b), Different(a)
  PROVE  KeysOf(a) = KeysOf(b) /\ Different(b)
<1> DEFINE s == Changes[a]
           t == Changes[b]
           n == Len(s)
<1>1. s \in Seq(Keys) /\ t \in Seq(Keys)
  BY ChangesAssumption DEF ChangesAssumption
<1>2. n \in Nat /\ DOMAIN s = 1..n /\ DOMAIN t = 1..n
  BY <1>1 DEF StillHolds
<1>3. \A i \in 1..n : \E m \in 1..n : t[m] = s[i]
  BY <1>2 DEF StillHolds, KeysOf
<1>4. AllDiffer(s, n)
  BY <1>2 DEF Different, AllDiffer
<1>5. KeysOf(b) \subseteq KeysOf(a)
  <2>1. SUFFICES ASSUME NEW j \in 1..n, \A i \in 1..n : s[i] # t[j] PROVE FALSE
    BY <1>2 DEF KeysOf
  <2>2. Spared(s, t, n, j)
    BY <1>3, <2>1 DEF Spared
  <2> HIDE DEF s, t, n
  <2> QED
    BY <1>2, <1>4, <2>1, <2>2, NoneToSpare, Zenon
<1>6. Different(b)
  <2>1. SUFFICES ASSUME NEW i \in 1..n, NEW j \in 1..n, t[i] = t[j], i # j PROVE FALSE
    BY <1>2 DEF Different
  <2>2. Spared(s, t, n, j)
    BY <1>3, <2>1 DEF Spared
  <2> HIDE DEF s, t, n
  <2> QED
    BY <1>2, <1>4, <2>1, <2>2, NoneToSpare, Zenon
<1> QED
  BY <1>5, <1>6 DEF StillHolds

\* An explanation shown without the mark "outdated" was stored with a report of the content
\* it is about, and the report shown has the same changes, unless one of them occurs twice:
\* after any number of versions, scans, approvals and restarts, and however late the answer
\* of the model comes back (watch.go, SetExplanation and carryExplanation).
THEOREM ExplanationsAreOfTheseChanges == Spec => []ExplanationIsOfTheseChanges
<1>1. WatchInv => ExplanationIsOfTheseChanges
  <2> SUFFICES ASSUME WatchInv, mem # None, mem.expl # None, ~mem.expl.outdated
               PROVE  /\ mem.expl.of.to = mem.expl.on.to
                      /\ Different(mem.expl.on) =>
                            KeysOf(mem.rep) = KeysOf(mem.expl.on) /\ Different(mem.rep)
    BY DEF ExplanationIsOfTheseChanges
  <2>1. mem \in Document /\ ExplainsItsVersion(mem)
    BY MemHolds DEF SoundIn
  <2>2. /\ mem.rep \in Report /\ mem.expl.on \in Report
        /\ mem.expl.of.to = mem.expl.on.to
        /\ mem.expl.on = mem.rep \/ StillHolds(mem.expl.on, mem.rep)
    BY <2>1 DEF ExplainsItsVersion, Document, Explanation
  <2> QED
    BY <2>2, SameChanges
<1> QED
  BY <1>1, WatchHolds, PTL

------------------------------------------------------------------------------
(* The update of the application.                                             *)

Process == [pc : Places, v : Versions \cup {0}, at : {"exe", "old"}, restart : BOOLEAN,
            upd : Versions \cup {0}, child : Procs \cup {Nil}]

\* A process runs from the file it names, and that file holds its version.
RunsFrom(p) ==
    /\ proc[p].v \in Versions
    /\ proc[p].at = "exe" => exe = proc[p].v
    /\ proc[p].at = "old" => old = proc[p].v

FilesInv == \A p \in Procs : Alive(p) => RunsFrom(p)

\* In the middle of a hand-over: the previous executable is aside.
Aside == {"moved", "install", "wait", "restore", "removed"}

\* One process at a time is, and it runs from there.
AsideInv ==
    /\ \A p \in Procs : proc[p].pc \in Aside => proc[p].at = "old"
    /\ \A p, q \in Procs : proc[p].pc \in Aside /\ proc[q].pc \in Aside => p = q
    /\ \A p \in Procs : proc[p].pc \in {"moved", "removed"} => exe = Nil
    /\ \A p \in Procs : proc[p].pc = "install" => exe # Nil

\* Who holds the lock: an engine from its start to its end, or one that was killed.
Owning == {"own", "hung", "run", "probe", "ready", "quit", "release"}

LockInv ==
    /\ \A p \in Procs : proc[p].pc \in Owning => lock = p
    /\ \A p \in Procs : lock = p => proc[p].pc \in Owning \cup {"dying"}

\* A version that is about to be skipped failed to start, or was excused.
FailedInv ==
    \A p \in Procs : proc[p].pc \in {"restore", "removed", "skip"} =>
        proc[p].upd \in Broken \cup excused \cup {0}

\* The inductive invariant.
UpdateIInv ==
    /\ proc \in [Procs -> Process] /\ UpdateInv
    /\ FilesInv /\ AsideInv /\ LockInv /\ FailedInv

-------------------------------------------------------------------------------
LEMMA Versioned == Nil \notin Versions /\ 0 \notin Versions /\ 1 \in Versions /\ Nil \notin Procs
BY UpdateAssumption DEF Versions

LEMMA ProcessMoves ==
  ASSUME NEW r \in Process, NEW x \in Places
  PROVE  [r EXCEPT !.pc = x] \in Process
BY DEF Process

LEMMA ProcessPlans ==
  ASSUME NEW r \in Process, NEW x \in Places, NEW u \in Versions \cup {0}
  PROVE  [r EXCEPT !.pc = x, !.upd = u] \in Process
BY DEF Process

LEMMA ProcessWaits ==
  ASSUME NEW r \in Process, NEW x \in Places
  PROVE  /\ \A d \in Procs : [r EXCEPT !.pc = x, !.child = d] \in Process
         /\ [r EXCEPT !.pc = x, !.child = Nil] \in Process
BY DEF Process

LEMMA StartedEffect ==
  ASSUME NEW v \in Versions, NEW r \in BOOLEAN
  PROVE  /\ Started(v, r) \in Process
         /\ Started(v, r).pc = "start" /\ Started(v, r).v = v /\ Started(v, r).at = "exe"
BY DEF Started, NoProcess, Process, Places

LEMMA GoesEffect ==
  ASSUME proc \in [Procs -> Process], NEW p \in Procs, NEW x \in Places, Goes(p, x)
  PROVE  /\ proc' \in [Procs -> Process] /\ proc'[p].pc = x
         /\ UNCHANGED <<proc[p].v, proc[p].at, proc[p].upd, proc[p].child>>
         /\ \A q \in Procs \ {p} : proc'[q] = proc[q]
BY DEF Goes, Process

LEMMA EndsEffect ==
  ASSUME proc \in [Procs -> Process], NEW p \in Procs, Ends(p)
  PROVE  /\ proc' \in [Procs -> Process] /\ proc'[p].pc = "gone"
         /\ \A q \in Procs \ {p} : proc'[q] = proc[q]
BY DEF Ends, Process, NoProcess, Places

\* An action that only moves one process from a place to another, and the files stay.
LEMMA MoveKeeps ==
  ASSUME UpdateIInv, NEW p \in Procs, proc' \in [Procs -> Process],
         \A q \in Procs \ {p} : proc'[q] = proc[q],
         proc'[p].pc # "gone" => Alive(p) /\ proc'[p].at = proc[p].at /\ proc'[p].v = proc[p].v,
         proc'[p].pc \in Aside => proc[p].pc \in Aside,
         proc'[p].pc \notin {"moved", "removed", "install"},
         proc[p].pc \notin {"moved", "removed"},
         UNCHANGED installed, lost' = lost
  PROVE  FilesInv' /\ AsideInv' /\ ExecutableIsThere' /\ PreviousIsKept'
<1> USE DEF UpdateIInv, UpdateInv, installed
<1>1. FilesInv'
  BY DEF FilesInv, Alive, RunsFrom
<1>2. AsideInv'
  BY DEF AsideInv, Alive, Aside
<1>3. ExecutableIsThere'
  BY DEF ExecutableIsThere
<1>4. PreviousIsKept'
  BY DEF PreviousIsKept, Alive, Aside
<1> QED BY <1>1, <1>2, <1>3, <1>4

\* The lock stays where it is, and so does the engine that holds it.
LEMMA LockKeeps ==
  ASSUME UpdateIInv, NEW p \in Procs, \A q \in Procs \ {p} : proc'[q] = proc[q],
         UNCHANGED <<lock, info>>,
         proc'[p].pc \in Owning <=> proc[p].pc \in Owning,
         proc'[p].pc = "dying" <=> proc[p].pc = "dying",
         proc'[p].pc \in {"run", "probe", "ready"} => proc[p].pc \in {"run", "probe", "ready"}
  PROVE  LockInv' /\ EngineIsReachable'
<1> USE DEF UpdateIInv, UpdateInv
<1>1. LockInv'
  BY DEF LockInv
<1>2. EngineIsReachable'
  BY DEF EngineIsReachable, Serves
<1> QED BY <1>1, <1>2

LEMMA SkipKeeps ==
  ASSUME UpdateIInv, NEW p \in Procs, \A q \in Procs \ {p} : proc'[q] = proc[q],
         skip' = skip, excused \subseteq excused',
         proc'[p].pc \in {"restore", "removed", "skip"} =>
            proc[p].pc \in {"restore", "removed"} /\ proc'[p].upd = proc[p].upd
  PROVE  SkipIsEarned' /\ FailedInv'
BY DEF UpdateIInv, UpdateInv, SkipIsEarned, FailedInv

LEMMA StartupKeeps ==
  ASSUME UpdateIInv, NEW p \in Procs, Acquire(p) \/ Leave(p) \/ Publish(p) \/ Fail(p)
  PROVE  UpdateIInv'
<1> USE DEF UpdateIInv, UpdateInv, around, known
<1>1. /\ proc' \in [Procs -> Process] /\ \A q \in Procs \ {p} : proc'[q] = proc[q]
      /\ proc'[p].pc # "gone" => UNCHANGED <<proc[p].v, proc[p].at, proc[p].upd>>
  BY GoesEffect, EndsEffect DEF Acquire, Leave, Publish, Fail, Places
<1>2. /\ proc[p].pc \in {"start", "own"} /\ proc'[p].pc \in {"own", "gone", "run", "hung"}
      /\ UNCHANGED <<installed, skip, lost, excused, latest>>
  BY GoesEffect, EndsEffect DEF Acquire, Leave, Publish, Fail, Places
<1>3. FilesInv' /\ AsideInv' /\ ExecutableIsThere' /\ PreviousIsKept'
  BY <1>1, <1>2, MoveKeeps DEF Alive, Aside
<1>4. SkipIsEarned' /\ FailedInv'
  BY <1>1, <1>2, SkipKeeps
<1>5. LockInv' /\ EngineIsReachable'
  <2>1. CASE Acquire(p)
    BY <1>1, <2>1, GoesEffect, Versioned DEF Acquire, LockInv, Owning, EngineIsReachable, Serves, Places
  <2>2. CASE Leave(p)
    BY <1>1, <2>2, EndsEffect, LockKeeps DEF Leave, Owning
  <2>3. CASE Publish(p)
    BY <1>1, <2>3, GoesEffect DEF Publish, LockInv, Owning, EngineIsReachable, Serves, Places
  <2>4. CASE Fail(p)
    BY <1>1, <2>4, GoesEffect, EndsEffect, Versioned DEF Fail, LockInv, Owning, EngineIsReachable, Serves, Places
  <2> QED BY <2>1, <2>2, <2>3, <2>4
<1>6. UpdateTypeOK'
  <2>1. {lock, info}' \subseteq Procs \cup {Nil}
    BY DEF UpdateTypeOK, Acquire, Leave, Publish, Fail
  <2> QED BY <1>1, <1>2, <2>1 DEF UpdateTypeOK, installed, Process
<1> QED BY <1>1, <1>3, <1>4, <1>5, <1>6
\* The end of an engine: the announcement goes before the lock.
LEMMA QuitKeeps ==
  ASSUME UpdateIInv, NEW p \in Procs, Quit(p) \/ ReleaseInfo(p) \/ Unlock(p) \/ Install(p)
  PROVE  UpdateIInv'
<1> USE DEF UpdateIInv, UpdateInv, around, known
<1>1. /\ proc' \in [Procs -> Process] /\ \A q \in Procs \ {p} : proc'[q] = proc[q]
      /\ proc'[p].pc # "gone" => UNCHANGED <<proc[p].v, proc[p].at>>
      /\ proc[p].pc \in {"run", "ready", "quit", "release"}
      /\ proc'[p].pc \in {"quit", "release", "swap", "gone"}
      /\ UNCHANGED <<installed, skip, lost, excused, latest>>
  <2>1. CASE Quit(p)
    <3>1. proc[p] \in Process /\ "quit" \in Places
      BY DEF Places
    <3>2. proc' = [proc EXCEPT ![p] = [proc[p] EXCEPT !.pc = "quit", !.upd = 0]]
      BY <2>1, <3>1 DEF Quit, Process
    <3>3. [proc[p] EXCEPT !.pc = "quit", !.upd = 0] \in Process
      BY <3>1, ProcessPlans
    <3>4. proc' \in [Procs -> Process] /\ \A q \in Procs \ {p} : proc'[q] = proc[q]
      BY <3>2, <3>3
    <3>5. proc'[p].pc = "quit" /\ UNCHANGED <<proc[p].v, proc[p].at>>
      BY <3>1, <3>2 DEF Process
    <3> QED BY <2>1, <3>4, <3>5 DEF Quit
  <2>2. CASE ReleaseInfo(p) \/ Unlock(p) \/ Install(p)
    BY <2>2, GoesEffect, EndsEffect DEF ReleaseInfo, Unlock, Install, Places
  <2> QED BY <2>1, <2>2
<1>3. FilesInv' /\ AsideInv' /\ ExecutableIsThere' /\ PreviousIsKept'
  BY <1>1, MoveKeeps DEF Alive, Aside
<1>4. SkipIsEarned' /\ FailedInv'
  BY <1>1, SkipKeeps
<1>5. LockInv' /\ EngineIsReachable'
  <2>1. CASE Quit(p)
    <3>1. proc'[p].pc = "quit" /\ UNCHANGED <<lock, info>>
      BY <2>1 DEF Quit, Process
    <3> QED BY <1>1, <2>1, <3>1, LockKeeps DEF Quit, Owning
  <2>2. CASE Install(p)
    <3>1. proc[p].pc = "ready" /\ proc'[p].pc = "quit" /\ UNCHANGED <<lock, info>>
      BY <2>2, GoesEffect DEF Install, Places
    <3> QED BY <1>1, <3>1, LockKeeps DEF Owning
  <2>3. CASE ReleaseInfo(p)
    BY <1>1, <2>3, GoesEffect DEF ReleaseInfo, LockInv, Owning, EngineIsReachable, Serves, Places
  <2>4. CASE Unlock(p)
    BY <1>1, <2>4, GoesEffect, EndsEffect, Versioned DEF Unlock, LockInv, Owning, EngineIsReachable, Serves, Places
  <2> QED BY <2>1, <2>2, <2>3, <2>4
<1>6. UpdateTypeOK'
  <2>1. {lock, info}' \subseteq Procs \cup {Nil}
    BY DEF UpdateTypeOK, Quit, ReleaseInfo, Unlock, Install
  <2> QED BY <1>1, <2>1 DEF UpdateTypeOK, installed, Process
<1> QED BY <1>1, <1>3, <1>4, <1>5, <1>6

\* A version is started: nobody knew the process.
LEMMA LaunchKeeps ==
  ASSUME UpdateIInv, NEW p \in Procs, Launch(p)
  PROVE  UpdateIInv'
<1> USE DEF UpdateIInv, UpdateInv
<1>1. /\ proc' = [proc EXCEPT ![p] = Started(exe, FALSE)] /\ exe \in Versions /\ ~Alive(p)
      /\ UNCHANGED <<installed, skip, lock, info, latest, excused, lost>>
  BY DEF Launch, Free, UpdateTypeOK
<1>2. /\ proc' \in [Procs -> Process] /\ \A q \in Procs \ {p} : proc'[q] = proc[q]
      /\ proc'[p].pc = "start" /\ proc'[p].v = exe /\ proc'[p].at = "exe"
  BY <1>1 DEF Started, NoProcess, Process, Places
<1>3. FilesInv'
  BY <1>1, <1>2 DEF FilesInv, Alive, RunsFrom, installed
<1>4. AsideInv' /\ ExecutableIsThere' /\ PreviousIsKept'
  BY <1>1, <1>2 DEF AsideInv, Aside, ExecutableIsThere, PreviousIsKept, Alive, installed
<1>5. SkipIsEarned' /\ FailedInv'
  BY <1>1, <1>2, SkipKeeps
<1>6. LockInv' /\ EngineIsReachable'
  BY <1>1, <1>2, LockKeeps DEF Alive, Owning
<1>7. UpdateTypeOK'
  BY <1>1, <1>2 DEF UpdateTypeOK, installed, Process
<1> QED BY <1>2, <1>3, <1>4, <1>5, <1>6, <1>7

\* Nobody hands over, so the file that is aside is not needed unless somebody runs it.
LEMMA CheckKeeps ==
  ASSUME UpdateIInv, NEW p \in Procs, Check(p)
  PROVE  UpdateIInv'
<1> USE DEF UpdateIInv, UpdateInv, around, known
<1>1. /\ proc' \in [Procs -> Process] /\ \A q \in Procs \ {p} : proc'[q] = proc[q]
      /\ UNCHANGED <<proc[p].v, proc[p].at>> /\ proc[p].pc = "run" /\ proc'[p].pc \in {"run", "probe"}
      /\ UNCHANGED <<exe, skip, lost, excused, latest, lock, info>>
      /\ staged' \in Versions \cup {Nil}
  BY DEF Check, Process, Places, UpdateTypeOK
<1>2. \A q \in Procs : proc[q].pc \notin Aside
  BY DEF Check, HandsOver, Aside
<1>3. old' \in {old, Nil} /\ ((\E q \in Procs : Alive(q) /\ proc[q].at = "old") => old' = old)
  BY DEF Check, Removed, InUse
<1>4. FilesInv'
  BY <1>1, <1>3 DEF FilesInv, Alive, RunsFrom
<1>5. AsideInv' /\ PreviousIsKept' /\ ExecutableIsThere'
  BY <1>1, <1>2 DEF AsideInv, PreviousIsKept, ExecutableIsThere, Aside
<1>6. SkipIsEarned' /\ FailedInv'
  BY <1>1, SkipKeeps
<1>7. LockInv' /\ EngineIsReachable'
  BY <1>1, LockKeeps DEF Owning
<1>8. UpdateTypeOK'
  BY <1>1, <1>3 DEF UpdateTypeOK, Process
<1> QED BY <1>1, <1>4, <1>5, <1>6, <1>7, <1>8

LEMMA ProbeKeeps ==
  ASSUME UpdateIInv, NEW p \in Procs, Probe(p)
  PROVE  UpdateIInv'
<1> USE DEF UpdateIInv, UpdateInv
<1>1. /\ proc' \in [Procs -> Process] /\ \A q \in Procs \ {p} : proc'[q] = proc[q]
      /\ UNCHANGED <<proc[p].v, proc[p].at>> /\ proc[p].pc = "probe" /\ proc'[p].pc \in {"run", "ready"}
      /\ UNCHANGED <<exe, old, lost, latest, lock, info>>
      /\ staged' \in {staged, Nil} /\ excused \subseteq excused'
      /\ skip' = skip \/ (skip' = proc[p].upd /\ proc[p].upd \in excused')
  BY DEF Probe, Goes, Process, Places, Versions
<1>2. FilesInv' /\ AsideInv' /\ PreviousIsKept' /\ ExecutableIsThere'
  BY <1>1 DEF FilesInv, Alive, RunsFrom, AsideInv, PreviousIsKept, ExecutableIsThere, Aside
<1>3. SkipIsEarned' /\ FailedInv'
  BY <1>1 DEF SkipIsEarned, FailedInv
<1>4. LockInv' /\ EngineIsReachable'
  BY <1>1, LockKeeps DEF Owning
<1>5. UpdateTypeOK'
  BY <1>1 DEF UpdateTypeOK, Process
<1> QED BY <1>1, <1>2, <1>3, <1>4, <1>5

\* A renamed file takes along who runs from it.
LEMMA RenamedEffect ==
  ASSUME proc \in [Procs -> Process], NEW p \in Procs, NEW x \in Places,
         NEW from \in {"exe", "old"}, NEW to \in {"exe", "old"},
         proc' = [Renamed(proc, from, to) EXCEPT ![p].pc = x]
  PROVE  /\ proc' \in [Procs -> Process] /\ proc'[p].pc = x
         /\ \A q \in Procs : /\ UNCHANGED <<proc[q].v, proc[q].upd>>
                             /\ q # p => proc'[q].pc = proc[q].pc
                             /\ proc'[q].at = IF Alive(q) /\ proc[q].at = from THEN to ELSE proc[q].at
<1>1. \A q \in Procs : Renamed(proc, from, to)[q] =
                          IF Alive(q) /\ proc[q].at = from THEN [proc[q] EXCEPT !.at = to] ELSE proc[q]
  BY DEF Renamed, Alive
<1>2. Renamed(proc, from, to) \in [Procs -> Process]
  BY <1>1 DEF Renamed, Process
<1> QED BY <1>1, <1>2 DEF Process

\* A file that is in use cannot be replaced, so no other hand-over is in its middle.
LEMMA MoveAsideKeeps ==
  ASSUME UpdateIInv, NEW p \in Procs, MoveAside(p)
  PROVE  UpdateIInv'
<1> USE DEF UpdateIInv, UpdateInv
<1>0. proc[p].pc = "swap" /\ Alive(p) /\ UNCHANGED <<staged, skip, lock, info, latest, excused, lost>>
  BY DEF MoveAside, Alive
<1>1. CASE /\ exe # Nil /\ Removed("old", old) = Nil /\ old' = exe /\ exe' = Nil
           /\ proc' = [Renamed(proc, "exe", "old") EXCEPT ![p].pc = "moved"]
  <2>1. /\ proc' \in [Procs -> Process] /\ proc'[p].pc = "moved"
        /\ \A q \in Procs : /\ UNCHANGED <<proc[q].v, proc[q].upd>>
                            /\ q # p => proc'[q].pc = proc[q].pc
                            /\ proc'[q].at = IF Alive(q) /\ proc[q].at = "exe" THEN "old" ELSE proc[q].at
    BY <1>1, RenamedEffect DEF Places
  <2>2. \A q \in Procs : Alive(q) => proc[q].at = "exe" /\ proc[q].v = exe
    BY <1>1, Versioned DEF Removed, InUse, FilesInv, RunsFrom, Process
  <2>3. \A q \in Procs : proc[q].pc \notin Aside
    BY <2>2 DEF AsideInv, Aside, Alive
  <2>4. exe \in Versions
    BY <1>1 DEF UpdateTypeOK
  <2>5. FilesInv'
    BY <1>0, <1>1, <2>1, <2>2, <2>4 DEF FilesInv, Alive, RunsFrom
  <2>6. AsideInv' /\ ExecutableIsThere' /\ PreviousIsKept'
    BY <1>0, <1>1, <2>1, <2>2, <2>3 DEF AsideInv, ExecutableIsThere, PreviousIsKept, Aside
  <2>7. SkipIsEarned' /\ FailedInv'
    BY <1>0, <2>1 DEF SkipIsEarned, FailedInv
  <2>8. LockInv' /\ EngineIsReachable'
    BY <1>0, <2>1 DEF LockInv, EngineIsReachable, Serves, Owning
  <2>9. UpdateTypeOK'
    BY <1>0, <1>1, <2>1 DEF UpdateTypeOK, Process
  <2> QED BY <2>1, <2>5, <2>6, <2>7, <2>8, <2>9
<1>2. CASE old' = Removed("old", old) /\ exe' = exe /\ Goes(p, "again")
  <2>1. /\ proc' \in [Procs -> Process] /\ proc'[p].pc = "again"
        /\ UNCHANGED <<proc[p].v, proc[p].at, proc[p].upd>>
        /\ \A q \in Procs \ {p} : proc'[q] = proc[q]
    BY <1>2, GoesEffect DEF Places
  <2>2. old' \in {old, Nil} /\ ((\E q \in Procs : Alive(q) /\ proc[q].at = "old") => old' = old)
    BY <1>2 DEF Removed, InUse
  <2>3. FilesInv'
    BY <1>0, <1>2, <2>1, <2>2 DEF FilesInv, Alive, RunsFrom
  <2>4. AsideInv' /\ ExecutableIsThere'
    BY <1>0, <1>2, <2>1 DEF AsideInv, ExecutableIsThere, Aside
  <2>5. PreviousIsKept'
    BY <1>0, <2>1, <2>2 DEF PreviousIsKept, AsideInv, Aside, Alive
  <2>6. SkipIsEarned' /\ FailedInv'
    BY <1>0, <2>1, SkipKeeps
  <2>7. LockInv' /\ EngineIsReachable'
    BY <1>0, <2>1, LockKeeps DEF Owning
  <2>8. UpdateTypeOK'
    BY <1>0, <1>2, <2>1, <2>2 DEF UpdateTypeOK, Process
  <2> QED BY <2>1, <2>3, <2>4, <2>5, <2>6, <2>7, <2>8
<1> QED BY <1>1, <1>2 DEF MoveAside

\* Nobody runs from the path of the executable while no file is there.
LEMMA NobodyAtExe ==
  ASSUME UpdateIInv, NEW p \in Procs, proc[p].pc \in {"moved", "removed"}
  PROVE  /\ exe = Nil /\ old = proc[p].v /\ old \in Versions
         /\ \A q \in Procs : Alive(q) => proc[q].at = "old" /\ proc[q].v = old
         /\ \A q \in Procs \ {p} : proc[q].pc \notin Aside
<1> USE DEF UpdateIInv, UpdateInv
<1>1. exe = Nil /\ proc[p].at = "old" /\ Alive(p)
  BY DEF AsideInv, Aside, Alive
<1>2. old = proc[p].v /\ old \in Versions
  BY <1>1 DEF FilesInv, RunsFrom
<1>3. \A q \in Procs : Alive(q) => proc[q].at = "old" /\ proc[q].v = old
  BY <1>1, Versioned DEF FilesInv, RunsFrom, Process
<1> QED BY <1>1, <1>2, <1>3 DEF AsideInv, Aside

\* The file that is aside comes back with who runs from it.
LEMMA ComesBackKeeps ==
  ASSUME UpdateIInv, NEW p \in Procs, proc[p].pc \in {"moved", "removed"}, NEW x \in {"again", "skip"},
         exe' = old, old' = Nil, proc' = [Renamed(proc, "old", "exe") EXCEPT ![p].pc = x],
         x = "skip" => proc[p].pc = "removed",
         UNCHANGED <<staged, skip, lock, info, latest, excused, lost>>
  PROVE  UpdateIInv'
<1> USE DEF UpdateIInv, UpdateInv
<1>1. /\ proc' \in [Procs -> Process] /\ proc'[p].pc = x
      /\ \A q \in Procs : /\ UNCHANGED <<proc[q].v, proc[q].upd>>
                          /\ q # p => proc'[q].pc = proc[q].pc
                          /\ proc'[q].at = IF Alive(q) /\ proc[q].at = "old" THEN "exe" ELSE proc[q].at
  BY RenamedEffect DEF Places
<1>2. FilesInv'
  BY <1>1, NobodyAtExe DEF FilesInv, Alive, RunsFrom
<1>3. AsideInv' /\ ExecutableIsThere' /\ PreviousIsKept'
  BY <1>1, NobodyAtExe, Versioned DEF AsideInv, ExecutableIsThere, PreviousIsKept, Aside
<1>4. SkipIsEarned' /\ FailedInv'
  BY <1>1 DEF SkipIsEarned, FailedInv
<1>5. LockInv' /\ EngineIsReachable'
  BY <1>1 DEF LockInv, EngineIsReachable, Serves, Owning
<1>6. UpdateTypeOK'
  BY <1>1 DEF UpdateTypeOK, Process
<1> QED BY <1>1, <1>2, <1>3, <1>4, <1>5, <1>6

LEMMA PutInPlaceKeeps ==
  ASSUME UpdateIInv, NEW p \in Procs, PutInPlace(p)
  PROVE  UpdateIInv'
<1> USE DEF UpdateIInv, UpdateInv
<1>0. proc[p].pc = "moved" /\ Alive(p) /\ UNCHANGED <<skip, lock, info, latest, excused>>
  BY DEF PutInPlace, Alive
<1>1. CASE staged # Nil /\ exe' = staged /\ staged' = Nil /\ Goes(p, "install") /\ UNCHANGED <<old, lost>>
  <2>1. /\ proc' \in [Procs -> Process] /\ proc'[p].pc = "install"
        /\ UNCHANGED <<proc[p].v, proc[p].at, proc[p].upd>>
        /\ \A q \in Procs \ {p} : proc'[q] = proc[q]
    BY <1>1, GoesEffect DEF Places
  <2>2. FilesInv'
    BY <1>0, <1>1, <2>1, NobodyAtExe DEF FilesInv, Alive, RunsFrom
  <2>3. AsideInv' /\ ExecutableIsThere' /\ PreviousIsKept'
    BY <1>0, <1>1, <2>1, NobodyAtExe DEF AsideInv, ExecutableIsThere, PreviousIsKept, Aside
  <2>4. SkipIsEarned' /\ FailedInv'
    BY <1>0, <2>1, SkipKeeps
  <2>5. LockInv' /\ EngineIsReachable'
    BY <1>0, <2>1, LockKeeps DEF Owning
  <2>6. UpdateTypeOK'
    BY <1>0, <1>1, <2>1 DEF UpdateTypeOK, Process
  <2> QED BY <2>1, <2>2, <2>3, <2>4, <2>5, <2>6
<1>2. CASE /\ exe' = old /\ old' = Nil /\ proc' = [Renamed(proc, "old", "exe") EXCEPT ![p].pc = "again"]
           /\ UNCHANGED <<staged, lost>>
  BY <1>0, <1>2, ComesBackKeeps
<1>3. CASE lost' = TRUE /\ Goes(p, "again") /\ UNCHANGED installed
  <2>1. /\ proc' \in [Procs -> Process] /\ proc'[p].pc = "again"
        /\ UNCHANGED <<proc[p].v, proc[p].at, proc[p].upd>>
        /\ \A q \in Procs \ {p} : proc'[q] = proc[q]
    BY <1>3, GoesEffect DEF Places
  <2>2. FilesInv'
    BY <1>0, <1>3, <2>1 DEF FilesInv, Alive, RunsFrom, installed
  <2>3. AsideInv' /\ ExecutableIsThere' /\ PreviousIsKept'
    BY <1>0, <1>3, <2>1, NobodyAtExe DEF AsideInv, ExecutableIsThere, PreviousIsKept, Aside, installed
  <2>4. SkipIsEarned' /\ FailedInv'
    BY <1>0, <2>1, SkipKeeps
  <2>5. LockInv' /\ EngineIsReachable'
    BY <1>0, <2>1, LockKeeps DEF Owning
  <2>6. UpdateTypeOK'
    BY <1>0, <1>3, <2>1 DEF UpdateTypeOK, Process, installed
  <2> QED BY <2>1, <2>2, <2>3, <2>4, <2>5, <2>6
<1> QED BY <1>1, <1>2, <1>3 DEF PutInPlace, installed

\* It stays aside: nothing is at the path, and the loss is known.
LEMMA BringBackKeeps ==
  ASSUME UpdateIInv, NEW p \in Procs, BringBack(p)
  PROVE  UpdateIInv'
<1> USE DEF UpdateIInv, UpdateInv
<1>0. proc[p].pc = "removed" /\ Alive(p) /\ UNCHANGED <<staged, skip, lock, info, latest, excused>>
  BY DEF BringBack, Alive
<1>1. CASE /\ exe' = old /\ old' = Nil /\ proc' = [Renamed(proc, "old", "exe") EXCEPT ![p].pc = "skip"]
           /\ UNCHANGED lost
  BY <1>0, <1>1, ComesBackKeeps
<1>2. CASE lost' = TRUE /\ Goes(p, "skip") /\ UNCHANGED <<exe, old>>
  <2>1. /\ proc' \in [Procs -> Process] /\ proc'[p].pc = "skip"
        /\ UNCHANGED <<proc[p].v, proc[p].at, proc[p].upd>>
        /\ \A q \in Procs \ {p} : proc'[q] = proc[q]
    BY <1>2, GoesEffect DEF Places
  <2>2. FilesInv'
    BY <1>0, <1>2, <2>1 DEF FilesInv, Alive, RunsFrom
  <2>3. AsideInv' /\ ExecutableIsThere' /\ PreviousIsKept'
    BY <1>0, <1>2, <2>1 DEF AsideInv, ExecutableIsThere, PreviousIsKept, Aside
  <2>4. SkipIsEarned' /\ FailedInv'
    BY <1>0, <2>1, SkipKeeps
  <2>5. LockInv' /\ EngineIsReachable'
    BY <1>0, <2>1, LockKeeps DEF Owning
  <2>6. UpdateTypeOK'
    BY <1>0, <1>2, <2>1 DEF UpdateTypeOK, Process
  <2> QED BY <2>1, <2>2, <2>3, <2>4, <2>5, <2>6
<1> QED BY <1>1, <1>2 DEF BringBack

\* A process is started from the executable by one that hands over.
LEMMA StartNewKeeps ==
  ASSUME UpdateIInv, NEW p \in Procs, StartNew(p)
  PROVE  UpdateIInv'
<1> USE DEF UpdateIInv, UpdateInv
<1>0. /\ proc[p].pc = "install" /\ Alive(p) /\ exe \in Versions
      /\ UNCHANGED <<installed, skip, lock, info, latest, lost>>
  BY DEF StartNew, Alive, AsideInv, UpdateTypeOK
<1>1. ASSUME NEW c \in Free, UNCHANGED excused,
             proc' = [proc EXCEPT ![p].pc = "wait", ![p].child = c, ![c] = Started(exe, TRUE)]
      PROVE  UpdateIInv'
  <2>0. c \in Procs /\ ~Alive(c) /\ c # p
    BY <1>0 DEF Free
  <2>1. /\ proc' \in [Procs -> Process]
        /\ proc'[p].pc = "wait" /\ UNCHANGED <<proc[p].v, proc[p].at, proc[p].upd>>
        /\ proc'[c].pc = "start" /\ proc'[c].v = exe /\ proc'[c].at = "exe"
        /\ \A q \in Procs \ {p, c} : proc'[q] = proc[q]
    <3>1. proc[p] \in Process /\ proc[c] \in Process
      BY <2>0
    <3>2. /\ Started(exe, TRUE) \in Process
          /\ Started(exe, TRUE).pc = "start" /\ Started(exe, TRUE).v = exe /\ Started(exe, TRUE).at = "exe"
      BY <1>0, StartedEffect
    <3>4. [proc[p] EXCEPT !.pc = "wait", !.child = c] \in Process
      <4>1. "wait" \in Places
        BY DEF Places
      <4> QED BY <2>0, <3>1, <4>1, ProcessWaits
    <3>5. proc' = [proc EXCEPT ![p] = [proc[p] EXCEPT !.pc = "wait", !.child = c], ![c] = Started(exe, TRUE)]
      BY <1>1, <2>0, <3>1 DEF Process
    <3>6. /\ proc'[p] = [proc[p] EXCEPT !.pc = "wait", !.child = c] /\ proc'[c] = Started(exe, TRUE)
          /\ \A q \in Procs \ {p, c} : proc'[q] = proc[q]
      BY <2>0, <3>5
    <3>7. proc' \in [Procs -> Process]
      BY <3>2, <3>4, <3>5, <2>0
    <3> QED BY <3>1, <3>2, <3>6, <3>7 DEF Process
  <2>2. FilesInv'
    BY <1>0, <2>0, <2>1 DEF FilesInv, Alive, RunsFrom, installed
  <2>3. AsideInv' /\ ExecutableIsThere' /\ PreviousIsKept'
    BY <1>0, <2>0, <2>1 DEF AsideInv, ExecutableIsThere, PreviousIsKept, Aside, installed
  <2>4. SkipIsEarned' /\ FailedInv'
    BY <1>0, <1>1, <2>0, <2>1 DEF SkipIsEarned, FailedInv
  <2>5. LockInv' /\ EngineIsReachable'
    BY <1>0, <2>0, <2>1 DEF LockInv, EngineIsReachable, Serves, Owning, Alive
  <2>6. UpdateTypeOK'
    BY <1>0, <2>1 DEF UpdateTypeOK, Process, installed
  <2> QED BY <2>1, <2>2, <2>3, <2>4, <2>5, <2>6
<1>2. CASE Goes(p, "restore") /\ excused' = excused \cup {proc[p].upd}
  <2>1. /\ proc' \in [Procs -> Process] /\ proc'[p].pc = "restore"
        /\ UNCHANGED <<proc[p].v, proc[p].at, proc[p].upd>>
        /\ \A q \in Procs \ {p} : proc'[q] = proc[q]
    BY <1>2, GoesEffect DEF Places
  <2>2. FilesInv' /\ AsideInv' /\ ExecutableIsThere' /\ PreviousIsKept'
    BY <1>0, <2>1, MoveKeeps DEF Aside
  <2>3. SkipIsEarned' /\ FailedInv'
    BY <1>0, <1>2, <2>1 DEF SkipIsEarned, FailedInv
  <2>4. LockInv' /\ EngineIsReachable'
    BY <1>0, <2>1, LockKeeps DEF Owning
  <2>5. UpdateTypeOK'
    BY <1>0, <2>1 DEF UpdateTypeOK, Process, installed
  <2> QED BY <2>1, <2>2, <2>3, <2>4, <2>5
<1> QED BY <1>1, <1>2 DEF StartNew

\* The process that handed over, or was killed, ends.
LEMMA EndsKeeps ==
  ASSUME UpdateIInv, NEW p \in Procs, TakenOver(p) \/ Die(p)
  PROVE  UpdateIInv'
<1> USE DEF UpdateIInv, UpdateInv, around, known
<1>1. /\ proc' \in [Procs -> Process] /\ proc'[p].pc = "gone"
      /\ \A q \in Procs \ {p} : proc'[q] = proc[q]
      /\ proc[p].pc \in {"wait", "dying"}
      /\ UNCHANGED <<installed, skip, info, latest, excused, lost>>
  BY EndsEffect DEF TakenOver, Die
<1>2. FilesInv' /\ AsideInv' /\ ExecutableIsThere' /\ PreviousIsKept'
  BY <1>1, MoveKeeps DEF Aside
<1>3. SkipIsEarned' /\ FailedInv'
  BY <1>1, SkipKeeps
<1>4. LockInv' /\ EngineIsReachable' /\ lock' \in {lock, Nil}
  <2>1. CASE TakenOver(p)
    <3>1. proc[p].pc = "wait" /\ UNCHANGED <<lock, info>>
      BY <2>1 DEF TakenOver
    <3> QED BY <1>1, <3>1, LockKeeps DEF Owning
  <2>2. CASE Die(p)
    <3>1. proc[p].pc = "dying" /\ lock' = IF lock = p THEN Nil ELSE lock
      BY <2>2 DEF Die
    <3> QED BY <1>1, <3>1, Versioned DEF LockInv, EngineIsReachable, Serves, Owning
  <2> QED BY <2>1, <2>2
<1>5. UpdateTypeOK'
  BY <1>1, <1>4 DEF UpdateTypeOK, Process, installed
<1> QED BY <1>1, <1>2, <1>3, <1>4, <1>5

\* The new version is killed: it is in no middle of a hand-over of its own.
LEMMA NotTakenOverKeeps ==
  ASSUME UpdateIInv, NEW p \in Procs, NotTakenOver(p)
  PROVE  UpdateIInv'
<1> USE DEF UpdateIInv, UpdateInv
<1> DEFINE c == proc[p].child
<1>1. /\ proc[p].pc = "wait" /\ Alive(p)
      /\ UNCHANGED <<installed, skip, lock, info, latest, lost>>
      /\ excused \subseteq excused' /\ proc[p].upd \in Broken \cup excused'
  BY DEF NotTakenOver, Alive
<1>2. /\ proc' \in [Procs -> Process] /\ proc'[p].pc = "restore"
      /\ \A q \in Procs : UNCHANGED <<proc[q].v, proc[q].at, proc[q].upd>>
      /\ \A q \in Procs \ {p} : proc'[q] = proc[q] \/ (Alive(q) /\ proc'[q].pc = "dying")
  <2>1. proc' = [q \in Procs |->
            IF q = p THEN [proc[p] EXCEPT !.pc = "restore", !.child = Nil]
            ELSE IF q = c /\ Alive(c) THEN [proc[c] EXCEPT !.pc = "dying"]
            ELSE proc[q]]
    BY DEF NotTakenOver
  <2>2. \A q \in Procs : /\ q = p => proc'[q] = [proc[p] EXCEPT !.pc = "restore", !.child = Nil]
                         /\ q # p /\ q = c /\ Alive(c) => proc'[q] = [proc[c] EXCEPT !.pc = "dying"]
                         /\ q # p /\ ~(q = c /\ Alive(c)) => proc'[q] = proc[q]
    BY <2>1
  <2>3. ASSUME NEW q \in Procs
        PROVE  /\ proc'[q] \in Process /\ UNCHANGED <<proc[q].v, proc[q].at, proc[q].upd>>
               /\ q = p => proc'[q].pc = "restore"
               /\ q # p => proc'[q] = proc[q] \/ (Alive(q) /\ proc'[q].pc = "dying")
    <3>1. proc[q] \in Process /\ "restore" \in Places /\ "dying" \in Places
      BY DEF Places
    <3>2. CASE q = p
      <4>1. proc'[q] = [proc[q] EXCEPT !.pc = "restore", !.child = Nil]
        BY <2>2, <3>2
      <4>2. proc'[q] \in Process
        BY <3>1, <4>1, ProcessWaits
      <4> QED BY <3>1, <3>2, <4>1, <4>2 DEF Process
    <3>3. CASE q # p /\ q = c /\ Alive(c)
      <4>1. proc'[q] = [proc[q] EXCEPT !.pc = "dying"]
        BY <2>2, <3>3
      <4>2. proc'[q] \in Process
        BY <3>1, <4>1, ProcessMoves
      <4> QED BY <3>1, <3>3, <4>1, <4>2 DEF Process
    <3>4. CASE q # p /\ ~(q = c /\ Alive(c))
      BY <2>2, <3>1, <3>4
    <3> QED BY <3>2, <3>3, <3>4
  <2> QED BY <2>1, <2>3
<1>3. FilesInv'
  BY <1>1, <1>2 DEF FilesInv, Alive, RunsFrom, installed
<1>4. AsideInv' /\ ExecutableIsThere' /\ PreviousIsKept'
  <2>1. \A q \in Procs \ {p} : proc[q].pc \notin Aside
    BY <1>1 DEF AsideInv, Aside
  <2> QED BY <1>1, <1>2, <2>1 DEF AsideInv, ExecutableIsThere, PreviousIsKept, Aside, installed
<1>5. SkipIsEarned' /\ FailedInv'
  BY <1>1, <1>2 DEF SkipIsEarned, FailedInv
<1>6. LockInv' /\ EngineIsReachable'
  BY <1>1, <1>2 DEF LockInv, EngineIsReachable, Serves, Owning
<1>7. UpdateTypeOK'
  BY <1>1, <1>2 DEF UpdateTypeOK, Process, installed
<1> QED BY <1>2, <1>3, <1>4, <1>5, <1>6, <1>7

\* The new version is removed when nobody runs it, or stays; the failure is recorded.
LEMMA RemoveNewKeeps ==
  ASSUME UpdateIInv, NEW p \in Procs, RemoveNew(p) \/ RecordSkip(p)
  PROVE  UpdateIInv'
<1> USE DEF UpdateIInv, UpdateInv, around, known
<1>1. /\ proc' \in [Procs -> Process] /\ \A q \in Procs \ {p} : proc'[q] = proc[q]
      /\ UNCHANGED <<proc[p].v, proc[p].at, proc[p].upd>>
      /\ proc[p].pc \in {"restore", "skip"} /\ proc'[p].pc \in {"removed", "skip", "again"}
      /\ UNCHANGED <<old, staged, lock, info, latest, excused, lost>>
  BY GoesEffect DEF RemoveNew, RecordSkip, Places, installed
<1>2. LockInv' /\ EngineIsReachable'
  BY <1>1, LockKeeps DEF Owning
<1>3. CASE RemoveNew(p) /\ ~InUse("exe") /\ exe' = Nil /\ Goes(p, "removed")
  <2>1. proc'[p].pc = "removed" /\ exe' = Nil /\ skip' = skip /\ proc[p].pc = "restore"
    BY <1>3, GoesEffect DEF RemoveNew, Places
  <2>2. \A q \in Procs : Alive(q) => proc[q].at = "old"
    BY <1>3 DEF InUse, Process
  <2>3. FilesInv'
    BY <1>1, <2>1, <2>2 DEF FilesInv, Alive, RunsFrom
  <2>4. AsideInv' /\ ExecutableIsThere' /\ PreviousIsKept'
    BY <1>1, <2>1 DEF AsideInv, ExecutableIsThere, PreviousIsKept, Aside
  <2>5. SkipIsEarned' /\ FailedInv'
    BY <1>1, <2>1, SkipKeeps
  <2>6. UpdateTypeOK'
    BY <1>1, <2>1 DEF UpdateTypeOK, Process
  <2> QED BY <1>1, <1>2, <2>3, <2>4, <2>5, <2>6
<1>4. CASE (RemoveNew(p) /\ Goes(p, "skip") /\ UNCHANGED exe) \/ RecordSkip(p)
  <2>1. exe' = exe /\ proc'[p].pc \in {"skip", "again"}
    BY <1>4, GoesEffect DEF RemoveNew, RecordSkip, Places, installed
  <2>2. FilesInv' /\ AsideInv' /\ ExecutableIsThere' /\ PreviousIsKept'
    BY <1>1, <2>1, MoveKeeps DEF Aside, Alive, installed
  <2>3. skip' \in {skip, proc[p].upd} /\ (skip' # skip => proc[p].pc = "skip")
    BY <1>4 DEF RemoveNew, RecordSkip
  <2>4. SkipIsEarned' /\ FailedInv'
    BY <1>1, <1>4, <2>1, <2>3 DEF SkipIsEarned, FailedInv, RemoveNew
  <2>5. UpdateTypeOK'
    BY <1>1, <2>1, <2>3 DEF UpdateTypeOK, Process
  <2> QED BY <1>1, <1>2, <2>2, <2>4, <2>5
<1> QED BY <1>3, <1>4 DEF RemoveNew

LEMMA RestartSelfKeeps ==
  ASSUME UpdateIInv, NEW p \in Procs, RestartSelf(p)
  PROVE  UpdateIInv'
<1> USE DEF UpdateIInv, UpdateInv, around, known
<1>0. proc[p].pc = "again" /\ Alive(p) /\ UNCHANGED <<installed, skip, lock, info, latest, excused, lost>>
  BY DEF RestartSelf, Alive
<1>1. CASE Ends(p)
  <2>1. /\ proc' \in [Procs -> Process] /\ proc'[p].pc = "gone"
        /\ \A q \in Procs \ {p} : proc'[q] = proc[q]
    BY <1>1, EndsEffect
  <2>2. FilesInv' /\ AsideInv' /\ ExecutableIsThere' /\ PreviousIsKept'
    BY <1>0, <2>1, MoveKeeps DEF Aside
  <2>3. SkipIsEarned' /\ FailedInv'
    BY <1>0, <2>1, SkipKeeps
  <2>4. LockInv' /\ EngineIsReachable'
    BY <1>0, <2>1, LockKeeps DEF Owning
  <2>5. UpdateTypeOK'
    BY <1>0, <2>1 DEF UpdateTypeOK, Process, installed
  <2> QED BY <2>1, <2>2, <2>3, <2>4, <2>5
<1>2. ASSUME NEW c \in Free, exe # Nil, proc' = [proc EXCEPT ![p] = NoProcess, ![c] = Started(exe, TRUE)]
      PROVE  UpdateIInv'
  <2>0. c \in Procs /\ ~Alive(c) /\ c # p /\ exe \in Versions
    BY <1>0, <1>2 DEF Free, UpdateTypeOK
  <2>1. /\ proc' \in [Procs -> Process] /\ proc'[p].pc = "gone"
        /\ proc'[c].pc = "start" /\ proc'[c].v = exe /\ proc'[c].at = "exe"
        /\ \A q \in Procs \ {p, c} : proc'[q] = proc[q]
    BY <1>2, <2>0 DEF Started, NoProcess, Process, Places
  <2>2. FilesInv'
    BY <1>0, <2>0, <2>1 DEF FilesInv, Alive, RunsFrom, installed
  <2>3. AsideInv' /\ ExecutableIsThere' /\ PreviousIsKept'
    <3>1. AsideInv'
      BY <1>0, <2>0, <2>1 DEF AsideInv, Aside, installed
    <3>2. ExecutableIsThere'
      BY <1>0, <1>2, <2>1 DEF ExecutableIsThere, installed
    <3>3. PreviousIsKept'
      BY <1>0, <2>0, <2>1 DEF PreviousIsKept, installed
    <3> QED BY <3>1, <3>2, <3>3
  <2>4. SkipIsEarned' /\ FailedInv'
    BY <1>0, <2>0, <2>1 DEF SkipIsEarned, FailedInv
  <2>5. LockInv' /\ EngineIsReachable'
    BY <1>0, <2>0, <2>1 DEF LockInv, EngineIsReachable, Serves, Owning, Alive
  <2>6. UpdateTypeOK'
    BY <1>0, <2>1 DEF UpdateTypeOK, Process, installed
  <2> QED BY <2>1, <2>2, <2>3, <2>4, <2>5, <2>6
<1> QED BY <1>1, <1>2 DEF RestartSelf

\* A process that is stopped loses the executable at most where it is on its way.
LEMMA StopKeeps ==
  ASSUME UpdateIInv, NEW p \in Procs, Stop(p)
  PROVE  UpdateIInv'
<1> USE DEF UpdateIInv, UpdateInv
<1>1. /\ proc' \in [Procs -> Process] /\ proc'[p].pc = "gone"
      /\ \A q \in Procs \ {p} : proc'[q] = proc[q]
      /\ UNCHANGED <<installed, skip, info, latest, excused>>
      /\ lost' = (lost \/ proc[p].pc \in {"moved", "removed"})
      /\ lock' = IF lock = p THEN Nil ELSE lock
  BY EndsEffect DEF Stop
<1>2. FilesInv' /\ AsideInv' /\ ExecutableIsThere' /\ PreviousIsKept'
  BY <1>1 DEF FilesInv, Alive, RunsFrom, AsideInv, ExecutableIsThere, PreviousIsKept, Aside, installed
<1>3. SkipIsEarned' /\ FailedInv'
  BY <1>1, SkipKeeps
<1>4. LockInv' /\ EngineIsReachable'
  BY <1>1, Versioned DEF LockInv, EngineIsReachable, Serves, Owning
<1>5. UpdateTypeOK'
  BY <1>1 DEF UpdateTypeOK, Process, installed
<1> QED BY <1>1, <1>2, <1>3, <1>4, <1>5

LEMMA OutsideKeeps ==
  ASSUME UpdateIInv, Release \/ UNCHANGED updateVars
  PROVE  UpdateIInv'
<1>1. UNCHANGED <<exe, old, staged, skip, lock, info, proc, excused, lost>>
  BY DEF Release, updateVars, installed, around, known
<1>2. latest' \in Versions
  BY UpdateAssumption DEF Release, updateVars, around, known, UpdateIInv, UpdateInv, UpdateTypeOK, Versions
<1>3. UpdateTypeOK'
  BY <1>1, <1>2 DEF UpdateIInv, UpdateInv, UpdateTypeOK
<1> QED BY <1>1, <1>3 DEF UpdateIInv, UpdateInv, FilesInv, Alive, RunsFrom, AsideInv, LockInv, FailedInv,
                          ExecutableIsThere, PreviousIsKept, SkipIsEarned, EngineIsReachable, Serves

LEMMA UpdateStep == UpdateIInv /\ [UpdateNext]_updateVars => UpdateIInv'
<1> SUFFICES ASSUME UpdateIInv, [UpdateNext]_updateVars PROVE UpdateIInv'
  OBVIOUS
<1>1. ASSUME NEW p \in Procs, Step(p) PROVE UpdateIInv'
  BY <1>1, StartupKeeps, QuitKeeps, MoveAsideKeeps, PutInPlaceKeeps, StartNewKeeps, EndsKeeps,
     NotTakenOverKeeps, RemoveNewKeeps, BringBackKeeps, RestartSelfKeeps DEF Step
<1>2. ASSUME NEW p \in Procs, Launch(p) \/ Quit(p) \/ Check(p) \/ Probe(p) \/ Install(p) \/ Stop(p)
      PROVE  UpdateIInv'
  BY <1>2, LaunchKeeps, QuitKeeps, CheckKeeps, ProbeKeeps, StopKeeps
<1> QED BY <1>1, <1>2, OutsideKeeps DEF UpdateNext

LEMMA UpdateStarts == UpdateInit => UpdateIInv
<1> SUFFICES ASSUME UpdateInit PROVE UpdateIInv
  OBVIOUS
<1>1. proc \in [Procs -> Process] /\ \A p \in Procs : proc[p].pc = "gone"
  BY DEF UpdateInit, NoProcess, Process, Places
<1>2. UpdateTypeOK
  BY <1>1, Versioned DEF UpdateInit, UpdateTypeOK, Process
<1>3. UpdateInv
  BY <1>1, <1>2, Versioned DEF UpdateInit, UpdateInv, ExecutableIsThere, PreviousIsKept, SkipIsEarned,
                              EngineIsReachable, Serves
<1>4. FilesInv /\ AsideInv /\ LockInv /\ FailedInv
  BY <1>1, Versioned DEF UpdateInit, FilesInv, Alive, AsideInv, Aside, LockInv, Owning, FailedInv
<1> QED BY <1>1, <1>3, <1>4 DEF UpdateIInv

\* The inductive invariant of an installation: who runs from which file, who is in the
\* middle of a hand-over, and who holds the lock.
THEOREM UpdateIsSound == UpdateSpec => []UpdateIInv
BY UpdateStarts, UpdateStep, PTL DEF UpdateSpec

\* The executable is at its path but in the middle of a hand-over, the previous one can
\* come back as long as the new one may fail, a skipped version earned it, and the
\* engine that runs is the one others find: for any number of processes and versions.
THEOREM UpdateHolds == UpdateSpec => []UpdateInv
<1>1. UpdateIInv => UpdateInv
  BY DEF UpdateIInv
<1> QED BY <1>1, UpdateIsSound, PTL
==============================================================================
