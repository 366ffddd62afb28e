---------------------------- MODULE DocumentWatch ----------------------------
(***************************************************************************)
(* One document followed by the watcher of the desktop application         *)
(* (desktop/internal/watch): the scan that compares it with its baseline,  *)
(* the requests that mark it as reviewed, the explanations of the model,   *)
(* and what each of them leaves on disk.                                   *)
(*                                                                         *)
(* The watcher holds its lock only to copy a document or to put one back.  *)
(* The scan works on a copy, an approval on a snapshot, and both write the *)
(* baseline and the pending copy outside of the lock; the process may stop *)
(* between any two of these steps.                                         *)
(*                                                                         *)
(* The content of a document is an element of Contents.  A hash stands for *)
(* the bytes read: two exports of one version of a converted document may  *)
(* differ, so its bytes carry a second component.                          *)
(***************************************************************************)
EXTENDS Naturals, Sequences, FiniteSets

CONSTANTS
    Contents,      \* what the document may contain
    Large,         \* the contents above the size limit
    Kinds,         \* the sources explored: "folder", "uploaded", "exported"
    Requests,      \* the approvals that may be under way together
    Keys,          \* what a change may be: its kind, what was there before and after
    Changes,       \* the changes a report lists, in the order of the document
    Truncated,     \* the reports that do not list all of them
    None,          \* no document, no hash, no report, no file, no content
    MaxSaves,      \* bound: versions of the document
    MaxExports,    \* bound: versions of a converted document
    MaxReviews,    \* bound: reviews recorded
    MaxEvents      \* bound: failures, stops, settings changed, questions, in all

VARIABLES
    kind,       \* the source of the document
    saved,      \* its versions, None where it was deleted; the last is current
    online,     \* a folder file kept in the cloud only
    settings,   \* [watched, download]: the configured source
    mem,        \* the document in memory
    disk,       \* the document in state.json
    baseFile,   \* baselines/<id>
    pendFile,   \* baselines/<id>.next, the copy an export was analyzed from
    hist,       \* the reviews, in memory
    histDisk,   \* the reviews in reviewed.json
    scan,       \* the scan under way
    req,        \* the approvals under way
    page,       \* the version each person has on screen, {} if none
    ask,        \* the explanation under way, and what was tried
    late,       \* snapshots of the state still being written in the background
    described,  \* contents a report was made of
    reviewed,   \* contents first found or kept by the source as the reference, or
                \* approved once a report had described them
    clash,      \* the ways in which an approval and an analysis overwrote each other
    events      \* how many of them happened

vars == <<kind, saved, online, settings, mem, disk, baseFile, pendFile, hist, histDisk,
          scan, req, page, ask, late, described, reviewed, clash, events>>
files == <<baseFile, pendFile>>
world == <<kind, saved, online, settings>>
ghosts == <<described, reviewed, clash>>

Content == Contents \cup {None}
Bytes == Contents \X {0, 1}
Hash == Bytes \cup {None}
\* A report compares two contents; one whose baseline is lost has no origin.
Report == [from : Content, to : Contents]
\* The report it was asked for, and the one shown when it was stored.
Explanation == [of : Report, on : Report, outdated : BOOLEAN]
Status == {"new", "clean", "changed", "removed", "cloud-only", "too-large", "error"}
Document == [st : Status, stamp : Nat, base : Hash, rev : Nat, cur : Hash,
             rep : Report \cup {None}, expl : Explanation \cup {None}]
MaybeDocument == Document \cup {None}

ASSUME WatchAssumption == None \notin Contents \cup Bytes \cup Report \cup Document

\* A lost baseline leaves nothing to list.
ASSUME ChangesAssumption ==
    /\ Changes \in [Report -> Seq(Keys)] /\ Truncated \subseteq Report
    /\ \A c \in Contents : Changes[[from |-> None, to |-> c]] = <<>>

NewDocument == [st |-> "new", stamp |-> 0, base |-> None, rev |-> 0,
                cur |-> None, rep |-> None, expl |-> None]

Now == Len(saved)
Present == saved[Now] # None
Exported == kind = "exported"
KeepsVersions == kind # "folder"
\* What reading a content returns: a conversion may differ from one to the next.
BytesOf(c) == {c} \X (IF Exported THEN {0, 1} ELSE {0})

HasBaseline(d) == d.base # None \/ d.rev # 0
NeedsReview(d) == d.st \in {"changed", "removed"}

\* One of the events whose number is bounded happens.
Event == events < MaxEvents /\ events' = events + 1

------------------------------------------------------------------------------
(* The outcomes of an analysis: the document a scan puts back.              *)

\* Mutant of Stamped: the time is taken when the analysis ends.
StampedLate(d, e) == [d EXCEPT !.stamp = Now]

Stamped(d, e) == [d EXCEPT !.stamp = e.stamp]

\* Size and time are left as they were, so that the next scan retries.
Failed(d) == [d EXCEPT !.st = "error"]

TooLarge(d, e) == [Stamped(d, e) EXCEPT !.st = "too-large"]

CloudOnly(d, e) == [Stamped(d, e) EXCEPT !.st = "cloud-only"]

Clean(d, e, h) == [Stamped(d, e) EXCEPT !.st = "clean", !.cur = h, !.rep = None, !.expl = None]

\* The source keeps the versions: the reference is remembered, not downloaded.
ByRevision(d, e) == [Clean(d, e, None) EXCEPT !.rev = e.stamp]

\* Mutant of LostBaseline: the hash of what was read is not recorded.
LostBaselineNoHash(d, e, h) ==
    [Stamped(d, e) EXCEPT !.st = "changed", !.rep = [from |-> None, to |-> h[1]], !.expl = None]

LostBaseline(d, e, h) ==
    [Stamped(d, e) EXCEPT !.st = "changed", !.cur = h,
        !.rep = [from |-> None, to |-> h[1]], !.expl = None]

\* Mutant of Touched: the status is left as it was.
TouchedQuietly(d, e) == Stamped(d, e)

Touched(d, e) == [Stamped(d, e) EXCEPT !.st = "changed"]

\* Mutant of CarryExplanation: an explanation is kept as it is.
KeepExplanation(x, prev, next) == IF prev = None THEN None ELSE x

KeysOf(report) == {Changes[report][i] : i \in DOMAIN Changes[report]}

\* As many changes, among which each earlier one occurs, wherever and however often.
StillHolds(prev, next) ==
    /\ {prev, next} \cap Truncated = {}
    /\ KeysOf(prev) \subseteq KeysOf(next)
    /\ Len(Changes[prev]) = Len(Changes[next])

\* An explanation that still holds is kept as it is; another one is kept as outdated,
\* without what it said of the elements modified again.
CarryExplanation(x, prev, next) ==
    IF x = None \/ prev = None THEN None
    ELSE IF StillHolds(prev, next) THEN x
    ELSE [x EXCEPT !.outdated = TRUE]

Changed(d, e, h, report) ==
    [Stamped(d, e) EXCEPT !.st = "changed", !.cur = h, !.rep = report,
        !.expl = CarryExplanation(d.expl, d.rep, report)]

Gone(d) == [d EXCEPT !.st = "removed", !.rep = None, !.expl = None]

Approved(d, h) ==
    [d EXCEPT !.base = h, !.rev = 0, !.st = "clean", !.rep = None, !.expl = None]

------------------------------------------------------------------------------
(* The initial state: a watched source, nothing known.                      *)

Idle == [pc |-> "idle"]

Init ==
    /\ kind \in Kinds
    /\ saved \in {<<c>> : c \in Contents \ Large}
    /\ online \in {b \in BOOLEAN : b => kind = "folder"}
    /\ settings = [watched |-> TRUE, download |-> FALSE]
    /\ mem = None /\ disk = None
    /\ baseFile = None /\ pendFile = None
    /\ hist = <<>> /\ histDisk = <<>>
    /\ scan = Idle
    /\ req = [r \in Requests |-> Idle]
    /\ page = [r \in Requests |-> {}]
    /\ ask = [pc |-> "idle", tried |-> None]
    /\ late = {}
    /\ described = {}
    /\ reviewed = {}
    /\ clash = {}
    /\ events = 0

------------------------------------------------------------------------------
(* The world: the document is edited, deleted, restored; settings change.   *)

Save(c) ==
    /\ Now < IF Exported THEN MaxExports ELSE MaxSaves
    /\ (c = None) => Present
    /\ saved' = Append(saved, c)
    /\ UNCHANGED <<kind, online, settings, mem, disk, files, hist, histDisk, scan,
                   req, page, ask, late, ghosts, events>>

Download ==
    /\ online
    /\ online' = FALSE
    /\ UNCHANGED <<kind, saved, settings, mem, disk, files, hist, histDisk, scan,
                   req, page, ask, late, ghosts, events>>

ChangeSettings ==
    /\ Event
    /\ \E w, d \in BOOLEAN :
        settings' = [watched |-> w, download |-> d]
    /\ UNCHANGED <<kind, saved, online, mem, disk, files, hist, histDisk, scan,
                   req, page, ask, late, ghosts>>

------------------------------------------------------------------------------
(* Scan.  One at a time; the settings are read once.  The listing yields    *)
(* the document, or not, or fails, and the analysis of a document reads it  *)
(* later than it was listed.                                                *)

Listed == [stamp |-> Now, cloud |-> online]

ScanList ==
    /\ scan.pc = "idle"
    /\ scan' = [pc |-> IF settings.watched /\ Present THEN "process" ELSE "end",
                e |-> Listed, cfg |-> settings, completed |-> settings.watched,
                seen |-> settings.watched /\ Present, d |-> NewDocument, data |-> None]
    /\ UNCHANGED <<world, mem, disk, files, hist, histDisk, req, page, ask, late,
                   ghosts, events>>

\* The source is unavailable: an incomplete listing removes nothing.
ScanUnavailable ==
    /\ scan.pc = "idle" /\ settings.watched
    /\ Event
    /\ scan' = [pc |-> "end", e |-> Listed, cfg |-> settings, completed |-> FALSE,
                seen |-> FALSE, d |-> NewDocument, data |-> None]
    /\ UNCHANGED <<world, mem, disk, files, hist, histDisk, req, page, ask, late,
                   ghosts>>

ScanStep(pc, d, data) == scan' = [scan EXCEPT !.pc = pc, !.d = d, !.data = data]
Commit(d) == ScanStep("commit", d, None)

SameVersion(d, e) == d.stamp = e.stamp

\* The copy is taken under the lock; some outcomes need no reading.
ProcessBegin ==
    /\ scan.pc = "process"
    /\ LET e == scan.e
           d == IF mem = None THEN NewDocument ELSE mem
           known == mem # None /\ SameVersion(mem, e) /\ mem.st \notin {"error", "removed"}
           kept  == ~known /\ ~HasBaseline(d) /\ KeepsVersions
       IN  /\ IF known THEN ScanStep("end", NewDocument, None)
              ELSE IF kept THEN Commit(ByRevision(d, e))
              ELSE IF ~HasBaseline(d) /\ e.cloud /\ ~scan.cfg.download THEN Commit(CloudOnly(d, e))
              ELSE IF ~Exported /\ saved[e.stamp] \in Large THEN Commit(TooLarge(d, e))
              ELSE ScanStep("read", d, None)
           /\ reviewed' = IF kept THEN reviewed \cup {saved[e.stamp]} ELSE reviewed
    /\ UNCHANGED <<world, mem, disk, files, hist, histDisk, req, page, ask, late,
                   described, clash, events>>

\* The content read may be newer than the listing, too large by now, or gone.
ProcessRead ==
    /\ scan.pc = "read"
    /\ online' = FALSE
    /\ IF ~Present THEN Commit(Failed(scan.d))
       ELSE IF saved[Now] \in Large THEN Commit(TooLarge(scan.d, scan.e))
       ELSE \E data \in BytesOf(saved[Now]) :
                ScanStep(IF scan.d.base = None /\ scan.d.rev # 0 THEN "revision" ELSE "compare",
                         scan.d, data)
    /\ UNCHANGED <<kind, saved, settings, mem, disk, files, hist, histDisk, req,
                   page, ask, late, ghosts, events>>

\* A read or a write of the analysis fails.
ProcessFault ==
    /\ scan.pc \in {"read", "revision", "compare"}
    /\ Event
    /\ Commit(Failed(scan.d))
    /\ UNCHANGED <<world, mem, disk, files, hist, histDisk, req, page, ask, late,
                   ghosts>>

\* What the source returns for a version it was asked for: the version, or for
\* a converted document an earlier one it was merged into.
Revisions(rev) ==
    {saved[r] : r \in IF Exported THEN 1..rev ELSE {rev}} \ {None}

ProcessRevision ==
    /\ scan.pc = "revision"
    /\ \E c \in Revisions(scan.d.rev) :
        IF c \in Large
        THEN /\ Commit(TooLarge(scan.d, scan.e))
             /\ UNCHANGED <<files, reviewed>>
        ELSE \E base \in BytesOf(c) :
                /\ baseFile' = base
                /\ reviewed' = reviewed \cup {c}
                /\ ScanStep("compare", [scan.d EXCEPT !.base = base, !.rev = 0], scan.data)
                /\ UNCHANGED pendFile
    /\ UNCHANGED <<world, mem, disk, hist, histDisk, req, page, ask, late, described,
                   clash, events>>

\* The source no longer keeps the reviewed version: all of it is to be read.
ProcessRevisionGone ==
    /\ scan.pc = "revision"
    /\ Commit(LostBaseline(scan.d, scan.e, scan.data))
    /\ pendFile' = IF Exported THEN scan.data ELSE pendFile
    /\ described' = described \cup {scan.data[1]}
    /\ UNCHANGED <<world, mem, disk, baseFile, hist, histDisk, req, page, ask, late,
                   reviewed, clash, events>>

FirstBaseline(d, e, h) ==
    /\ d.base = None
    /\ baseFile' = h
    /\ reviewed' = reviewed \cup {h[1]}
    /\ Commit([Clean(d, e, h) EXCEPT !.base = h])
    /\ UNCHANGED <<pendFile, described>>

BackToBaseline(d, e, h) ==
    /\ d.base = h
    /\ Commit(Clean(d, e, h))
    /\ pendFile' = None
    /\ UNCHANGED <<baseFile, described, reviewed>>

SameAsReported(d, e, h) ==
    /\ d.base \notin {None, h} /\ h = d.cur /\ d.rep # None
    /\ Commit(Touched(d, e))
    /\ UNCHANGED <<files, described, reviewed>>

Compare(d, e, h) ==
    /\ d.base \notin {None, h} /\ ~(h = d.cur /\ d.rep # None)
    /\ IF baseFile = None THEN Commit(Failed(d)) /\ UNCHANGED <<pendFile, described>>
       ELSE IF Exported /\ baseFile[1] = h[1]
            THEN Commit(Clean(d, e, h)) /\ pendFile' = None /\ UNCHANGED described
            ELSE /\ Commit(Changed(d, e, h, [from |-> baseFile[1], to |-> h[1]]))
                 /\ pendFile' = IF Exported THEN h ELSE pendFile
                 /\ described' = described \cup {h[1]}
    /\ UNCHANGED <<baseFile, reviewed>>

ProcessCompare ==
    /\ scan.pc = "compare"
    /\ \/ FirstBaseline(scan.d, scan.e, scan.data)
       \/ BackToBaseline(scan.d, scan.e, scan.data)
       \/ SameAsReported(scan.d, scan.e, scan.data)
       \/ Compare(scan.d, scan.e, scan.data)
    /\ UNCHANGED <<world, mem, disk, hist, histDisk, req, page, ask, late, clash,
                   events>>

ProcessCommit ==
    /\ scan.pc = "commit"
    /\ mem' = scan.d
    /\ scan' = [scan EXCEPT !.pc = "end", !.d = NewDocument]
    /\ UNCHANGED <<world, disk, files, hist, histDisk, req, page, ask, late, ghosts, events>>

\* The end of the scan: an unwatched document is forgotten with its copies and
\* its reviews, one that a complete listing did not see was removed.
ScanEnd ==
    /\ scan.pc = "end"
    /\ LET forget == ~scan.cfg.watched
           lost == scan.completed /\ ~scan.seen /\ mem # None
           next == IF mem = None \/ forget THEN None
                   ELSE IF lost /\ mem.st # "removed"
                        THEN IF HasBaseline(mem) THEN Gone(mem) ELSE None
                        ELSE mem
       IN  /\ mem' = next
           /\ baseFile' = IF forget /\ mem # None THEN None ELSE baseFile
           /\ pendFile' = IF forget /\ mem # None THEN None ELSE pendFile
           /\ hist' = IF forget THEN <<>> ELSE hist
           /\ scan' = [pc |-> "save", d |-> next, prune |-> forget /\ hist # <<>>]
    /\ UNCHANGED <<world, disk, histDisk, req, page, ask, late, ghosts, events>>

ScanSave ==
    /\ scan.pc = "save"
    /\ disk' = scan.d
    /\ histDisk' = IF scan.prune THEN hist ELSE histDisk
    /\ scan' = Idle
    /\ UNCHANGED <<world, mem, files, hist, req, page, ask, late, ghosts, events>>

ScanWork ==
    \/ ScanList \/ ProcessBegin \/ ProcessRead \/ ProcessRevision \/ ProcessRevisionGone
    \/ ProcessCompare \/ ProcessCommit \/ ScanEnd \/ ScanSave

------------------------------------------------------------------------------
(* Approval.  A person opens a document to review; the request that marks   *)
(* it as reviewed names the document and nothing else.                      *)

Look(r) ==
    /\ mem # None /\ NeedsReview(mem)
    /\ page' = [page EXCEPT ![r] = {mem.cur}]
    /\ UNCHANGED <<world, mem, disk, files, hist, histDisk, scan, req, ask, late,
                   ghosts, events>>

Recorded(d) == <<[st |-> d.st, rep |-> d.rep, cur |-> d.cur]>> \o hist

AcceptBegin(r) ==
    /\ req[r].pc = "idle" /\ page[r] # {}
    /\ mem # None /\ mem.st # "removed" /\ mem.cur # None
    /\ settings.watched /\ Len(hist) < MaxReviews
    /\ req' = [req EXCEPT ![r] = [pc |-> "read", d |-> mem, data |-> None, seen |-> page[r]]]
    /\ UNCHANGED <<world, mem, disk, files, hist, histDisk, scan, page, ask, late,
                   ghosts, events>>

\* A deletion is acknowledged: the copies are deleted after the lock is left.
AcceptRemoved(r) ==
    /\ req[r].pc = "idle" /\ page[r] # {}
    /\ mem # None /\ mem.st = "removed"
    /\ Len(hist) < MaxReviews
    /\ hist' = Recorded(mem)
    /\ mem' = None
    /\ req' = [req EXCEPT ![r] = [pc |-> "copies"]]
    /\ UNCHANGED <<world, disk, files, histDisk, scan, page, ask, late, ghosts, events>>

RemoveCopies(r) ==
    /\ req[r].pc = "copies"
    /\ baseFile' = None /\ pendFile' = None
    /\ clash' = IF baseFile # None /\ (mem # None \/ scan.pc = "commit")
                THEN clash \cup {"analysis"} ELSE clash
    /\ req' = [req EXCEPT ![r] = [pc |-> "history"]]
    /\ UNCHANGED <<world, mem, disk, hist, histDisk, scan, page, ask, late, described,
                   reviewed, events>>

\* Mutant of Matches: what is read again is not compared.
MatchesAnything(data, d) == TRUE

\* The bytes read again are those that were analyzed.
Matches(data, d) == data = d.cur

\* A document kept by its source is read again and must have the hash of the
\* snapshot; of a converted one the version is checked and the analyzed copy read.
AcceptRead(r) ==
    /\ req[r].pc = "read"
    /\ LET d == req[r].d
           refuse == req' = [req EXCEPT ![r] = Idle]
           check(data) == IF Matches(data, d)
                          THEN req' = [req EXCEPT ![r] = [@ EXCEPT !.pc = "write", !.data = data]]
                          ELSE refuse
       IN  IF ~Present \/ (Exported /\ d.stamp # Now)
           THEN refuse /\ UNCHANGED <<mem, online>>
           ELSE IF Exported
           THEN /\ IF pendFile = None THEN refuse ELSE check(pendFile)
                /\ mem' = IF pendFile = None /\ mem # None THEN Failed(mem) ELSE mem
                /\ UNCHANGED online
           ELSE /\ IF saved[Now] \in Large THEN refuse
                   ELSE \E data \in BytesOf(saved[Now]) : check(data)
                /\ online' = FALSE
                /\ UNCHANGED mem
    /\ UNCHANGED <<kind, saved, settings, disk, files, hist, histDisk, scan, page, ask,
                   late, ghosts, events>>

AcceptFault(r) ==
    /\ req[r].pc \in {"read", "write"}
    /\ Event
    /\ req' = [req EXCEPT ![r] = Idle]
    /\ UNCHANGED <<world, mem, disk, files, hist, histDisk, scan, page, ask, late,
                   ghosts>>

AcceptWrite(r) ==
    /\ req[r].pc = "write"
    /\ baseFile' = req[r].data
    /\ reviewed' = reviewed \cup ({req[r].data[1]} \cap described)
    /\ req' = [req EXCEPT ![r] = [@ EXCEPT !.pc = "pending"]]
    /\ UNCHANGED <<world, mem, disk, pendFile, hist, histDisk, scan, page, ask, late,
                   described, clash, events>>

AcceptPending(r) ==
    /\ req[r].pc = "pending"
    /\ pendFile' = None
    /\ req' = [req EXCEPT ![r] = [@ EXCEPT !.pc = "commit"]]
    /\ UNCHANGED <<world, mem, disk, baseFile, hist, histDisk, scan, page, ask, late,
                   ghosts, events>>

\* Whether a scan holds a copy of the document that it will put back.
ScanHoldsCopy == scan.pc \in {"read", "revision", "compare", "commit"}

\* An approval ends on a document that an analysis holds or that is gone, on a later
\* analysis than its own, or on one whose last version could not be analyzed.
Clashes(h) ==
    (IF ScanHoldsCopy \/ mem = None THEN {"analysis"} ELSE {})
    \cup (IF mem # None /\ mem.cur # h THEN {"approval"} ELSE {})
    \cup (IF mem # None THEN {mem.st} \cap {"too-large", "error"} ELSE {})

\* The document found at the end may be a later analysis than the snapshot.
AcceptCommit(r) ==
    /\ req[r].pc = "commit"
    /\ LET h == req[r].d.cur IN
        /\ IF mem = None THEN UNCHANGED <<mem, hist>>
           ELSE /\ mem' = Approved(mem, h)
                /\ hist' = IF mem.cur = h THEN Recorded(mem) ELSE hist
        /\ clash' = clash \cup Clashes(h)
    /\ req' = [req EXCEPT ![r] = [pc |-> "history"]]
    /\ UNCHANGED <<world, disk, files, histDisk, scan, page, ask, late, described,
                   reviewed, events>>

AcceptHistory(r) ==
    /\ req[r].pc = "history"
    /\ histDisk' = hist
    /\ req' = [req EXCEPT ![r] = [pc |-> "save", d |-> mem]]
    /\ UNCHANGED <<world, mem, disk, files, hist, scan, page, ask, late, ghosts, events>>

AcceptSave(r) ==
    /\ req[r].pc = "save"
    /\ disk' = req[r].d
    /\ req' = [req EXCEPT ![r] = Idle]
    /\ UNCHANGED <<world, mem, files, hist, histDisk, scan, page, ask, late, ghosts, events>>

AcceptWork(r) ==
    \/ RemoveCopies(r) \/ AcceptRead(r) \/ AcceptWrite(r) \/ AcceptPending(r)
    \/ AcceptCommit(r) \/ AcceptHistory(r) \/ AcceptSave(r)

------------------------------------------------------------------------------
(* Explanation.  The worker takes a changed document that has none for its  *)
(* version and was not tried for it; a person may ask at any time.  The     *)
(* answer comes back with the hash the question was about.                  *)

NeedsExplanation(d) ==
    /\ d.st = "changed" /\ d.rep # None
    /\ d.expl # None => d.expl.outdated

Ask(auto) ==
    /\ ask.pc = "idle" /\ Event
    /\ mem # None /\ mem.rep # None
    /\ ~auto \/ (NeedsExplanation(mem) /\ ask.tried # mem.cur)
    /\ ask' = [pc |-> "asked", tried |-> IF auto THEN mem.cur ELSE ask.tried, cur |-> mem.cur, rep |-> mem.rep]
    /\ UNCHANGED <<world, mem, disk, files, hist, histDisk, scan, req, page, late,
                   ghosts>>

AskDone == ask' = [pc |-> "idle", tried |-> ask.tried]

SetExplanation ==
    /\ ask.pc = "asked"
    /\ IF mem = None \/ mem.cur # ask.cur \/ mem.rep = None
       THEN UNCHANGED <<mem, late>>
       ELSE /\ mem' = [mem EXCEPT !.expl = [of |-> ask.rep, on |-> mem.rep, outdated |-> FALSE]]
            /\ late' = late \cup {mem'}
    /\ AskDone
    /\ UNCHANGED <<world, disk, files, hist, histDisk, scan, req, page, ghosts, events>>

AskFails ==
    /\ ask.pc = "asked"
    /\ AskDone
    /\ UNCHANGED <<world, mem, disk, files, hist, histDisk, scan, req, page, late,
                   ghosts, events>>

LateSave ==
    /\ \E d \in late : disk' = d /\ late' = late \ {d}
    /\ UNCHANGED <<world, mem, files, hist, histDisk, scan, req, page, ask, ghosts, events>>

------------------------------------------------------------------------------
(* The application stops and starts again from what it saved.               *)

Restart ==
    /\ Event
    /\ mem' = disk /\ hist' = histDisk
    /\ scan' = Idle /\ req' = [r \in Requests |-> Idle]
    /\ ask' = [pc |-> "idle", tried |-> None]
    /\ late' = {}
    /\ UNCHANGED <<world, disk, files, histDisk, page, ghosts>>

Next ==
    \/ \E c \in Content : Save(c)
    \/ Download
    \/ ChangeSettings
    \/ ScanWork \/ ScanUnavailable \/ ProcessFault
    \/ \E r \in Requests :
        Look(r) \/ AcceptBegin(r) \/ AcceptRemoved(r) \/ AcceptWork(r) \/ AcceptFault(r)
    \/ \E auto \in BOOLEAN : Ask(auto)
    \/ SetExplanation \/ AskFails \/ LateSave
    \/ Restart

Spec == Init /\ [][Next]_vars

\* The loop scans at its interval and a request runs to its end; nobody has to
\* edit, look, approve or ask, and the model need not answer.
Fairness == WF_vars(ScanWork) /\ \A r \in Requests : WF_vars(AcceptWork(r))

FairSpec == Spec /\ Fairness

------------------------------------------------------------------------------
(* Properties.                                                              *)

\* A report describes the bytes whose hash is recorded, a changed document has one, a
\* clean one has none; the reference is a file or a version, and only a document with
\* one is analyzed or missed.
WellFormed(d) ==
    /\ d.rep # None => d.cur # None /\ d.rep.to = d.cur[1]
    /\ d.st = "changed" => d.rep # None
    /\ d.st = "clean" => d.rep = None /\ HasBaseline(d)
    /\ d.cur # None \/ d.st = "removed" => HasBaseline(d)
    /\ d.st \in {"new", "cloud-only"} => ~HasBaseline(d)
    /\ ~(d.base # None /\ d.rev # 0)

\* The reference was reviewed, what was last analyzed was reviewed or described.
OfKnownContent(d) ==
    /\ d.base # None => d.base[1] \in reviewed
    /\ d.cur # None => d.cur[1] \in described \cup reviewed

\* The versions recorded were seen; a document was removed after the one recorded.
OfItsVersion(d) ==
    /\ d.stamp <= Now /\ d.rev <= Now
    /\ d.stamp # 0 => saved[d.stamp] # None
    /\ d.st = "removed" => d.stamp < Now

\* An approval ended on another analysis than the one it started from.
Overtaken == clash \cap {"approval", "too-large", "error"} # {}

\* Otherwise what is recorded with the current version is of its content, and was
\* reviewed when the document is clean.
OfItsContent(d) ==
    d.stamp = Now /\ ~Overtaken =>
        /\ d.st \in {"clean", "changed"} /\ d.cur # None => d.cur[1] = saved[Now]
        /\ d.st = "clean" => saved[Now] \in reviewed

\* An explanation was stored with a report of the content it is about, and the reports
\* since then carried it over.
ExplainsItsVersion(d) ==
    d.expl # None =>
        /\ d.rep # None
        /\ ~d.expl.outdated =>
              /\ d.expl.of.to = d.expl.on.to
              /\ d.expl.on = d.rep \/ StillHolds(d.expl.on, d.rep)

Sound(d) ==
    /\ WellFormed(d) /\ ExplainsItsVersion(d)
    /\ OfKnownContent(d) /\ OfItsVersion(d) /\ OfItsContent(d)

Review == [st : Status, rep : Report \cup {None}, cur : Hash]
ScanState ==
    [pc : {"idle"}]
    \cup [pc : {"process", "read", "revision", "compare", "commit", "end"},
          e : [stamp : Nat, cloud : BOOLEAN], cfg : [watched : BOOLEAN, download : BOOLEAN],
          completed : BOOLEAN, seen : BOOLEAN, d : Document, data : Hash]
    \cup [pc : {"save"}, d : MaybeDocument, prune : BOOLEAN]
ApprovalState ==
    [pc : {"idle", "copies", "history"}]
    \cup [pc : {"read", "write", "pending", "commit"}, d : Document, data : Hash, seen : SUBSET Hash]
    \cup [pc : {"save"}, d : MaybeDocument]
QuestionState ==
    [pc : {"idle"}, tried : Hash] \cup [pc : {"asked"}, tried : Hash, cur : Hash, rep : Report]

TypeOK ==
    /\ kind \in Kinds /\ online \in BOOLEAN
    /\ saved \in Seq(Content) /\ Now >= 1
    /\ settings \in [watched : BOOLEAN, download : BOOLEAN]
    /\ {mem, disk} \subseteq MaybeDocument /\ late \subseteq Document
    /\ {baseFile, pendFile} \subseteq Hash
    /\ {hist, histDisk} \subseteq Seq(Review)
    /\ scan \in ScanState /\ req \in [Requests -> ApprovalState] /\ ask \in QuestionState
    /\ page \in [Requests -> SUBSET Hash]
    /\ described \subseteq Contents /\ reviewed \subseteq Contents
    /\ clash \subseteq {"analysis", "approval", "too-large", "error"}

\* What lies in the baseline file was the version first found, the one the source
\* returned for the remembered revision, or was approved after a report had described
\* it: no edit, no overlap and no stop puts unseen bytes there.
BaselineIsReviewed == baseFile # None => baseFile[1] \in reviewed

\* The document in memory, in state.json, and in the hands of a scan, of an approval or
\* of a save.
Copies ==
    {mem, disk} \cup late
    \cup (IF scan.pc = "idle" THEN {} ELSE {scan.d})
    \cup {req[r].d : r \in {q \in Requests :
                req[q].pc \in {"read", "write", "pending", "commit", "save"}}}

CopiesAreSound == \A d \in Copies : d # None => Sound(d)

\* The scan analyzes a version that was listed, from what it read since; a document
\* that a complete listing does not have was recorded with an earlier version.
ScanInv ==
    /\ scan.pc \in {"process", "read", "revision", "compare", "commit"} =>
            scan.seen /\ scan.e.stamp \in 1..Now /\ saved[scan.e.stamp] # None
    /\ scan.pc \in {"revision", "compare"} =>
            scan.data # None /\ (scan.e.stamp = Now => scan.data[1] = saved[Now])
    /\ scan.pc = "revision" => scan.d.base = None /\ scan.d.rev # 0
    /\ scan.pc = "compare" => scan.d.base # None \/ scan.d.rev = 0
    /\ scan.pc = "end" /\ scan.completed /\ ~scan.seen /\ mem # None => mem.stamp < Now

\* An approval writes the bytes that were analyzed.
ApprovalInv ==
    \A r \in Requests :
        /\ req[r].pc \in {"read", "write", "pending", "commit"} => req[r].d.cur # None
        /\ req[r].pc \in {"write", "pending", "commit"} => req[r].data = req[r].d.cur
        /\ req[r].pc \in {"pending", "commit"} => req[r].data[1] \in reviewed

\* A review of a change comes with the report of the bytes approved.
HistoryInv ==
    \A h \in {hist, histDisk} : \A i \in DOMAIN h :
        h[i].st = "changed" => h[i].rep # None /\ h[i].rep.to = h[i].cur[1]

\* A question is about the bytes of its report.
QuestionInv == ask.pc = "asked" => ask.cur # None /\ ask.rep.to = ask.cur[1]

\* The document is of one piece wherever a copy of it is, the reviews kept are of
\* what was approved, and unseen bytes never become the baseline: the inductive
\* invariant of the watcher.
WatchInv ==
    /\ TypeOK /\ BaselineIsReviewed /\ CopiesAreSound
    /\ ScanInv /\ ApprovalInv /\ HistoryInv /\ QuestionInv

ShownClean == mem # None /\ mem.st = "clean" /\ Present /\ mem.stamp = Now

\* A change is not forgotten: the content of a document shown clean, whose current
\* version was analyzed, was first found or approved.
ChangeIsKept == ShownClean => saved[Now] \in reviewed

\* The same, unless an approval put its document over another analysis.
ChangeIsKeptWithoutClash == Overtaken \/ ChangeIsKept

BaselineContents(d) ==
    (IF d.base # None THEN {d.base[1]} ELSE {saved[d.rev]})
    \cup (IF baseFile # None THEN {baseFile[1]} ELSE {})

Different(report) ==
    \A i, j \in DOMAIN Changes[report] : Changes[report][i] = Changes[report][j] => i = j

\* An explanation that is not marked outdated ("it does not cover the newest changes")
\* is of the changes shown: however late its answer came, it was stored for the content
\* it is about, and whatever was saved, scanned, approved and restored since, the report
\* shown has the changes of the report it was stored with.  A report in which one change
\* occurs twice is excused: another change in the place of one of them is not noticed.
ExplanationIsOfTheseChanges ==
    mem # None /\ mem.expl # None /\ ~mem.expl.outdated =>
        LET stored == mem.expl.on IN
        /\ mem.expl.of.to = stored.to
        /\ Different(stored) => KeysOf(mem.rep) = KeysOf(stored) /\ Different(mem.rep)

\* Nobody approves unseen content: the version an approval puts in the baseline is
\* the one the person had on screen.
NobodyApprovesUnseen ==
    \A r \in Requests : req[r].pc \in {"write", "pending", "commit"} =>
        req[r].data \in req[r].seen

Settled ==
    IF ~settings.watched THEN mem = None
    ELSE IF ~Present THEN mem = None \/ mem.st = "removed"
    ELSE /\ mem # None
         /\ mem.st = "clean" => saved[Now] \in BaselineContents(mem) \/ mem.rev # 0
         /\ mem.st = "changed" => mem.rep.to = saved[Now]
         /\ mem.st # "removed"
         /\ mem.st = "error" => baseFile = None
         /\ mem.st = "too-large" => saved[Now] \in Large \/ (mem.rev # 0 /\ saved[mem.rev] \in Large)

\* Whatever happened, its state comes back to telling the truth: changed
\* with a report of its content, removed, too large, or clean with the content of
\* its baseline; an error that stays is a missing baseline.
TruthIsShown == []<>(clash \ {"error"} # {} \/ Settled)

=============================================================================
