----------------------------- MODULE RecordIndex -----------------------------
(***************************************************************************)
(* The file store's index of the analysis records of one repository        *)
(* (hub/internal/store/history.go): one artifact file per commit and       *)
(* variant, an in-memory index, a checkpoint of it (.runs-index) written   *)
(* every CheckpointWrites records, and a retention watermark               *)
(* (.runs-watermark) that says how much of the history was evicted.        *)
(*                                                                         *)
(* The index lock serializes the operations of a repository, so one        *)
(* operation is in progress at a time; it takes one step per change of the *)
(* disk, since the process may stop, or the disk refuse a write, between   *)
(* any two.  A file is replaced by a rename, so one step is atomic.        *)
(*                                                                         *)
(* Left out: the content of a record, legacy records that are still        *)
(* pending or undated, read errors of a checkpoint that exists, and power   *)
(* failures that undo completed renames.                                   *)
(***************************************************************************)
EXTENDS Naturals, FiniteSets

CONSTANTS
    Names,             \* record names: a commit and a variant
    Plans,             \* the names of variant "plan"
    Times,             \* instants, 1..n
    MaxRecords,        \* artifacts kept per repository
    MaxRecent,         \* runs of the projection a dashboard reads
    CheckpointWrites,  \* artifact writes between two checkpoints
    None,              \* no such file, no record
    MaxPuts,           \* bound: records stored
    MaxFailures,       \* bound: disk operations that fail
    MaxCrashes         \* bound: restarts

ASSUME IndexAssumption ==
    /\ Plans \subseteq Names
    /\ IsFiniteSet(Names)
    /\ Times \subseteq Nat \ {0}
    /\ MaxRecords \in Nat \ {0}
    /\ MaxRecent \in Nat \ {0}
    /\ CheckpointWrites \in Nat \ {0}
    /\ MaxPuts \in Nat /\ MaxFailures \in Nat /\ MaxCrashes \in Nat

\* A run: when it was enqueued, and its last activity (activityAt).
Runs == {r \in [name : Names, queued : Times, at : Times] : r.queued <= r.at}

\* The fields an index, a checkpoint and a watermark share: the latest activity
\* of an evicted run (0 when there is none), and whether it is unknown.
Indexes == [runs : SUBSET Runs, through : Times \cup {0}, incomplete : BOOLEAN]
Checkpoints == [version : {1, 2}, index : Indexes]
Watermarks == [through : Times \cup {0}, incomplete : BOOLEAN]

\* No file and no record is none of the files and records.
ASSUME NoneAssumption == None \notin Runs \cup Checkpoints \cup Watermarks

EmptyIndex == [runs |-> {}, through |-> 0, incomplete |-> FALSE]

VARIABLES
    artifacts,   \* disk: the record files
    junk,        \* disk: some entry of the directory is not a valid record
    checkpoint,  \* disk: .runs-index
    watermark,   \* disk: .runs-watermark
    dirty,       \* disk: .runs-dirty, the legacy recovery marker
    mem,         \* memory: recordIndex.diskIndex
    loaded,      \* memory: recordIndex.loaded
    pending,     \* memory: recordIndex.pending
    pc,          \* the next step of the operation that has the lock
    req,         \* the run to store, None for a reader
    todo,        \* evicted runs whose artifacts are still to be removed
    stored,      \* the last run written for each name: what a reader may miss
    faults       \* records stored, failures and restarts so far

disk   == <<artifacts, junk, checkpoint, watermark, dirty>>
memory == <<mem, loaded, pending>>
op     == <<pc, req, todo>>
vars   == <<disk, memory, op, stored, faults>>

Places == {"idle", "load", "scan", "mark", "put", "write", "prune", "delete", "save", "clean"}
Counters == {"put", "fail", "crash"}

\* A directory of an earlier release may be found at the first start: a version
\* 1 checkpoint holds the only watermark, and may be marked dirty (with an
\* artifact the checkpoint misses).
Fresh ==
    /\ artifacts = {} /\ checkpoint = None /\ dirty = FALSE /\ junk = FALSE
    /\ stored = [n \in Names |-> None]

LegacyOf(r, evicted) ==
    /\ r.name # evicted.name /\ evicted.queued < r.queued
    /\ artifacts = {r}
    /\ dirty \in BOOLEAN /\ junk \in BOOLEAN
    /\ checkpoint = [version |-> 1, index |->
          [runs |-> IF dirty THEN {} ELSE {r}, through |-> evicted.at, incomplete |-> FALSE]]
    /\ stored = [n \in Names |-> IF n = r.name THEN r
                                 ELSE IF n = evicted.name THEN evicted ELSE None]

Legacy == \E r, evicted \in Runs : LegacyOf(r, evicted)

Init ==
    /\ Fresh \/ Legacy
    /\ watermark = None
    /\ mem = EmptyIndex /\ loaded = FALSE /\ pending = 0
    /\ pc = "idle" /\ req = None /\ todo = {}
    /\ faults = [f \in Counters |-> 0]

Later(a, b) == IF a >= b THEN a ELSE b

\* evict: a plan leaves the watermark alone.
EvictedThrough(runs, through) ==
    LET seen == {through} \cup {r.at : r \in {r \in runs : r.name \notin Plans}}
    IN  CHOOSE t \in seen : \A u \in seen : u <= t

\* Mutant of Newest: the order is reversed.
Oldest(runs) ==
    {kept \in SUBSET runs :
        /\ Cardinality(kept) = MaxRecords
        /\ \A k \in kept, e \in runs \ kept : k.queued <= e.queued}

\* The MaxRecords newest runs by enqueue time.
Newest(runs) ==
    {kept \in SUBSET runs :
        /\ Cardinality(kept) = MaxRecords
        /\ \A k \in kept, e \in runs \ kept : k.queued >= e.queued}

\* What the operation does once the index is loaded.
Proceed == IF req = None THEN "idle" ELSE "put"

-----------------------------------------------------------------------------
(* The beginning of an operation: PutRecord, or History and Recent.          *)

\* Enqueue times differ, and the runner enqueues one analysis of a commit at a
\* time, each later than the one before.
BeginPut(r) ==
    /\ pc = "idle"
    /\ faults["put"] < MaxPuts
    /\ \A n \in Names : stored[n] # None =>
          IF n = r.name THEN stored[n].queued < r.queued ELSE stored[n].queued # r.queued
    /\ req' = r
    /\ pc' = IF loaded THEN "put" ELSE "load"
    /\ faults' = [faults EXCEPT !["put"] = @ + 1]
    /\ UNCHANGED <<disk, memory, todo, stored>>

BeginRead ==
    /\ pc = "idle"
    /\ req' = None
    /\ pc' = IF loaded THEN "idle" ELSE "load"
    /\ UNCHANGED <<disk, memory, todo, stored, faults>>

-----------------------------------------------------------------------------
(* load.                                                                     *)

\* The checkpoint is used: load may skip the scan.
Trusted ==
    /\ ~dirty /\ checkpoint # None
    /\ Cardinality(checkpoint.index.runs) <= MaxRecords

\* Mutant of LoadCheckpoint: the recovery marker is ignored.
LoadDirtyCheckpoint ==
    /\ pc = "load"
    /\ checkpoint # None
    /\ mem' = checkpoint.index
    /\ loaded' = TRUE
    /\ pc' = Proceed
    /\ UNCHANGED <<disk, pending, req, todo, stored, faults>>

\* A valid checkpoint is taken as it is; a version 1 checkpoint first leaves
\* its watermark in a file of its own.
LoadCheckpoint ==
    /\ pc = "load"
    /\ Trusted
    /\ watermark' = IF checkpoint.version = 1
                    THEN [through |-> checkpoint.index.through,
                          incomplete |-> checkpoint.index.incomplete]
                    ELSE watermark
    /\ mem' = checkpoint.index
    /\ loaded' = TRUE
    /\ pc' = Proceed
    /\ UNCHANGED <<artifacts, junk, checkpoint, dirty, pending, req, todo, stored, faults>>

\* No directory: there is nothing to rebuild.  A directory without a file may
\* be there all the same, after an invalidation, and is scanned.
LoadNothing ==
    /\ pc = "load"
    /\ artifacts = {} /\ ~junk /\ checkpoint = None /\ watermark = None /\ ~dirty
    /\ mem' = EmptyIndex
    /\ loaded' = TRUE
    /\ pc' = Proceed
    /\ UNCHANGED <<disk, pending, req, todo, stored, faults>>

\* Otherwise the index is rebuilt from the artifacts and the watermarks found.
StartScan ==
    LET old  == IF checkpoint = None THEN EmptyIndex ELSE checkpoint.index
        mark == IF watermark = None THEN [through |-> 0, incomplete |-> FALSE] ELSE watermark
        found == [through    |-> Later(old.through, mark.through),
                  incomplete |-> old.incomplete \/ mark.incomplete]
    IN
    /\ pc = "load"
    /\ ~Trusted
    /\ mem' = [runs |-> {}, through |-> found.through, incomplete |-> found.incomplete]
    /\ watermark' = IF checkpoint # None /\ checkpoint.version = 1 THEN found ELSE watermark
    /\ pc' = "scan"
    /\ UNCHANGED <<artifacts, junk, checkpoint, dirty, loaded, pending, req, todo, stored, faults>>

\* The old checkpoint is removed before anything else changes.
Scan ==
    /\ pc = "scan"
    /\ checkpoint' = None
    /\ mem' = [mem EXCEPT !.runs = artifacts, !.incomplete = @ \/ junk]
    /\ pc' = "mark"
    /\ UNCHANGED <<artifacts, junk, watermark, dirty, loaded, pending, req, todo, stored, faults>>

MarkIncomplete ==
    /\ pc = "mark"
    /\ watermark' = IF Cardinality(mem.runs) <= MaxRecords /\ mem.incomplete
                    THEN [through |-> mem.through, incomplete |-> TRUE]
                    ELSE watermark
    /\ pc' = "prune"
    /\ UNCHANGED <<artifacts, junk, checkpoint, dirty, memory, req, todo, stored, faults>>

-----------------------------------------------------------------------------
(* PutRecord.                                                                *)

\* Mutant of Invalidate: the old checkpoint outlives the first write.
InvalidateLater ==
    /\ pc = "put"
    /\ checkpoint' = IF pending = 1 THEN None ELSE checkpoint
    /\ pc' = "write"
    /\ UNCHANGED <<artifacts, junk, watermark, dirty, memory, req, todo, stored, faults>>

Invalidate ==
    /\ pc = "put"
    /\ checkpoint' = IF pending = 0 THEN None ELSE checkpoint
    /\ pc' = "write"
    /\ UNCHANGED <<artifacts, junk, watermark, dirty, memory, req, todo, stored, faults>>

Replace(runs, r) == {x \in runs : x.name # r.name} \cup {r}

WriteArtifact ==
    /\ pc = "write"
    /\ artifacts' = Replace(artifacts, req)
    /\ stored' = [stored EXCEPT ![req.name] = req]
    /\ mem' = [mem EXCEPT !.runs = Replace(@, req)]
    /\ pending' = pending + 1
    /\ pc' = "prune"
    /\ UNCHANGED <<junk, checkpoint, watermark, dirty, loaded, req, todo, faults>>

-----------------------------------------------------------------------------
(* prune and save, which end a load and a PutRecord.                         *)

\* After a prune: a load always checkpoints, a PutRecord when it is due.
Pruned == IF ~loaded \/ pending >= CheckpointWrites THEN "save" ELSE "idle"

\* Mutants of Prune: one record too many is kept, and the watermark is kept in
\* memory only.
PruneOneMore ==
    /\ pc = "prune"
    /\ Cardinality(mem.runs) <= MaxRecords + 1
    /\ pc' = Pruned
    /\ UNCHANGED <<disk, memory, req, todo, stored, faults>>

PruneUnmarked ==
    /\ pc = "prune"
    /\ \/ /\ Cardinality(mem.runs) <= MaxRecords
          /\ pc' = Pruned
          /\ UNCHANGED <<mem, todo>>
       \/ \E kept \in Newest(mem.runs) :
             /\ Cardinality(mem.runs) > MaxRecords
             /\ mem' = [mem EXCEPT !.through = EvictedThrough(mem.runs \ kept, @)]
             /\ todo' = mem.runs \ kept
             /\ pc' = "delete"
    /\ UNCHANGED <<disk, loaded, pending, req, stored, faults>>

\* The watermark is stored before the first removal.
Prune ==
    /\ pc = "prune"
    /\ \/ /\ Cardinality(mem.runs) <= MaxRecords
          /\ pc' = Pruned
          /\ UNCHANGED <<watermark, mem, todo>>
       \/ \E kept \in Newest(mem.runs) :
             LET through == EvictedThrough(mem.runs \ kept, mem.through) IN
             /\ Cardinality(mem.runs) > MaxRecords
             /\ mem' = [mem EXCEPT !.through = through]
             /\ watermark' = [through |-> through, incomplete |-> mem.incomplete]
             /\ todo' = mem.runs \ kept
             /\ pc' = "delete"
    /\ UNCHANGED <<artifacts, junk, checkpoint, dirty, loaded, pending, req, stored, faults>>

Delete ==
    /\ pc = "delete"
    /\ \E e \in todo :
          /\ \E a \in artifacts : a.name = e.name
          /\ artifacts' = {a \in artifacts : a.name # e.name}
    /\ UNCHANGED <<junk, checkpoint, watermark, dirty, memory, op, stored, faults>>

Deleted ==
    /\ pc = "delete"
    /\ \A e \in todo, a \in artifacts : a.name # e.name
    /\ mem' = [mem EXCEPT !.runs = @ \ todo]
    /\ todo' = {}
    /\ pc' = Pruned
    /\ UNCHANGED <<disk, loaded, pending, req, stored, faults>>

Save ==
    /\ pc = "save"
    /\ checkpoint' = [version |-> 2, index |-> mem]
    /\ pending' = 0
    /\ pc' = "clean"
    /\ UNCHANGED <<artifacts, junk, watermark, dirty, mem, loaded, req, todo, stored, faults>>

\* The legacy marker goes last; only then is a rebuilt index in use.
Clean ==
    /\ pc = "clean"
    /\ dirty' = FALSE
    /\ loaded' = TRUE
    /\ pc' = IF loaded THEN "idle" ELSE Proceed
    /\ UNCHANGED <<artifacts, junk, checkpoint, watermark, mem, pending, req, todo, stored, faults>>

-----------------------------------------------------------------------------
(* Faults.                                                                   *)

\* The steps that need the disk; load always reads it.
OnDisk ==
    /\ pc # "idle"
    /\ pc = "put" => pending = 0
    /\ pc = "mark" => Cardinality(mem.runs) <= MaxRecords /\ mem.incomplete
    /\ pc = "prune" => Cardinality(mem.runs) > MaxRecords

\* A disk operation fails: the caller gets the error.  An invalidation may have
\* removed the checkpoint before the directory could not be synced, and a prune
\* that cannot store the watermark has advanced the one in memory.
Fails ==
    /\ OnDisk
    /\ faults["fail"] < MaxFailures
    /\ faults' = [faults EXCEPT !["fail"] = @ + 1]
    /\ checkpoint' \in IF pc \in {"put", "scan"} THEN {checkpoint, None} ELSE {checkpoint}
    /\ IF pc = "prune"
       THEN \E kept \in Newest(mem.runs) :
               mem' = [mem EXCEPT !.through = EvictedThrough(mem.runs \ kept, @)]
       ELSE UNCHANGED mem
    /\ pc' = "idle"
    /\ todo' = {}
    /\ UNCHANGED <<artifacts, junk, watermark, dirty, loaded, pending, req, stored>>

Crash ==
    /\ faults["crash"] < MaxCrashes
    /\ faults' = [faults EXCEPT !["crash"] = @ + 1]
    /\ mem' = EmptyIndex /\ loaded' = FALSE /\ pending' = 0
    /\ pc' = "idle" /\ req' = None /\ todo' = {}
    /\ UNCHANGED <<disk, stored>>

Next ==
    \/ \E r \in Runs : BeginPut(r)
    \/ BeginRead
    \/ LoadCheckpoint \/ LoadNothing \/ StartScan \/ Scan \/ MarkIncomplete
    \/ Invalidate \/ WriteArtifact \/ Prune \/ Delete \/ Deleted \/ Save \/ Clean
    \/ Fails \/ Crash

Spec == Init /\ [][Next]_vars

-----------------------------------------------------------------------------
(* Recent: the runs of the window that starts at since, newest first, at     *)
(* most MaxRecent of them, and whether some of the window may be missing.    *)

Normal(runs) == {r \in runs : r.name \notin Plans}

InWindow(since) == {r \in Normal(mem.runs) : r.at >= since}

\* The results Recent may give; runs of equal activity come in some order.
Recent(since) ==
    LET window == InWindow(since)
        cut == mem.incomplete \/ (mem.through # 0 /\ mem.through >= since)
    IN  IF Cardinality(window) <= MaxRecent
        THEN {[runs |-> window, incomplete |-> cut]}
        ELSE {[runs |-> part, incomplete |-> TRUE] :
                part \in {p \in SUBSET window :
                            /\ Cardinality(p) = MaxRecent
                            /\ \A x \in p, y \in window \ p : x.at >= y.at}}

-----------------------------------------------------------------------------
(* Correctness.                                                              *)

TypeOK ==
    /\ artifacts \subseteq Runs /\ junk \in BOOLEAN /\ dirty \in BOOLEAN
    /\ checkpoint \in Checkpoints \cup {None}
    /\ watermark \in Watermarks \cup {None}
    /\ mem \in Indexes /\ loaded \in BOOLEAN /\ pending \in Nat
    /\ pc \in Places /\ req \in Runs \cup {None} /\ todo \subseteq Runs
    /\ stored \in [Names -> Runs \cup {None}]
    /\ faults \in [Counters -> Nat]

\* "Recovery uses artifacts plus the independent eviction watermark, never a
\* stale snapshot": a checkpoint a restart would trust lists exactly the
\* artifacts, whatever failed or stopped half way before.
CheckpointIsFresh ==
    checkpoint # None /\ ~dirty => checkpoint.index.runs = artifacts

\* Every artifact a reader could open is in the history of a loaded index.
HistoryIsComplete == loaded => artifacts \subseteq mem.runs

\* The answer of Recent is honest: a normal run ever stored whose activity
\* falls in the window is in the answer, or the answer says it is incomplete,
\* across evictions, failed writes, restarts and legacy directories.
RecentIsHonest ==
    loaded /\ pc = "idle" =>
        \A since \in Times : \A answer \in Recent(since) :
            answer.incomplete \/
            \A n \in Names \ Plans :
                stored[n] # None /\ stored[n].at >= since => stored[n] \in answer.runs

\* A checkpoint never holds more than the records the directory may keep, so a
\* restart never refuses it for its size.
CheckpointIsBounded ==
    checkpoint # None => Cardinality(checkpoint.index.runs) <= MaxRecords

\* The types, a checkpoint that is fresh and bounded whenever a restart would read it
\* back, and a history that forgets no artifact, across failed writes, restarts and
\* legacy directories.
IndexInv == TypeOK /\ CheckpointIsFresh /\ CheckpointIsBounded /\ HistoryIsComplete

\* Retention removes a record only while MaxRecords newer ones are there (a
\* write replaces the record of the same commit).
EvictsOldest ==
    [][\A r \in artifacts \ artifacts' :
          \/ \E s \in artifacts' : s.name = r.name
          \/ Cardinality({s \in artifacts' : s.queued >= r.queued}) >= MaxRecords]_vars
=============================================================================
