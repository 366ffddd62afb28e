------------------------------- MODULE HubProofs -------------------------------
(***************************************************************************)
(* Proofs about two components of the hub that keep files consistent: the  *)
(* index of the file store, for any names, plans, retention and number of  *)
(* writes, failures and restarts (IndexInv, RecentIsHonest, EvictsOldest), *)
(* and the monitoring of a repository, however many requests and syncs     *)
(* overlap.  Neither reads the state of the other one.                     *)
(***************************************************************************)
EXTENDS RecordIndex, RepoMonitor, TLAPS, FiniteSetTheorems, WellFoundedInduction

(***************************************************************************)
(* The record index (hub/internal/store/history.go).  The argument has     *)
(* three parts.  The index in memory and the directory differ only by runs *)
(* that a removal that failed half way left in memory; MaxRecords newer    *)
(* ones are there for each, so the next prune takes them out again.  A     *)
(* checkpoint is on disk only while nothing changes the directory.  And    *)
(* whatever was removed, each of the places a restart may read (the        *)
(* checkpoint, the watermark) says so on its own.                          *)
(***************************************************************************)

(* The inductive invariant.                                                  *)

\* The steps after a scan has begun: mem has the watermark.
Loading == {"scan", "mark", "prune", "delete", "save", "clean"}

\* The index in memory describes the directory.
InUse == loaded \/ pc \in Loading \ {"scan"}

\* The run to store is not written yet.
Unwritten == req # None /\ pc # "idle" /\ (~loaded \/ pc \in {"put", "write"})

\* Where an operation is, and the checkpoint it left on disk.
StageInv ==
    /\ pc \in {"load", "scan", "mark"} => ~loaded
    /\ pc \in {"put", "write"} => loaded /\ req # None
    /\ loaded => ~dirty
    /\ pending > 0 \/ pc \in {"mark", "write", "prune", "delete", "save"} => checkpoint = None
    /\ pc = "clean" => checkpoint = [version |-> 2, index |-> mem]

\* r is none of the runs of the others, and later than the one of its own name.
Storable(r) ==
    \A n \in Names : stored[n] # None =>
        IF n = r.name THEN stored[n].queued < r.queued ELSE stored[n].queued # r.queued

\* A directory holds of each name the last run written, or nothing.
StoredInv ==
    /\ \A n \in Names : stored[n] # None => stored[n].name = n
    /\ \A m, n \in Names :
          stored[m] # None /\ stored[n] # None /\ stored[m].queued = stored[n].queued => m = n
    /\ \A a \in artifacts : stored[a.name] = a
    /\ IsFiniteSet(artifacts)
    /\ Unwritten => Storable(req)

Newer(x, runs) == {s \in runs : s.queued > x.queued}

\* Memory misses no artifact, and what only memory has is too old to be kept.
HistoryInv ==
    InUse =>
        /\ artifacts \subseteq mem.runs
        /\ IsFiniteSet(mem.runs)
        /\ \A x \in mem.runs : stored[x.name] = x
        /\ \A x \in mem.runs \ artifacts : Cardinality(Newer(x, mem.runs)) >= MaxRecords

\* A prune under way, and its result.
PruneInv ==
    /\ pc \in {"save", "clean"} => mem.runs = artifacts /\ Cardinality(mem.runs) <= MaxRecords
    /\ pc = "delete" =>
          /\ todo \subseteq mem.runs
          /\ mem.runs \ todo \subseteq artifacts
          /\ Cardinality(mem.runs \ todo) = MaxRecords
          /\ \A k \in mem.runs \ todo, e \in todo : k.queued > e.queued
          /\ \A e \in todo : e.name \notin Plans => e.at <= mem.through
          /\ watermark = [through |-> mem.through, incomplete |-> mem.incomplete]

\* w tells of every normal run that was removed from the directory.
Tells(w, last, directory) ==
    \A n \in Names \ Plans :
        last[n] # None /\ last[n] \notin directory => w.incomplete \/ last[n].at <= w.through

Covers(w) == Tells(w, stored, artifacts)

Mark == IF watermark = None THEN [through |-> 0, incomplete |-> FALSE] ELSE watermark

\* Memory, the checkpoint and the watermark each tell of every removal; a version 1
\* checkpoint holds the watermark until it is loaded.
EvictionInv ==
    /\ loaded \/ pc \in Loading => Covers(mem)
    /\ checkpoint # None => Covers(checkpoint.index)
    /\ \/ Covers(Mark)
       \/ /\ ~loaded /\ pc \in {"idle", "load"}
          /\ checkpoint # None /\ checkpoint.version = 1

RecordInv == IndexInv /\ StageInv /\ StoredInv /\ HistoryInv /\ PruneInv /\ EvictionInv

-----------------------------------------------------------------------------
(* The operators.                                                            *)

\* A finite set of runs has one whose activity is the latest: a least set without
\* one would have a smaller one.
LEMMA LatestRun ==
    ASSUME NEW S, IsFiniteSet(S), S # {}, \A s \in S : s.at \in Nat
    PROVE  \E s \in S : \A u \in S : u.at <= s.at
<1> DEFINE Bad == {R \in SUBSET S : R # {} /\ ~(\E m \in R : \A u \in R : u.at <= m.at)}
<1>1. SUFFICES ASSUME Bad # {} PROVE FALSE
  OBVIOUS
<1>2. IsWellFoundedOn(StrictSubsetOrdering(S), SUBSET S)
  BY FS_StrictSubsetOrderingWellFounded, FS_FiniteSubsetsOfFinite
<1>3. PICK R \in Bad : \A Q \in Bad : ~(<<Q, R>> \in StrictSubsetOrdering(S))
  <2> HIDE DEF Bad
  <2>1. Bad \subseteq SUBSET S
    BY DEF Bad
  <2> QED BY <1>1, <1>2, <2>1, WFMin
<1>4. R \in SUBSET S /\ R # {} /\ ~(\E m \in R : \A u \in R : u.at <= m.at)
  BY <1>3
<1>5. PICK s \in R : TRUE
  BY <1>4
<1>6. R \ {s} \notin Bad
  <2>1. <<R \ {s}, R>> \in StrictSubsetOrdering(S)
    BY <1>4, <1>5 DEF StrictSubsetOrdering
  <2> QED BY <1>3, <2>1
<1>7. R \ {s} \in SUBSET S
  BY <1>4
<1>8. CASE R \ {s} = {}
  BY <1>4, <1>5, <1>8
<1>9. CASE R \ {s} # {}
  <2>1. PICK m \in R \ {s} : \A u \in R \ {s} : u.at <= m.at
    BY <1>6, <1>7, <1>9
  <2>2. CASE s.at <= m.at
    BY <1>4, <2>1, <2>2
  <2>3. CASE ~(s.at <= m.at)
    <3>1. \A u \in R : u.at <= s.at
      BY <1>4, <1>5, <2>1, <2>3
    <3> QED BY <1>4, <1>5, <3>1
  <2> QED BY <2>2, <2>3
<1> QED BY <1>8, <1>9

\* evict never takes the watermark back, and passes every normal run it removes.
LEMMA EvictedThroughBounds ==
    ASSUME NEW runs \in SUBSET Runs, IsFiniteSet(runs), NEW through \in Times \cup {0}
    PROVE  /\ EvictedThrough(runs, through) \in Times \cup {0}
           /\ through <= EvictedThrough(runs, through)
           /\ \A r \in runs : r.name \notin Plans => r.at <= EvictedThrough(runs, through)
<1> DEFINE normal == {r \in runs : r.name \notin Plans}
           seen == {through} \cup {r.at : r \in normal}
<1>0. \A u : u \in seen <=> u = through \/ \E r \in normal : u = r.at
  OBVIOUS
<1>1. \A r \in normal : r.at \in Times
  BY DEF Runs
<1>2. through \in Nat /\ \A r \in normal : r.at \in Nat
  BY <1>1, IndexAssumption
<1>3. IsFiniteSet(normal)
  BY FS_Subset
<1>4. \E t \in seen : \A u \in seen : u <= t
  <2> HIDE DEF normal, seen
  <2>1. CASE normal = {}
    BY <1>0, <1>2, <2>1
  <2>2. CASE normal # {}
    <3>1. PICK s \in normal : \A u \in normal : u.at <= s.at
      <4> QED BY <1>1, <1>2, <1>3, <2>2, LatestRun
    <3>2. CASE s.at <= through
      <4>1. \A u \in seen : u <= through
        BY <1>0, <1>1, <1>2, <3>1, <3>2
      <4>2. through \in seen
        BY <1>0
      <4> QED BY <4>1, <4>2
    <3>3. CASE ~(s.at <= through)
      <4>1. \A u \in seen : u <= s.at
        BY <1>0, <1>1, <1>2, <3>1, <3>3
      <4>2. s.at \in seen
        BY <1>0, <3>1
      <4> QED BY <4>1, <4>2
    <3> QED BY <3>2, <3>3
  <2> QED BY <2>1, <2>2
<1>5. /\ EvictedThrough(runs, through) \in seen
      /\ \A u \in seen : u <= EvictedThrough(runs, through)
  BY <1>4 DEF EvictedThrough
<1>6. seen \subseteq Times \cup {0}
  BY <1>1
<1> QED BY <1>5, <1>6

\* What Newest keeps: MaxRecords of the runs, none older than one it leaves out.
LEMMA NewestKept ==
    ASSUME NEW runs, NEW kept \in Newest(runs)
    PROVE  /\ kept \subseteq runs
           /\ Cardinality(kept) = MaxRecords
           /\ \A k \in kept, e \in runs \ kept : k.queued >= e.queued
BY DEF Newest

-----------------------------------------------------------------------------
(* Types.                                                                    *)

LEMMA TypeInit ==
    Init => TypeOK
<1> SUFFICES ASSUME Init PROVE TypeOK
  OBVIOUS
<1>1. faults \in [Counters -> Nat]
  BY DEF Init
<1>2. mem \in Indexes /\ loaded \in BOOLEAN /\ pending \in Nat
  BY DEF Init, EmptyIndex, Indexes
<1>3. pc \in Places /\ req \in Runs \cup {None} /\ todo \subseteq Runs
  BY DEF Init, Places
<1>4. watermark \in Watermarks \cup {None}
  BY DEF Init
<1>5. CASE Fresh
  BY <1>1, <1>2, <1>3, <1>4, <1>5 DEF Fresh, TypeOK
<1>6. CASE Legacy
  <2>1. PICK r \in Runs, evicted \in Runs : LegacyOf(r, evicted)
    BY <1>6 DEF Legacy
  <2>2. evicted.at \in Times
    BY DEF Runs
  <2>3. checkpoint \in Checkpoints
    BY <2>1, <2>2 DEF LegacyOf, Checkpoints, Indexes
  <2>4. stored \in [Names -> Runs \cup {None}]
    BY <2>1 DEF LegacyOf
  <2>5. artifacts \subseteq Runs /\ junk \in BOOLEAN /\ dirty \in BOOLEAN
    BY <2>1 DEF LegacyOf
  <2> QED BY <1>1, <1>2, <1>3, <1>4, <2>3, <2>4, <2>5 DEF TypeOK
<1> QED BY <1>5, <1>6 DEF Init

\* The parts of the index in memory.
LEMMA MemTypes ==
    ASSUME TypeOK
    PROVE  /\ mem.runs \subseteq Runs /\ mem.through \in Times \cup {0} /\ mem.incomplete \in BOOLEAN
           /\ mem = [runs |-> mem.runs, through |-> mem.through, incomplete |-> mem.incomplete]
BY DEF TypeOK, Indexes

\* What a prune may make of the index.
LEMMA PrunedTypes ==
    ASSUME TypeOK, HistoryInv, pc = "prune", NEW kept \in Newest(mem.runs)
    PROVE  /\ IsFiniteSet(mem.runs \ kept) /\ mem.runs \ kept \subseteq Runs
           /\ EvictedThrough(mem.runs \ kept, mem.through) \in Times \cup {0}
           /\ mem.through <= EvictedThrough(mem.runs \ kept, mem.through)
           /\ \A e \in mem.runs \ kept :
                 e.name \notin Plans => e.at <= EvictedThrough(mem.runs \ kept, mem.through)
           /\ [mem EXCEPT !.through = EvictedThrough(mem.runs \ kept, mem.through)] =
                 [runs |-> mem.runs, through |-> EvictedThrough(mem.runs \ kept, mem.through),
                  incomplete |-> mem.incomplete]
<1>1. mem.runs \subseteq Runs /\ mem.through \in Times \cup {0}
  BY MemTypes
<1>2. IsFiniteSet(mem.runs)
  BY DEF HistoryInv, InUse, Loading
<1>3. IsFiniteSet(mem.runs \ kept) /\ mem.runs \ kept \in SUBSET Runs
  BY <1>1, <1>2, FS_Subset
<1>4. \A t : [mem EXCEPT !.through = t] =
         [runs |-> mem.runs, through |-> t, incomplete |-> mem.incomplete]
  BY DEF TypeOK, Indexes
<1> QED BY <1>1, <1>3, <1>4, EvictedThroughBounds

LEMMA ReplaceIsRuns ==
    ASSUME NEW runs \in SUBSET Runs, NEW r \in Runs
    PROVE  Replace(runs, r) \in SUBSET Runs
BY DEF Replace

LEMMA TypeNext ==
    ASSUME TypeOK, StageInv, HistoryInv, Next
    PROVE  TypeOK'
<1>1. mem.runs \subseteq Runs /\ mem.through \in Times \cup {0} /\ mem.incomplete \in BOOLEAN
  BY MemTypes
<1>2. ASSUME NEW r \in Runs, BeginPut(r) PROVE TypeOK'
  BY <1>2 DEF TypeOK, BeginPut, disk, memory, Places, Counters
<1>3. CASE BeginRead
  BY <1>3 DEF TypeOK, BeginRead, disk, memory, Places
<1>4. CASE LoadCheckpoint
  <2>1. checkpoint \in Checkpoints
    BY <1>4 DEF TypeOK, LoadCheckpoint, Trusted
  <2>2. checkpoint.index \in Indexes /\ checkpoint.index.through \in Times \cup {0}
        /\ checkpoint.index.incomplete \in BOOLEAN
    BY <2>1 DEF Checkpoints, Indexes
  <2>3. watermark' \in Watermarks \cup {None} /\ mem' \in Indexes
    BY <1>4, <2>2 DEF LoadCheckpoint, Watermarks, TypeOK
  <2> QED BY <1>4, <2>3 DEF TypeOK, LoadCheckpoint, Proceed, Places
<1>5. CASE LoadNothing
  <2>1. mem' \in Indexes
    BY <1>5 DEF LoadNothing, EmptyIndex, Indexes
  <2> QED BY <1>5, <2>1 DEF TypeOK, LoadNothing, Proceed, Places, disk
<1>6. CASE StartScan
  <2> DEFINE old  == IF checkpoint = None THEN EmptyIndex ELSE checkpoint.index
             mark == IF watermark = None THEN [through |-> 0, incomplete |-> FALSE] ELSE watermark
             found == [through    |-> Later(old.through, mark.through),
                       incomplete |-> old.incomplete \/ mark.incomplete]
  <2>1. old.through \in Times \cup {0} /\ old.incomplete \in BOOLEAN
    BY DEF TypeOK, EmptyIndex, Checkpoints, Indexes
  <2>2. mark.through \in Times \cup {0} /\ mark.incomplete \in BOOLEAN
    BY DEF TypeOK, Watermarks
  <2>3. found.through \in Times \cup {0} /\ found.incomplete \in BOOLEAN /\ found \in Watermarks
    BY <2>1, <2>2 DEF Later, Watermarks
  <2>4. mem' = [runs |-> {}, through |-> found.through, incomplete |-> found.incomplete]
        /\ watermark' \in {found, watermark}
    BY <1>6 DEF StartScan
  <2>5. mem' \in Indexes /\ watermark' \in Watermarks \cup {None}
    <3> HIDE DEF found
    <3> QED BY <2>3, <2>4 DEF Indexes, TypeOK
  <2> QED BY <1>6, <2>5 DEF TypeOK, StartScan, Places
<1>7. CASE Scan
  <2>1. mem' \in Indexes
    BY <1>7 DEF Scan, TypeOK, Indexes
  <2> QED BY <1>7, <2>1 DEF TypeOK, Scan, Places
<1>8. CASE MarkIncomplete
  <2>1. watermark' \in Watermarks \cup {None}
    BY <1>1, <1>8 DEF MarkIncomplete, Watermarks, TypeOK
  <2> QED BY <1>8, <2>1 DEF TypeOK, MarkIncomplete, memory, Places
<1>9. CASE Invalidate
  BY <1>9 DEF TypeOK, Invalidate, memory, Places
<1>10. CASE WriteArtifact
  <2>1. req \in Runs
    BY <1>10 DEF WriteArtifact, TypeOK, StageInv
  <2>2. artifacts' \subseteq Runs /\ mem' \in Indexes
    BY <1>1, <1>10, <2>1, ReplaceIsRuns DEF WriteArtifact, TypeOK, Indexes
  <2>3. stored' \in [Names -> Runs \cup {None}]
    BY <1>10, <2>1 DEF WriteArtifact, TypeOK
  <2> QED BY <1>10, <2>2, <2>3 DEF TypeOK, WriteArtifact, Places
<1>11. CASE Prune
  <2>1. Pruned \in Places
    BY DEF Pruned, Places
  <2>2. CASE UNCHANGED <<watermark, mem, todo>> /\ pc' = Pruned
    BY <1>11, <2>1, <2>2 DEF TypeOK, Prune
  <2>3. ASSUME NEW kept \in Newest(mem.runs),
               mem' = [mem EXCEPT !.through = EvictedThrough(mem.runs \ kept, mem.through)],
               watermark' = [through |-> EvictedThrough(mem.runs \ kept, mem.through),
                             incomplete |-> mem.incomplete],
               todo' = mem.runs \ kept,
               pc' = "delete"
        PROVE  TypeOK'
    <3>1. EvictedThrough(mem.runs \ kept, mem.through) \in Times \cup {0} /\ todo' \subseteq Runs
      BY <1>11, <2>3, PrunedTypes DEF Prune
    <3>2. mem' \in Indexes /\ watermark' \in Watermarks
      BY <1>1, <2>3, <3>1 DEF TypeOK, Indexes, Watermarks
    <3> QED BY <1>11, <2>3, <3>1, <3>2 DEF TypeOK, Prune, Places
  <2> QED BY <1>11, <2>2, <2>3 DEF Prune
<1>12. CASE Delete
  BY <1>12 DEF TypeOK, Delete, memory, op
<1>13. CASE Deleted
  <2>1. mem' \in Indexes
    BY <1>1, <1>13 DEF Deleted, TypeOK, Indexes
  <2> QED BY <1>13, <2>1 DEF TypeOK, Deleted, disk, Pruned, Places
<1>14. CASE Save
  <2>1. checkpoint' \in Checkpoints
    BY <1>14 DEF Save, TypeOK, Checkpoints
  <2> QED BY <1>14, <2>1 DEF TypeOK, Save, Places
<1>15. CASE Clean
  BY <1>15 DEF TypeOK, Clean, Proceed, Places
<1>16. CASE Fails
  <2>1. mem' \in Indexes
    <3>1. CASE pc = "prune"
      <4>1. PICK kept \in Newest(mem.runs) :
                mem' = [mem EXCEPT !.through = EvictedThrough(mem.runs \ kept, mem.through)]
        BY <1>16, <3>1 DEF Fails
      <4>2. EvictedThrough(mem.runs \ kept, mem.through) \in Times \cup {0}
        BY <3>1, PrunedTypes
      <4> QED BY <1>1, <4>1, <4>2 DEF TypeOK, Indexes
    <3>2. CASE pc # "prune"
      BY <1>16, <3>2 DEF Fails, TypeOK
    <3> QED BY <3>1, <3>2
  <2>2. checkpoint' \in Checkpoints \cup {None}
    BY <1>16 DEF Fails, TypeOK
  <2>3. faults' \in [Counters -> Nat]
    BY <1>16 DEF Fails, TypeOK, Counters
  <2> QED BY <1>16, <2>1, <2>2, <2>3 DEF TypeOK, Fails, Places
<1>17. CASE Crash
  <2>1. mem' \in Indexes
    BY <1>17 DEF Crash, EmptyIndex, Indexes
  <2>2. faults' \in [Counters -> Nat]
    BY <1>17 DEF Crash, TypeOK, Counters
  <2> QED BY <1>17, <2>1, <2>2 DEF TypeOK, Crash, disk, Places
<1> QED BY <1>2, <1>3, <1>4, <1>5, <1>6, <1>7, <1>8, <1>9, <1>10, <1>11, <1>12, <1>13,
           <1>14, <1>15, <1>16, <1>17 DEF Next

-----------------------------------------------------------------------------
(* Where an operation is, and the runs that are stored.                      *)

LEMMA StageNext ==
    ASSUME TypeOK, StageInv, Next
    PROVE  StageInv'
<1> USE DEF StageInv
<1>1. ASSUME NEW r \in Runs, BeginPut(r) PROVE StageInv'
  BY <1>1, NoneAssumption DEF BeginPut, disk, memory
<1>2. CASE BeginRead
  BY <1>2 DEF BeginRead, disk, memory
<1>3. CASE LoadCheckpoint
  BY <1>3 DEF LoadCheckpoint, Trusted, Proceed
<1>4. CASE LoadNothing
  BY <1>4 DEF LoadNothing, Proceed, disk
<1>5. CASE StartScan
  BY <1>5 DEF StartScan, TypeOK
<1>6. CASE Scan
  BY <1>6 DEF Scan
<1>7. CASE MarkIncomplete
  BY <1>7 DEF MarkIncomplete, memory
<1>8. CASE Invalidate
  BY <1>8 DEF Invalidate, memory, TypeOK
<1>9. CASE WriteArtifact
  BY <1>9 DEF WriteArtifact
<1>10. CASE Prune
  BY <1>10 DEF Prune, Pruned
<1>11. CASE Delete
  BY <1>11 DEF Delete, memory, op
<1>12. CASE Deleted
  BY <1>12 DEF Deleted, Pruned, disk
<1>13. CASE Save
  BY <1>13 DEF Save
<1>14. CASE Clean
  BY <1>14 DEF Clean, Proceed
<1>15. CASE Fails
  BY <1>15 DEF Fails
<1>16. CASE Crash
  BY <1>16 DEF Crash, disk
<1> QED BY <1>1, <1>2, <1>3, <1>4, <1>5, <1>6, <1>7, <1>8, <1>9, <1>10, <1>11, <1>12, <1>13,
           <1>14, <1>15, <1>16 DEF Next

\* Replace adds the run and takes away the one of the same name, nothing else.
LEMMA ReplaceFacts ==
    ASSUME NEW runs, IsFiniteSet(runs), NEW r
    PROVE  /\ r \in Replace(runs, r)
           /\ \A x \in Replace(runs, r) : x = r \/ (x \in runs /\ x.name # r.name)
           /\ \A x \in runs : x.name # r.name => x \in Replace(runs, r)
           /\ IsFiniteSet(Replace(runs, r))
<1>1. IsFiniteSet({x \in runs : x.name # r.name})
  BY FS_Subset
<1> QED BY <1>1, FS_AddElement DEF Replace

LEMMA StoredNext ==
    ASSUME TypeOK, StageInv, StoredInv, Next
    PROVE  StoredInv'
<1>1. SUFFICES ASSUME ~WriteArtifact, ~Delete PROVE StoredInv'
  <2>1. CASE WriteArtifact
    <3>1. req \in Runs /\ req.name \in Names /\ ~Unwritten' /\ Storable(req)
      BY <2>1 DEF WriteArtifact, TypeOK, StageInv, StoredInv, Unwritten, Runs
    <3>2. stored' = [stored EXCEPT ![req.name] = req] /\ stored \in [Names -> Runs \cup {None}]
      BY <2>1 DEF WriteArtifact, TypeOK
    <3>3. /\ stored'[req.name] = req
          /\ \A n \in Names : n # req.name => stored'[n] = stored[n]
      BY <3>1, <3>2
    <3>4. \A n \in Names : stored'[n] # None => stored'[n].name = n
      BY <3>1, <3>3 DEF StoredInv
    <3>5. ASSUME NEW m \in Names, NEW n \in Names, stored'[m] # None, stored'[n] # None,
                 stored'[m].queued = stored'[n].queued
          PROVE  m = n
      BY <3>1, <3>3, <3>5 DEF StoredInv, Storable
    <3>6. \A a \in artifacts' : stored'[a.name] = a
      <4>1. artifacts' = Replace(artifacts, req) /\ IsFiniteSet(artifacts)
        BY <2>1 DEF WriteArtifact, StoredInv
      <4>2. \A a \in artifacts : a.name \in Names /\ stored[a.name] = a
        BY DEF StoredInv, TypeOK, Runs
      <4> QED BY <3>3, <4>1, <4>2, ReplaceFacts
    <3>7. IsFiniteSet(artifacts')
      BY <2>1, ReplaceFacts DEF WriteArtifact, StoredInv
    <3> QED BY <3>1, <3>4, <3>5, <3>6, <3>7 DEF StoredInv
  <2>2. CASE Delete
    <3>1. artifacts' \subseteq artifacts
      BY <2>2 DEF Delete
    <3>2. IsFiniteSet(artifacts')
      BY <3>1, FS_Subset DEF StoredInv
    <3>3. UNCHANGED <<stored, req, pc, loaded>>
      BY <2>2 DEF Delete, memory, op
    <3> QED BY <3>1, <3>2, <3>3 DEF StoredInv, Unwritten, Storable
  <2> QED BY <2>1, <2>2
<1>2. UNCHANGED <<artifacts, stored>>
  BY <1>1 DEF Next, BeginPut, BeginRead, LoadCheckpoint, LoadNothing, StartScan, Scan,
              MarkIncomplete, Invalidate, Prune, Deleted, Save, Clean, Fails, Crash, disk
<1>3. Unwritten' => Storable(req')
  <2> SUFFICES ASSUME Unwritten' PROVE Storable(req')
    OBVIOUS
  <2>1. ASSUME NEW r \in Runs, BeginPut(r) PROVE Storable(req')
    BY <2>1 DEF BeginPut, Storable
  <2>2. CASE BeginRead
    BY <2>2 DEF BeginRead, Unwritten
  <2>3. CASE Fails \/ Crash
    BY <2>3 DEF Fails, Crash, Unwritten
  <2>4. ASSUME req' = req, Unwritten PROVE Storable(req')
    BY <2>4 DEF StoredInv
  <2>5. CASE LoadCheckpoint \/ LoadNothing \/ StartScan
    BY <2>4, <2>5 DEF LoadCheckpoint, LoadNothing, StartScan, Unwritten, StageInv
  <2>6. CASE Scan \/ MarkIncomplete \/ Invalidate
    BY <2>4, <2>6 DEF Scan, MarkIncomplete, Invalidate, memory, Unwritten
  <2>7. CASE Prune \/ Deleted
    BY <2>4, <2>7 DEF Prune, Deleted, Pruned, Unwritten
  <2>8. CASE Save
    BY <2>4, <2>8 DEF Save, Unwritten
  <2>9. CASE Clean
    BY <2>4, <2>9 DEF Clean, Proceed, Unwritten
  <2> QED BY <1>1, <2>1, <2>2, <2>3, <2>5, <2>6, <2>7, <2>8, <2>9 DEF Next
<1> QED BY <1>2, <1>3 DEF StoredInv, Storable

-----------------------------------------------------------------------------
(* Memory and the directory.                                                 *)

\* Names tell the runs of an index apart, and so do the times they were enqueued.
LEMMA RunsDiffer ==
    ASSUME TypeOK, StoredInv, HistoryInv, InUse, NEW x \in mem.runs, NEW y \in mem.runs
    PROVE  /\ x \in Runs /\ x.name \in Names /\ x.queued \in Nat
           /\ x.name = y.name => x = y
           /\ x.queued = y.queued => x = y
<1>1. \A z \in mem.runs : /\ z \in Runs /\ z.name \in Names /\ z.queued \in Nat
                          /\ stored[z.name] = z /\ stored[z.name] # None
  BY MemTypes, NoneAssumption, IndexAssumption DEF HistoryInv, Runs
<1> QED BY <1>1 DEF StoredInv

\* A write leaves as many newer runs as there were.
LEMMA NewerStay ==
    ASSUME NEW runs \in SUBSET Runs, IsFiniteSet(runs), NEW r \in Runs, NEW x \in runs,
           \A y \in runs : y.name = r.name => y.queued < r.queued,
           \A y, z \in runs : y.name = z.name => y = z,
           Cardinality(Newer(x, runs)) >= MaxRecords
    PROVE  Cardinality(Newer(x, Replace(runs, r))) >= MaxRecords
<1> DEFINE before == Newer(x, runs)
           after == Newer(x, Replace(runs, r))
<1>1. \A y \in runs : y.queued \in Nat
  BY IndexAssumption DEF Runs
<1>2. r.queued \in Nat /\ x.queued \in Nat
  BY IndexAssumption DEF Runs
<1>3. IsFiniteSet(before) /\ before \subseteq runs
  BY FS_Subset DEF Newer
<1>4. IsFiniteSet(after)
  BY ReplaceFacts, FS_Subset DEF Newer
<1>5. Cardinality(before) \in Nat /\ Cardinality(after) \in Nat /\ MaxRecords \in Nat
  BY <1>3, <1>4, FS_CardinalityType, IndexAssumption
<1>6. CASE \E o \in before : o.name = r.name
  <2>1. PICK o \in before : o.name = r.name
    BY <1>6
  <2>2. o \in runs /\ o.queued > x.queued /\ o.queued < r.queued
    BY <2>1 DEF Newer
  <2>3. r \notin before
    BY <1>2, <1>3
  <2>4. r.queued > x.queued
    BY <1>1, <1>2, <2>2
  <2>5. after = (before \ {o}) \cup {r}
    BY <2>1, <2>2, <2>4 DEF Newer, Replace
  <2>6. Cardinality(before \ {o}) = Cardinality(before) - 1 /\ IsFiniteSet(before \ {o})
    BY <1>3, <2>1, FS_RemoveElement
  <2>7. Cardinality(after) = Cardinality(before \ {o}) + 1
    BY <2>3, <2>5, <2>6, FS_AddElement
  <2> QED BY <1>5, <2>6, <2>7
<1>7. CASE ~(\E o \in before : o.name = r.name)
  <2>1. before \subseteq after
    BY <1>7 DEF Newer, Replace
  <2>2. Cardinality(before) <= Cardinality(after)
    BY <1>4, <2>1, FS_Subset
  <2> QED BY <1>5, <2>2
<1> QED BY <1>6, <1>7

\* What only memory has is never kept by a prune.
LEMMA KeptAreThere ==
    ASSUME TypeOK, HistoryInv, InUse, NEW kept \in Newest(mem.runs)
    PROVE  kept \subseteq artifacts
<1>1. SUFFICES ASSUME NEW x \in kept, x \notin artifacts PROVE FALSE
  OBVIOUS
<1>2. x \in mem.runs /\ IsFiniteSet(mem.runs) /\ IsFiniteSet(kept) /\ Cardinality(kept) = MaxRecords
  BY NewestKept, FS_Subset DEF HistoryInv
<1>3. Cardinality(Newer(x, mem.runs)) >= MaxRecords
  BY <1>1, <1>2 DEF HistoryInv
<1>4. \A z \in mem.runs : z.queued \in Nat
  BY MemTypes, IndexAssumption DEF Runs
<1>5. Newer(x, mem.runs) \subseteq kept \ {x}
  BY <1>2, <1>4, NewestKept DEF Newer
<1>6. IsFiniteSet(kept \ {x}) /\ Cardinality(kept \ {x}) = MaxRecords - 1
  BY <1>2, FS_RemoveElement
<1>7. Cardinality(Newer(x, mem.runs)) <= MaxRecords - 1 /\ Cardinality(Newer(x, mem.runs)) \in Nat
  BY <1>5, <1>6, FS_Subset, FS_CardinalityType
<1> QED BY <1>3, <1>7, IndexAssumption

\* Nor is there any while the index fits.
LEMMA NothingExtra ==
    ASSUME TypeOK, HistoryInv, InUse, Cardinality(mem.runs) <= MaxRecords
    PROVE  mem.runs = artifacts
<1>1. SUFFICES ASSUME NEW x \in mem.runs, x \notin artifacts PROVE FALSE
  BY DEF HistoryInv
<1>2. IsFiniteSet(mem.runs) /\ Cardinality(Newer(x, mem.runs)) >= MaxRecords
  BY <1>1 DEF HistoryInv
<1>3. x.queued \in Nat
  BY MemTypes, IndexAssumption DEF Runs
<1>4. Newer(x, mem.runs) \subseteq mem.runs \ {x}
  BY <1>3 DEF Newer
<1>5. IsFiniteSet(mem.runs \ {x}) /\ Cardinality(mem.runs \ {x}) = Cardinality(mem.runs) - 1
  BY <1>2, FS_RemoveElement
<1>6. /\ Cardinality(Newer(x, mem.runs)) <= Cardinality(mem.runs) - 1
      /\ Cardinality(Newer(x, mem.runs)) \in Nat /\ Cardinality(mem.runs) \in Nat
  BY <1>2, <1>4, <1>5, FS_Subset, FS_CardinalityType
<1> QED BY <1>2, <1>6, IndexAssumption

\* A removal takes away one run of todo, and none of those that are kept.
LEMMA RemovedRun ==
    ASSUME TypeOK, StoredInv, HistoryInv, PruneInv, Delete
    PROVE  \E e \in todo : /\ artifacts' = artifacts \ {e} /\ e \in artifacts
                           /\ mem.runs \ todo \subseteq artifacts'
<1>1. PICK e \in todo : /\ \E a \in artifacts : a.name = e.name
                        /\ artifacts' = {a \in artifacts : a.name # e.name}
  BY DEF Delete
<1>2. InUse /\ artifacts \subseteq mem.runs /\ todo \subseteq mem.runs /\ mem.runs \ todo \subseteq artifacts
  BY DEF Delete, InUse, Loading, HistoryInv, PruneInv
<1>3. \A a \in artifacts : a.name = e.name => a = e
  BY <1>2, RunsDiffer
<1> QED BY <1>1, <1>2, <1>3

LEMMA HistoryNext ==
    ASSUME TypeOK, CheckpointIsFresh, StageInv, StoredInv, HistoryInv, PruneInv, Next
    PROVE  HistoryInv'
<1>1. ASSUME UNCHANGED <<artifacts, stored>>, mem'.runs = mem.runs, InUse
      PROVE  HistoryInv'
  BY <1>1 DEF HistoryInv, Newer
<1>2. ASSUME UNCHANGED <<artifacts, stored>>, mem'.runs = artifacts
      PROVE  HistoryInv'
  BY <1>2 DEF HistoryInv, StoredInv
<1>3. CASE (\E r \in Runs : BeginPut(r)) \/ BeginRead
  BY <1>1, <1>3 DEF BeginPut, BeginRead, disk, memory, InUse, Loading, HistoryInv
<1>4. CASE LoadCheckpoint
  BY <1>2, <1>4 DEF LoadCheckpoint, Trusted, CheckpointIsFresh
<1>5. CASE LoadNothing
  BY <1>2, <1>5 DEF LoadNothing, EmptyIndex, disk
<1>6. CASE StartScan
  BY <1>6 DEF StartScan, InUse, Loading, HistoryInv, StageInv
<1>7. CASE Scan
  <2>1. mem'.runs = artifacts
    BY <1>7 DEF Scan, TypeOK, Indexes
  <2> QED BY <1>2, <1>7, <2>1 DEF Scan
<1>8. CASE MarkIncomplete \/ Invalidate
  BY <1>1, <1>8 DEF MarkIncomplete, Invalidate, memory, InUse, Loading, StageInv
<1>9. CASE WriteArtifact
  <2>1. InUse /\ req \in Runs /\ Storable(req)
    BY <1>9 DEF WriteArtifact, InUse, StageInv, StoredInv, Unwritten, TypeOK
  <2>2. mem'.runs = Replace(mem.runs, req) /\ artifacts' = Replace(artifacts, req)
    BY <1>9 DEF WriteArtifact, TypeOK, Indexes
  <2>3. artifacts \subseteq mem.runs /\ IsFiniteSet(mem.runs) /\ IsFiniteSet(artifacts)
    BY <2>1 DEF HistoryInv, StoredInv
  <2>4. artifacts' \subseteq mem'.runs
    BY <2>2, <2>3 DEF Replace
  <2>5. IsFiniteSet(mem'.runs)
    BY <2>2, <2>3, ReplaceFacts
  <2>6. \A x \in mem'.runs : stored'[x.name] = x
    <3>1. \A x \in mem.runs : x.name \in Names /\ stored[x.name] = x
      BY <2>1, RunsDiffer DEF HistoryInv
    <3>2. stored'[req.name] = req /\ \A n \in Names : n # req.name => stored'[n] = stored[n]
      BY <1>9, <2>1 DEF WriteArtifact, TypeOK, Runs
    <3>3. \A x \in Replace(mem.runs, req) : x = req \/ (x \in mem.runs /\ x.name # req.name)
      BY DEF Replace
    <3>4. ASSUME NEW x \in Replace(mem.runs, req) PROVE stored'[x.name] = x
      BY <3>1, <3>2, <3>3
    <3> QED BY <2>2, <3>4
  <2>7. ASSUME NEW x \in mem'.runs \ artifacts'
        PROVE  Cardinality(Newer(x, mem'.runs)) >= MaxRecords
    <3>1. x \in mem.runs \ artifacts
      BY <2>2, <2>3, <2>7, ReplaceFacts
    <3>2. Cardinality(Newer(x, mem.runs)) >= MaxRecords
      BY <2>1, <3>1 DEF HistoryInv
    <3>3. \A y \in mem.runs : y.name = req.name => y.queued < req.queued
      <4>1. \A y \in mem.runs : y.name \in Names /\ stored[y.name] = y /\ y # None
        BY <2>1, RunsDiffer, NoneAssumption DEF HistoryInv
      <4> QED BY <2>1, <4>1 DEF Storable
    <3>4. \A y, z \in mem.runs : y.name = z.name => y = z
      BY <2>1, RunsDiffer
    <3>5. mem.runs \in SUBSET Runs
      BY MemTypes
    <3> QED BY <2>1, <2>2, <2>3, <3>1, <3>2, <3>3, <3>4, <3>5, NewerStay
  <2> QED BY <2>4, <2>5, <2>6, <2>7 DEF HistoryInv
<1>10. CASE Prune
  <2>1. mem'.runs = mem.runs
    BY <1>10 DEF Prune, TypeOK, Indexes
  <2> QED BY <1>1, <1>10, <2>1 DEF Prune, InUse, Loading
<1>11. CASE Delete
  <2>1. PICK e \in todo : /\ artifacts' = artifacts \ {e} /\ e \in artifacts
                          /\ mem.runs \ todo \subseteq artifacts'
    BY <1>11, RemovedRun
  <2>2. InUse /\ pc = "delete" /\ UNCHANGED <<mem, stored>>
    BY <1>11 DEF Delete, InUse, Loading, memory
  <2>3. Cardinality(Newer(e, mem.runs)) >= MaxRecords
    <3>1. mem.runs \ todo \subseteq Newer(e, mem.runs) /\ Cardinality(mem.runs \ todo) = MaxRecords
      BY <2>2 DEF PruneInv, Newer
    <3>2. IsFiniteSet(Newer(e, mem.runs))
      BY <2>2, FS_Subset DEF HistoryInv, Newer
    <3>3. Cardinality(mem.runs \ todo) <= Cardinality(Newer(e, mem.runs))
      BY <3>1, <3>2, FS_Subset
    <3> QED BY <3>1, <3>2, <3>3, FS_CardinalityType, IndexAssumption
  <2> QED BY <2>1, <2>2, <2>3 DEF HistoryInv, Newer
<1>12. CASE Deleted
  <2>1. /\ InUse /\ artifacts \subseteq mem.runs /\ mem.runs \ todo \subseteq artifacts
        /\ \A e \in todo, a \in artifacts : a.name # e.name
    BY <1>12 DEF Deleted, InUse, Loading, HistoryInv, PruneInv
  <2>2. mem'.runs = mem.runs \ todo
    BY <1>12 DEF Deleted, TypeOK, Indexes
  <2>3. mem'.runs = artifacts
    BY <2>1, <2>2
  <2> QED BY <1>2, <1>12, <2>3 DEF Deleted, disk
<1>13. CASE Save \/ Clean
  BY <1>1, <1>13 DEF Save, Clean, InUse, Loading
<1>14. CASE Fails
  <2>1. mem'.runs = mem.runs /\ UNCHANGED <<artifacts, stored, loaded>> /\ pc' = "idle"
    BY <1>14 DEF Fails, TypeOK, Indexes
  <2> QED BY <1>1, <2>1 DEF InUse, Loading, HistoryInv
<1>15. CASE Crash
  BY <1>15 DEF Crash, InUse, Loading, HistoryInv
<1> QED BY <1>3, <1>4, <1>5, <1>6, <1>7, <1>8, <1>9, <1>10, <1>11, <1>12, <1>13, <1>14,
           <1>15 DEF Next

LEMMA PruneNext ==
    ASSUME TypeOK, StageInv, StoredInv, HistoryInv, PruneInv, Next
    PROVE  PruneInv'
<1>1. CASE Prune
  <2>1. InUse /\ pc = "prune" /\ UNCHANGED artifacts
    BY <1>1 DEF Prune, InUse, Loading
  <2>2. CASE Cardinality(mem.runs) <= MaxRecords
    <3>1. UNCHANGED mem /\ pc' = Pruned
      <4>1. Cardinality(mem.runs) \in Nat /\ MaxRecords \in Nat
        BY <2>1, FS_CardinalityType, IndexAssumption DEF HistoryInv
      <4>2. ~(Cardinality(mem.runs) > MaxRecords)
        BY <2>2, <4>1
      <4> QED BY <1>1, <4>2 DEF Prune
    <3>2. mem.runs = artifacts
      BY <2>1, <2>2, NothingExtra
    <3> QED BY <2>1, <2>2, <3>1, <3>2 DEF PruneInv, Pruned
  <2>3. ASSUME NEW kept \in Newest(mem.runs),
               mem' = [mem EXCEPT !.through = EvictedThrough(mem.runs \ kept, mem.through)],
               watermark' = [through |-> EvictedThrough(mem.runs \ kept, mem.through),
                             incomplete |-> mem.incomplete],
               todo' = mem.runs \ kept,
               pc' = "delete"
        PROVE  PruneInv'
    <3>1. mem' = [runs |-> mem.runs, through |-> EvictedThrough(mem.runs \ kept, mem.through),
                  incomplete |-> mem.incomplete]
      BY <2>1, <2>3, PrunedTypes
    <3>2. kept \subseteq mem.runs /\ mem'.runs \ todo' = kept /\ kept \subseteq artifacts
      BY <2>1, <2>3, <3>1, NewestKept, KeptAreThere
    <3>3. \A k \in kept, e \in todo' : k.queued > e.queued
      <4>1. ASSUME NEW k \in kept, NEW e \in mem.runs \ kept PROVE k.queued > e.queued
        <5>1. k.queued >= e.queued
          BY NewestKept
        <5>2. k.queued \in Nat /\ e.queued \in Nat /\ k.queued # e.queued
          BY <2>1, <3>2, RunsDiffer
        <5> QED BY <5>1, <5>2
      <4> QED BY <2>3, <4>1
    <3>4. \A e \in todo' : e.name \notin Plans => e.at <= mem'.through
      <4>1. \A e \in mem.runs \ kept :
               e.name \notin Plans => e.at <= EvictedThrough(mem.runs \ kept, mem.through)
        BY <2>1, PrunedTypes
      <4> QED BY <2>3, <3>1, <4>1
    <3> QED BY <2>1, <2>3, <3>1, <3>2, <3>3, <3>4, NewestKept DEF PruneInv
  <2> QED BY <1>1, <2>2, <2>3 DEF Prune
<1>2. CASE Delete
  <2>1. mem.runs \ todo \subseteq artifacts'
    BY <1>2, RemovedRun
  <2> QED BY <1>2, <2>1 DEF Delete, PruneInv, memory, op
<1>3. CASE Deleted
  <2>1. /\ artifacts \subseteq mem.runs /\ mem.runs \ todo \subseteq artifacts
        /\ \A e \in todo, a \in artifacts : a.name # e.name
        /\ Cardinality(mem.runs \ todo) = MaxRecords
    BY <1>3 DEF Deleted, InUse, Loading, HistoryInv, PruneInv
  <2>2. mem'.runs = mem.runs \ todo
    BY <1>3 DEF Deleted, TypeOK, Indexes
  <2>3. mem'.runs = artifacts
    BY <2>1, <2>2
  <2> QED BY <1>3, <2>1, <2>2, <2>3, IndexAssumption DEF Deleted, PruneInv, disk, Pruned
<1>4. CASE Save
  BY <1>4 DEF Save, PruneInv
<1>5. CASE (\E r \in Runs : BeginPut(r)) \/ BeginRead
  BY <1>5 DEF BeginPut, BeginRead, PruneInv
<1>6. CASE LoadCheckpoint \/ LoadNothing \/ StartScan \/ Scan
  BY <1>6 DEF LoadCheckpoint, LoadNothing, StartScan, Scan, Proceed, PruneInv
<1>7. CASE MarkIncomplete \/ Invalidate \/ WriteArtifact
  BY <1>7 DEF MarkIncomplete, Invalidate, WriteArtifact, PruneInv
<1>8. CASE Clean \/ Fails \/ Crash
  BY <1>8 DEF Clean, Proceed, Fails, Crash, PruneInv
<1> QED BY <1>1, <1>2, <1>3, <1>4, <1>5, <1>6, <1>7, <1>8 DEF Next

-----------------------------------------------------------------------------
(* The checkpoint.                                                           *)

LEMMA FreshNext ==
    ASSUME TypeOK, CheckpointIsFresh, CheckpointIsBounded, StageInv, PruneInv, Next
    PROVE  CheckpointIsFresh' /\ CheckpointIsBounded'
<1> USE DEF CheckpointIsFresh, CheckpointIsBounded
<1>1. CASE WriteArtifact \/ Delete
  BY <1>1 DEF WriteArtifact, Delete, memory, op, StageInv
<1>2. CASE Save
  BY <1>2 DEF Save, PruneInv
<1>3. CASE Clean
  BY <1>3 DEF Clean, StageInv, PruneInv
<1>4. ASSUME UNCHANGED <<artifacts, dirty>>, checkpoint' \in {checkpoint, None}
      PROVE  CheckpointIsFresh' /\ CheckpointIsBounded'
  BY <1>4
<1>5. CASE (\E r \in Runs : BeginPut(r)) \/ BeginRead \/ LoadCheckpoint \/ LoadNothing \/ StartScan
  BY <1>4, <1>5 DEF BeginPut, BeginRead, LoadCheckpoint, LoadNothing, StartScan, disk
<1>6. CASE Scan \/ MarkIncomplete \/ Invalidate \/ Prune \/ Deleted
  BY <1>4, <1>6 DEF Scan, MarkIncomplete, Invalidate, Prune, Deleted, disk
<1>7. CASE Fails \/ Crash
  BY <1>4, <1>7 DEF Fails, Crash, disk
<1> QED BY <1>1, <1>2, <1>3, <1>5, <1>6, <1>7 DEF Next

-----------------------------------------------------------------------------
(* What was removed.                                                         *)

\* What is written is in the directory, and removes only what it replaces.
LEMMA WriteIsTold ==
    ASSUME TypeOK, StageInv, StoredInv, WriteArtifact, NEW w, Covers(w)
    PROVE  Tells(w, stored', artifacts')
<1>1. req \in Runs /\ req.name \in Names
  BY DEF WriteArtifact, StageInv, TypeOK, Runs
<1>2. stored'[req.name] = req /\ \A n \in Names : n # req.name => stored'[n] = stored[n]
  BY <1>1 DEF WriteArtifact, TypeOK
<1>3. req \in artifacts' /\ \A a \in artifacts : a.name # req.name => a \in artifacts'
  BY DEF WriteArtifact, Replace
<1>4. ASSUME NEW n \in Names \ Plans, stored'[n] # None, stored'[n] \notin artifacts'
      PROVE  w.incomplete \/ stored'[n].at <= w.through
  <2>1. n # req.name /\ stored'[n] = stored[n]
    BY <1>2, <1>3, <1>4
  <2>2. stored[n] # None /\ stored[n].name = n
    BY <1>4, <2>1 DEF StoredInv
  <2>3. stored[n] \notin artifacts
    BY <1>3, <1>4, <2>1, <2>2
  <2> QED BY <2>1, <2>2, <2>3 DEF Covers, Tells
<1> QED BY <1>4 DEF Tells

\* The watermark already tells of the run that is removed.
LEMMA RemovalIsTold ==
    ASSUME TypeOK, StoredInv, HistoryInv, PruneInv, Delete, Covers(mem)
    PROVE  Tells(mem, stored, artifacts')
<1>1. PICK e \in todo : artifacts' = artifacts \ {e}
  BY RemovedRun
<1>2. \A n \in Names : stored[n] = e /\ e # None => n = e.name
  BY DEF StoredInv
<1>3. e.name \notin Plans => e.at <= mem.through
  BY <1>1 DEF Delete, PruneInv
<1> QED BY <1>1, <1>2, <1>3 DEF Covers, Tells

\* A scan begins from all that the checkpoint and the watermark tell.
LEMMA ScanIsTold ==
    ASSUME TypeOK, EvictionInv, StartScan
    PROVE  Covers(mem') /\ Covers(Mark')
<1> DEFINE old  == IF checkpoint = None THEN EmptyIndex ELSE checkpoint.index
           found == [through    |-> Later(old.through, Mark.through),
                     incomplete |-> old.incomplete \/ Mark.incomplete]
<1>1. /\ mem' = [runs |-> {}, through |-> found.through, incomplete |-> found.incomplete]
      /\ watermark' = IF checkpoint # None /\ checkpoint.version = 1 THEN found ELSE watermark
  BY DEF StartScan, Mark
<1>2. /\ old.through \in Nat /\ old.incomplete \in BOOLEAN
      /\ Mark.through \in Nat /\ Mark.incomplete \in BOOLEAN
  <2>1. /\ old.through \in Times \cup {0} /\ old.incomplete \in BOOLEAN
        /\ Mark.through \in Times \cup {0} /\ Mark.incomplete \in BOOLEAN
    BY DEF TypeOK, EmptyIndex, Checkpoints, Indexes, Mark, Watermarks
  <2>2. Times \cup {0} \subseteq Nat
    BY IndexAssumption
  <2> HIDE DEF old
  <2> QED BY <2>1, <2>2
<1>3. \A n \in Names : stored[n] # None => stored[n].at \in Nat
  BY IndexAssumption DEF TypeOK, Runs
<1>4. ASSUME NEW w \in {old, Mark}, Covers(w) PROVE Covers(found)
  BY <1>2, <1>3, <1>4 DEF Covers, Tells, Later
<1>5. Covers(found)
  <2>1. Covers(old) \/ Covers(Mark)
    BY DEF EvictionInv
  <2> QED BY <1>4, <2>1
<1>6. Covers(mem')
  <2> HIDE DEF found
  <2> QED BY <1>1, <1>5 DEF Covers, Tells
<1>7. Covers(Mark')
  <2>1. CASE checkpoint # None /\ checkpoint.version = 1
    <3>1. found \in Watermarks
      <4>1. found.through \in Times \cup {0} /\ found.incomplete \in BOOLEAN
        BY DEF TypeOK, EmptyIndex, Checkpoints, Indexes, Mark, Watermarks, Later
      <4> QED BY <4>1 DEF Watermarks
    <3>2. Mark' = found
      <4> HIDE DEF found
      <4> QED BY <1>1, <2>1, <3>1, NoneAssumption DEF Mark
    <3> QED BY <1>5, <3>2
  <2>2. CASE ~(checkpoint # None /\ checkpoint.version = 1)
    <3>1. Covers(Mark) /\ Mark' = Mark
      BY <1>1, <2>2 DEF EvictionInv, Mark
    <3> QED BY <3>1
  <2> QED BY <2>1, <2>2
<1> QED BY <1>6, <1>7

LEMMA EvictionNext ==
    ASSUME TypeOK, CheckpointIsFresh, StageInv, StoredInv, HistoryInv, PruneInv, EvictionInv, Next
    PROVE  EvictionInv'
<1>1. \A w : Tells(w, stored, artifacts) <=> Covers(w)
  BY DEF Covers
<1>2. /\ loaded \/ pc \in Loading => Covers(mem)
      /\ checkpoint # None => Covers(checkpoint.index)
      /\ Covers(Mark) \/ (/\ ~loaded /\ pc \in {"idle", "load"}
                          /\ checkpoint # None /\ checkpoint.version = 1)
  BY DEF EvictionInv
<1>3. SUFFICES
        /\ loaded' \/ pc' \in Loading => Tells(mem', stored', artifacts')
        /\ checkpoint' # None => Tells(checkpoint'.index, stored', artifacts')
        /\ \/ Tells(Mark', stored', artifacts')
           \/ ~loaded' /\ pc' \in {"idle", "load"} /\ checkpoint' # None /\ checkpoint'.version = 1
  BY DEF EvictionInv, Covers, Loading
<1>4. ASSUME UNCHANGED watermark PROVE Mark' = Mark
  BY <1>4 DEF Mark
<1>5. ASSUME NEW m, watermark' = [through |-> m.through, incomplete |-> m.incomplete],
             m.through \in Times \cup {0}, m.incomplete \in BOOLEAN
      PROVE  \A last, directory : Tells(m, last, directory) => Tells(Mark', last, directory)
  <2>1. watermark' \in Watermarks
    BY <1>5 DEF Watermarks
  <2>2. Mark' = watermark'
    BY <2>1, NoneAssumption DEF Mark
  <2> QED BY <1>5, <2>2 DEF Tells
<1>6. CASE (\E r \in Runs : BeginPut(r)) \/ BeginRead
  BY <1>1, <1>2, <1>4, <1>6 DEF BeginPut, BeginRead, disk, memory, Loading
<1>7. CASE LoadCheckpoint
  <2>1. /\ UNCHANGED <<artifacts, stored, checkpoint>> /\ mem' = checkpoint.index
        /\ checkpoint # None /\ pc = "load" /\ Covers(checkpoint.index)
    BY <1>2, <1>7 DEF LoadCheckpoint, Trusted
  <2>2. Tells(Mark', stored', artifacts')
    <3>1. CASE checkpoint.version = 1
      <4>1. /\ watermark' = [through |-> checkpoint.index.through,
                             incomplete |-> checkpoint.index.incomplete]
            /\ checkpoint.index.through \in Times \cup {0} /\ checkpoint.index.incomplete \in BOOLEAN
        BY <1>7, <2>1, <3>1 DEF LoadCheckpoint, TypeOK, Checkpoints, Indexes
      <4> QED BY <1>1, <1>5, <2>1, <4>1
    <3>2. CASE checkpoint.version # 1
      BY <1>1, <1>2, <1>4, <1>7, <2>1, <3>2 DEF LoadCheckpoint
    <3> QED BY <3>1, <3>2
  <2> QED BY <1>1, <2>1, <2>2
<1>8. CASE LoadNothing
  <2>1. /\ checkpoint = None /\ UNCHANGED <<artifacts, stored, checkpoint, watermark>>
        /\ mem' = EmptyIndex /\ Mark = [through |-> 0, incomplete |-> FALSE]
    BY <1>8 DEF LoadNothing, disk, Mark
  <2>2. Covers(Mark)
    BY <1>2, <2>1
  <2>3. Covers(mem')
    BY <2>1, <2>2 DEF Covers, Tells, EmptyIndex
  <2> QED BY <1>1, <1>4, <2>1, <2>2, <2>3
<1>9. CASE StartScan
  <2>1. Covers(mem') /\ Covers(Mark')
    BY <1>9, ScanIsTold
  <2>2. UNCHANGED <<artifacts, stored, checkpoint>>
    BY <1>9 DEF StartScan
  <2> QED BY <1>1, <1>2, <2>1, <2>2
<1>10. CASE Scan
  <2>1. /\ UNCHANGED <<artifacts, stored, watermark>> /\ checkpoint' = None
        /\ mem'.through = mem.through /\ (mem.incomplete => mem'.incomplete)
    BY <1>10 DEF Scan, TypeOK, Indexes
  <2>2. Covers(mem) /\ Covers(Mark)
    BY <1>2, <1>10 DEF Scan, Loading
  <2>3. Covers(mem')
    BY <2>1, <2>2 DEF Covers, Tells
  <2> QED BY <1>1, <1>4, <2>1, <2>2, <2>3
<1>11. CASE MarkIncomplete
  <2>1. /\ UNCHANGED <<artifacts, stored, checkpoint, mem>>
        /\ Covers(mem) /\ Covers(Mark)
    BY <1>2, <1>11 DEF MarkIncomplete, memory, Loading
  <2>2. Tells(Mark', stored', artifacts')
    <3>1. CASE UNCHANGED watermark
      BY <1>1, <1>4, <2>1, <3>1
    <3>2. CASE watermark' = [through |-> mem.through, incomplete |-> TRUE] /\ mem.incomplete
      <4>1. watermark' = [through |-> mem.through, incomplete |-> mem.incomplete]
        BY <3>2, MemTypes
      <4> QED BY <1>1, <1>5, <2>1, <4>1, MemTypes
    <3> QED BY <1>11, <3>1, <3>2 DEF MarkIncomplete
  <2> QED BY <1>1, <1>2, <2>1, <2>2
<1>12. CASE Invalidate
  BY <1>1, <1>2, <1>4, <1>12 DEF Invalidate, memory, StageInv
<1>13. CASE WriteArtifact
  <2>1. UNCHANGED <<watermark, checkpoint, loaded>> /\ loaded /\ checkpoint = None
    BY <1>13 DEF WriteArtifact, StageInv
  <2>2. mem'.through = mem.through /\ mem'.incomplete = mem.incomplete
    BY <1>13 DEF WriteArtifact, TypeOK, Indexes
  <2>3. Tells(mem, stored', artifacts') /\ Tells(Mark, stored', artifacts')
    BY <1>2, <1>13, <2>1, WriteIsTold
  <2>4. Tells(mem', stored', artifacts')
    BY <2>2, <2>3 DEF Tells
  <2> QED BY <1>4, <2>1, <2>3, <2>4
<1>14. CASE Prune
  <2>1. /\ UNCHANGED <<artifacts, stored, checkpoint>> /\ pc = "prune"
        /\ Covers(mem) /\ Covers(Mark)
    BY <1>2, <1>14 DEF Prune, Loading
  <2>2. CASE UNCHANGED <<watermark, mem, todo>>
    BY <1>1, <1>2, <1>4, <2>1, <2>2
  <2>3. ASSUME NEW kept \in Newest(mem.runs),
               mem' = [mem EXCEPT !.through = EvictedThrough(mem.runs \ kept, mem.through)],
               watermark' = [through |-> EvictedThrough(mem.runs \ kept, mem.through),
                             incomplete |-> mem.incomplete]
        PROVE  Tells(mem', stored', artifacts') /\ Tells(Mark', stored', artifacts')
    <3>1. /\ mem'.through \in Times \cup {0} /\ mem.through <= mem'.through
          /\ mem'.incomplete = mem.incomplete
          /\ watermark' = [through |-> mem'.through, incomplete |-> mem'.incomplete]
      BY <2>1, <2>3, PrunedTypes
    <3>2. mem.through \in Nat /\ mem'.through \in Nat
      BY <3>1, MemTypes, IndexAssumption
    <3>3. \A n \in Names : stored[n] # None => stored[n].at \in Nat
      BY IndexAssumption DEF TypeOK, Runs
    <3>4. Tells(mem', stored', artifacts')
      BY <2>1, <3>1, <3>2, <3>3 DEF Covers, Tells
    <3>5. mem'.incomplete \in BOOLEAN
      BY <3>1, MemTypes
    <3> QED BY <1>5, <3>1, <3>4, <3>5
  <2> QED BY <1>1, <1>2, <1>14, <2>1, <2>2, <2>3 DEF Prune
<1>15. CASE Delete
  <2>1. /\ UNCHANGED <<stored, checkpoint, watermark, mem>> /\ checkpoint = None
        /\ Covers(mem)
        /\ watermark = [through |-> mem.through, incomplete |-> mem.incomplete]
    BY <1>2, <1>15 DEF Delete, memory, StageInv, PruneInv, Loading
  <2>2. Tells(mem, stored, artifacts')
    BY <1>15, <2>1, RemovalIsTold
  <2>3. Tells(Mark', stored', artifacts')
    BY <1>5, <2>1, <2>2, MemTypes
  <2> QED BY <2>1, <2>2, <2>3
<1>16. CASE Deleted
  <2>1. /\ UNCHANGED <<artifacts, stored, checkpoint, watermark>>
        /\ mem'.through = mem.through /\ mem'.incomplete = mem.incomplete
        /\ Covers(mem) /\ Covers(Mark)
    BY <1>2, <1>16 DEF Deleted, disk, Loading, TypeOK, Indexes
  <2>2. Covers(mem')
    BY <2>1 DEF Covers, Tells
  <2> QED BY <1>1, <1>2, <1>4, <2>1, <2>2
<1>17. CASE Save
  <2>1. /\ UNCHANGED <<artifacts, stored, watermark, mem>> /\ checkpoint'.index = mem
        /\ Covers(mem) /\ Covers(Mark)
    BY <1>2, <1>17 DEF Save, Loading
  <2> QED BY <1>1, <1>4, <2>1
<1>18. CASE Clean
  <2>1. /\ UNCHANGED <<artifacts, stored, watermark, checkpoint, mem>>
        /\ Covers(mem) /\ Covers(Mark)
    BY <1>2, <1>18 DEF Clean, Loading
  <2> QED BY <1>1, <1>2, <1>4, <2>1
<1>19. CASE Fails
  <2>1. /\ UNCHANGED <<artifacts, stored, watermark, loaded>> /\ pc' = "idle"
        /\ checkpoint' = checkpoint \/ (pc \in {"put", "scan"} /\ checkpoint' = None)
        /\ mem' = mem \/ pc = "prune"
    BY <1>19 DEF Fails
  <2>2. pc = "put" => loaded
    BY DEF StageInv
  <2>3. Covers(mem) => Covers(mem')
    <3>1. CASE mem' = mem
      BY <3>1
    <3>2. ASSUME pc = "prune", NEW kept \in Newest(mem.runs),
                 mem' = [mem EXCEPT !.through = EvictedThrough(mem.runs \ kept, mem.through)]
          PROVE  Covers(mem) => Covers(mem')
      <4>1. /\ mem'.through \in Times \cup {0} /\ mem.through <= mem'.through
            /\ mem'.incomplete = mem.incomplete
        BY <3>2, PrunedTypes
      <4>2. mem.through \in Nat /\ mem'.through \in Nat
        BY <4>1, MemTypes, IndexAssumption
      <4>3. \A n \in Names : stored[n] # None => stored[n].at \in Nat
        BY IndexAssumption DEF TypeOK, Runs
      <4> QED BY <4>1, <4>2, <4>3 DEF Covers, Tells
    <3> QED BY <1>19, <3>1, <3>2 DEF Fails
  <2> QED BY <1>1, <1>2, <1>4, <2>1, <2>2, <2>3 DEF Loading
<1>20. CASE Crash
  BY <1>1, <1>2, <1>4, <1>20 DEF Crash, disk, Loading
<1> QED BY <1>6, <1>7, <1>8, <1>9, <1>10, <1>11, <1>12, <1>13, <1>14, <1>15, <1>16, <1>17,
           <1>18, <1>19, <1>20 DEF Next

-----------------------------------------------------------------------------
(* The theorems.                                                             *)

LEMMA RecordInit ==
    Init => RecordInv
<1> SUFFICES ASSUME Init PROVE RecordInv
  OBVIOUS
<1>1. TypeOK
  BY TypeInit
<1>2. /\ ~loaded /\ pc = "idle" /\ req = None /\ pending = 0 /\ watermark = None
      /\ ~InUse /\ ~Unwritten /\ Mark = [through |-> 0, incomplete |-> FALSE]
  BY DEF Init, InUse, Loading, Unwritten, Mark
<1>3. HistoryInv /\ HistoryIsComplete /\ StageInv /\ PruneInv
  BY <1>2 DEF HistoryInv, HistoryIsComplete, StageInv, PruneInv
<1>4. MaxRecords \in Nat /\ MaxRecords >= 1
  BY IndexAssumption
<1>5. CASE Fresh
  <2>1. /\ artifacts = {} /\ checkpoint = None
        /\ \A n \in Names : stored[n] = None
    BY <1>5 DEF Fresh
  <2>2. StoredInv
    BY <1>2, <2>1, FS_EmptySet DEF StoredInv
  <2>3. CheckpointIsFresh /\ CheckpointIsBounded
    BY <2>1 DEF CheckpointIsFresh, CheckpointIsBounded
  <2>4. EvictionInv
    BY <1>2, <2>1 DEF EvictionInv, Covers, Tells, Loading
  <2> QED BY <1>1, <1>3, <2>2, <2>3, <2>4 DEF RecordInv, IndexInv
<1>6. CASE Legacy
  <2>1. PICK r \in Runs, evicted \in Runs : LegacyOf(r, evicted)
    BY <1>6 DEF Legacy
  <2>2. /\ artifacts = {r} /\ r.name # evicted.name /\ evicted.queued < r.queued
        /\ checkpoint.version = 1
        /\ checkpoint.index.through = evicted.at
        /\ checkpoint.index.runs = IF dirty THEN {} ELSE {r}
        /\ \A n \in Names : stored[n] = IF n = r.name THEN r
                                        ELSE IF n = evicted.name THEN evicted ELSE None
    BY <2>1 DEF LegacyOf
  <2>3. /\ r # None /\ evicted # None /\ r.name \in Names /\ evicted.name \in Names
        /\ r.queued \in Nat /\ evicted.queued \in Nat /\ evicted.at \in Nat
    BY NoneAssumption, IndexAssumption DEF Runs
  <2>4. checkpoint # None
    <3>1. checkpoint \in Checkpoints
      <4>1. evicted.at \in Times
        BY DEF Runs
      <4> QED BY <2>1, <4>1 DEF LegacyOf, Checkpoints, Indexes
    <3> QED BY <3>1, NoneAssumption
  <2>5. /\ IsFiniteSet(artifacts)
        /\ Cardinality(checkpoint.index.runs) \in Nat /\ Cardinality(checkpoint.index.runs) <= 1
    <3>1. IsFiniteSet({r}) /\ Cardinality({r}) = 1 /\ Cardinality({}) = 0
      BY FS_EmptySet, FS_Singleton
    <3>2. CASE dirty
      BY <2>2, <3>1, <3>2
    <3>3. CASE ~dirty
      BY <2>2, <3>1, <3>3
    <3> QED BY <3>2, <3>3
  <2>6. StoredInv
    <3>1. \A n \in Names : stored[n] # None => stored[n].name = n
      BY <2>2
    <3>2. ASSUME NEW m \in Names, NEW n \in Names, stored[m] # None, stored[n] # None,
                 stored[m].queued = stored[n].queued
          PROVE  m = n
      BY <2>2, <2>3, <3>2
    <3>3. \A a \in artifacts : stored[a.name] = a
      BY <2>2, <2>3
    <3> QED BY <1>2, <2>5, <3>1, <3>2, <3>3 DEF StoredInv
  <2>7. CheckpointIsFresh
    BY <2>2 DEF CheckpointIsFresh
  <2>8. CheckpointIsBounded
    BY <1>4, <2>5 DEF CheckpointIsBounded
  <2>9. Covers(checkpoint.index)
    BY <2>2, <2>3 DEF Covers, Tells
  <2> QED BY <1>1, <1>2, <1>3, <2>2, <2>4, <2>6, <2>7, <2>8, <2>9
          DEF RecordInv, IndexInv, EvictionInv, Loading
<1> QED BY <1>5, <1>6 DEF Init

LEMMA RecordNext ==
    ASSUME RecordInv, [Next]_vars
    PROVE  RecordInv'
<1> USE DEF RecordInv, IndexInv
<1>1. CASE Next
  <2>1. TypeOK' /\ StageInv' /\ StoredInv' /\ PruneInv' /\ EvictionInv'
    BY <1>1, TypeNext, StageNext, StoredNext, PruneNext, EvictionNext
  <2>2. HistoryInv' /\ CheckpointIsFresh' /\ CheckpointIsBounded'
    BY <1>1, HistoryNext, FreshNext
  <2>3. HistoryIsComplete'
    BY <2>2 DEF HistoryInv, HistoryIsComplete, InUse
  <2> QED BY <2>1, <2>2, <2>3
<1>2. CASE UNCHANGED vars
  <2>1. UNCHANGED <<artifacts, junk, checkpoint, watermark, dirty, mem, loaded, pending, pc, req,
                    todo, stored, faults>>
    BY <1>2 DEF vars, disk, memory, op
  <2> QED BY <2>1 DEF TypeOK, CheckpointIsFresh, CheckpointIsBounded, HistoryIsComplete, StageInv,
                      StoredInv, Unwritten, Storable, HistoryInv, InUse, Newer, PruneInv,
                      EvictionInv, Covers, Tells, Mark
<1> QED BY <1>1, <1>2

\* The inductive invariant of the index holds, across failed operations, restarts and
\* directories of an earlier release.
THEOREM RecordHolds ==
    Spec => []RecordInv
<1> QED BY RecordInit, RecordNext, PTL DEF Spec

\* load, prune and save: a checkpoint that a restart would trust lists exactly the
\* artifacts of the directory and no more than it may keep, and a loaded index misses
\* none of them.
THEOREM IndexIsSound ==
    Spec => []IndexInv
<1>1. RecordInv => IndexInv
  BY DEF RecordInv
<1> QED BY <1>1, RecordHolds, PTL

\* Recent: an answer that does not say it is incomplete has every normal run ever stored
\* whose activity falls in the window.
THEOREM RecentTellsTheTruth ==
    Spec => []RecentIsHonest
<1>1. ASSUME RecordInv PROVE RecentIsHonest
  <2>1. SUFFICES ASSUME loaded, pc = "idle", NEW since \in Times, NEW answer \in Recent(since),
                        ~answer.incomplete,
                        NEW n \in Names \ Plans, stored[n] # None, stored[n].at >= since
                 PROVE  stored[n] \in answer.runs
    BY DEF RecentIsHonest
  <2>2. /\ answer.runs = InWindow(since)
        /\ ~mem.incomplete /\ ~(mem.through # 0 /\ mem.through >= since)
    <3>1. CASE Cardinality(InWindow(since)) <= MaxRecent
      <4>1. answer = [runs |-> InWindow(since),
                      incomplete |-> mem.incomplete \/ (mem.through # 0 /\ mem.through >= since)]
        BY <2>1, <3>1 DEF Recent
      <4> QED BY <2>1, <4>1
    <3>2. CASE ~(Cardinality(InWindow(since)) <= MaxRecent)
      <4>1. PICK part : answer = [runs |-> part, incomplete |-> TRUE]
        BY <2>1, <3>2 DEF Recent
      <4> QED BY <2>1, <4>1
    <3> QED BY <3>1, <3>2
  <2>3. stored[n] \in Runs /\ stored[n].at \in Nat /\ since \in Nat /\ since # 0 /\ mem.through \in Nat
    BY <1>1, <2>1, MemTypes, IndexAssumption DEF RecordInv, IndexInv, TypeOK, Runs
  <2>4. stored[n] \in artifacts
    <3>1. Covers(mem)
      BY <1>1, <2>1 DEF RecordInv, EvictionInv
    <3>2. ~(stored[n].at <= mem.through)
      BY <2>1, <2>2, <2>3
    <3> QED BY <2>1, <2>2, <3>1, <3>2 DEF Covers, Tells
  <2>5. stored[n] \in mem.runs /\ stored[n].name \notin Plans
    BY <1>1, <2>1, <2>4 DEF RecordInv, IndexInv, HistoryIsComplete, StoredInv
  <2> QED BY <2>1, <2>2, <2>5 DEF InWindow, Normal
<1> QED BY <1>1, RecordHolds, PTL

\* prune: a record leaves the directory only for the next one of the same commit, or
\* while MaxRecords newer ones are there.
THEOREM OnlyTheOldestAreEvicted ==
    Spec => EvictsOldest
<1> DEFINE Renewed == \A r \in artifacts \ artifacts' :
              \/ \E s \in artifacts' : s.name = r.name
              \/ Cardinality({s \in artifacts' : s.queued >= r.queued}) >= MaxRecords
<1>1. ASSUME RecordInv, RecordInv', [Next]_vars PROVE Renewed
  <2>1. CASE WriteArtifact
    <3>1. \A r \in artifacts \ artifacts' : req \in artifacts' /\ req.name = r.name
      BY <2>1 DEF WriteArtifact, Replace
    <3> QED BY <3>1
  <2>2. CASE Delete
    <3>1. PICK e \in todo : /\ artifacts' = artifacts \ {e} /\ e \in artifacts
                            /\ mem.runs \ todo \subseteq artifacts'
      BY <1>1, <2>2, RemovedRun DEF RecordInv, IndexInv
    <3> DEFINE newer == {s \in artifacts' : s.queued >= e.queued}
    <3>2. /\ Cardinality(mem.runs \ todo) = MaxRecords
          /\ \A k \in mem.runs \ todo : k.queued > e.queued
      BY <1>1, <2>2, <3>1 DEF Delete, RecordInv, PruneInv
    <3>3. \A s \in artifacts : s.queued \in Nat
      BY <1>1, IndexAssumption DEF RecordInv, IndexInv, TypeOK, Runs
    <3>4. mem.runs \ todo \subseteq newer
      BY <3>1, <3>2, <3>3
    <3>5. IsFiniteSet(newer)
      <4>1. newer \in SUBSET artifacts /\ IsFiniteSet(artifacts)
        BY <1>1, <3>1 DEF RecordInv, StoredInv
      <4> QED BY <4>1, FS_Subset
    <3>6. Cardinality(newer) >= MaxRecords
      <4> HIDE DEF newer
      <4>1. Cardinality(mem.runs \ todo) <= Cardinality(newer)
        BY <3>4, <3>5, FS_Subset
      <4>2. Cardinality(newer) \in Nat
        BY <3>5, FS_CardinalityType
      <4> QED BY <3>2, <4>1, <4>2, IndexAssumption
    <3> QED BY <3>1, <3>6
  <2>3. CASE ~WriteArtifact /\ ~Delete
    <3>1. artifacts' = artifacts
      BY <1>1, <2>3 DEF Next, BeginPut, BeginRead, LoadCheckpoint, LoadNothing, StartScan, Scan,
                        MarkIncomplete, Invalidate, Prune, Deleted, Save, Clean, Fails, Crash,
                        disk, memory, op, vars
    <3> QED BY <3>1
  <2> QED BY <2>1, <2>2, <2>3
<1>2. RecordInv /\ RecordInv' /\ [Next]_vars => [Renewed]_vars
  BY <1>1
<1> QED BY <1>2, RecordHolds, PTL DEF Spec, EvictsOldest

(***************************************************************************)
(* The monitoring of a repository: one shown as monitored is served, by    *)
(* one hook.                                                               *)
(***************************************************************************)

\* Every step is one of a request or of a sync.
LEMMA Who ==
  ASSUME MonitorNext
  PROVE  \E p \in Procs :
            \/ On(p) \/ Off(p) \/ HubStops(p)
            \/ SyncLoad(p) \/ SyncPut(p)
BY DEF MonitorNext, Procs

\* What moves of a process, read from the types.
LEMMA Moves ==
  ASSUME MonitorTypeOK, NEW p \in Procs, NEW from, NEW to, Goto(p, from, to)
  PROVE  /\ step[p] = from
         /\ \A q \in Procs : step'[q] = IF q = p THEN to ELSE step[q]
BY DEF MonitorTypeOK, Goto, Procs

LEMMA Leaves ==
  ASSUME MonitorTypeOK, NEW p \in Procs, NEW from, Leave(p, from)
  PROVE  /\ step[p] = from
         /\ \A q \in Procs : step'[q] = IF q = p THEN "idle" ELSE step[q]
         /\ \A q \in Procs : copy'[q] = IF q = p THEN <<FALSE, 0, 0, 0>> ELSE copy[q]
         /\ \A q \in Procs : mine'[q] = IF q = p THEN 0 ELSE mine[q]
BY Moves DEF MonitorTypeOK, Leave, Procs

\* What a process loaded and drew is made of hooks that were numbered.
LEMMA Numbered ==
  ASSUME MonitorTypeOK, NEW p \in Procs
  PROVE  /\ copy[p] \in BOOLEAN \X Numbers \X Numbers \X Numbers
         /\ Had(p) = [monitored |-> copy[p][1], hookId |-> copy[p][2],
                              hookKey |-> copy[p][3], badgeKey |-> copy[p][4]]
         /\ Had(p).monitored \in BOOLEAN /\ Had(p).hookId \in Numbers
         /\ Had(p).hookKey \in Numbers /\ Had(p).badgeKey \in Numbers
         /\ mine[p] \in Numbers
         /\ KeyOf(p) \in Numbers /\ BadgeOf(p) \in Numbers
<1>1. copy[p] \in BOOLEAN \X Numbers \X Numbers \X Numbers
      /\ mine[p] \in Numbers
  BY DEF MonitorTypeOK, Procs
<1>2. /\ copy[p][1] \in BOOLEAN /\ copy[p][2] \in Numbers
      /\ copy[p][3] \in Numbers /\ copy[p][4] \in Numbers
  BY <1>1
<1>3. Had(p) = [monitored |-> copy[p][1], hookId |-> copy[p][2],
                        hookKey |-> copy[p][3], badgeKey |-> copy[p][4]]
  BY DEF Had
<1> QED
  BY <1>1, <1>2, <1>3 DEF KeyOf, BadgeOf, Kept

LEMMA NumbersAre == Numbers = 0..MaxHooks /\ MaxHooks \in Nat /\ MaxFaults \in Nat
BY MonitorAssumption DEF MonitorAssumption, Numbers

LEMMA GotoTypes ==
  ASSUME MonitorTypeOK, NEW p \in Procs, NEW from, NEW to \in Steps, Goto(p, from, to)
  PROVE  step' \in [Procs -> Steps]
BY DEF MonitorTypeOK, Goto, Procs, Steps

LEMMA LeaveTypes ==
  ASSUME MonitorTypeOK, NEW p \in Procs, NEW from, Leave(p, from)
  PROVE  /\ step' \in [Procs -> Steps]
         /\ copy' \in [Procs -> BOOLEAN \X Numbers \X Numbers \X Numbers]
         /\ mine' \in [Procs -> Numbers]
<1>1. step' \in [Procs -> Steps]
  BY GotoTypes DEF Leave, Steps
<1>2. 0 \in Numbers
  BY NumbersAre
<1>3. <<FALSE, 0, 0, 0>> \in BOOLEAN \X Numbers \X Numbers \X Numbers
  BY <1>2
<1> QED
  BY <1>1, <1>2, <1>3 DEF Leave, MonitorTypeOK

LEMMA FaultTypes ==
  ASSUME MonitorTypeOK, Fault \/ NoFault
  PROVE  monitorFaults' \in 0..MaxFaults /\ broken' \in BOOLEAN
<1>1. monitorFaults \in 0..MaxFaults /\ broken \in BOOLEAN
  BY DEF MonitorTypeOK
<1>2. CASE Fault
  <2>1. monitorFaults' \in 0..MaxFaults
    BY <1>1, <1>2, NumbersAre DEF Fault
  <2> QED
    BY <1>2, <2>1 DEF Fault
<1>3. CASE NoFault
  BY <1>1, <1>3 DEF NoFault
<1> QED
  BY <1>2, <1>3

LEMMA MonitorTypeNext ==
  ASSUME MonitorTypeOK, NEW p \in Procs,
         On(p) \/ Off(p) \/ HubStops(p) \/ SyncLoad(p) \/ SyncPut(p)
  PROVE  MonitorTypeOK'
<1>1. CASE MonitorOn(p) \/ MonitorOff(p) \/ SyncLoad(p)
  <2> PICK to \in {"replace", "drop", "probe"} : Load(p, to)
    BY <1>1 DEF MonitorOn, MonitorOff, SyncLoad
  <2>1. step' \in [Procs -> Steps]
    BY GotoTypes DEF Load, Steps
  <2>2. copy' \in [Procs -> BOOLEAN \X Numbers \X Numbers \X Numbers]
    <3>1. repo \in BOOLEAN \X Numbers \X Numbers \X Numbers
      BY DEF MonitorTypeOK, repo
    <3> QED
      BY <3>1 DEF Load, MonitorTypeOK
  <2> QED
    BY <2>1, <2>2, FaultTypes DEF Load, MonitorTypeOK, Steps, repo, repoFiles, forge
<1>2. CASE DropStale(p) \/ DropStaleFails(p)
  <2>1. step' \in [Procs -> Steps]
    BY <1>2, GotoTypes DEF DropStale, DropStaleFails, Steps
  <2> QED
    BY <1>2, <2>1, FaultTypes DEF DropStale, DropStaleFails, MonitorTypeOK, Steps, repo, repoFiles, forge
<1>3. CASE Create(p)
  <2>1. step' \in [Procs -> Steps]
    BY <1>3, GotoTypes DEF Create, Steps
  <2>2. created' \in Numbers /\ created' \in 1..MaxHooks
    <3>1. created \in 0..MaxHooks /\ created < MaxHooks /\ created' = created + 1
      BY <1>3, NumbersAre DEF Create, MonitorTypeOK
    <3> QED
      BY <3>1, NumbersAre
  <2>3. Kept(Had(p).hookKey, created') \in Numbers
    BY <2>2, Numbered DEF Kept
  <2>4. mine' \in [Procs -> Numbers] /\ urlKey' \in [1..MaxHooks -> Numbers]
    BY <1>3, <2>2, <2>3 DEF Create, MonitorTypeOK
  <2> QED
    BY <1>3, <2>1, <2>2, <2>4, FaultTypes DEF Create, MonitorTypeOK, Steps, repo, repoFiles, forge
<1>4. CASE CreateFails(p) \/ InstallFails(p) \/ ClearFails(p) \/ HubStops(p)
  BY <1>4, LeaveTypes, FaultTypes DEF CreateFails, InstallFails, ClearFails,
     HubStops, MonitorTypeOK, Steps, repo, repoFiles, forge
<1>5. CASE Install(p) \/ PutHook(p) \/ DropHook(p) \/ DropRoute(p) \/ DropBadge(p)
  <2>1. step' \in [Procs -> Steps]
    BY <1>5, GotoTypes DEF Install, PutHook, DropHook, DropRoute, DropBadge, Steps
  <2>2. monitorFaults' \in 0..MaxFaults /\ broken' \in BOOLEAN
    BY <1>5, FaultTypes DEF Install, PutHook, DropHook, DropRoute, DropBadge
  <2>3. CASE Install(p)
    BY <2>1, <2>2, <2>3, Numbered DEF Install, MonitorTypeOK, Steps, forge
  <2>4. CASE PutHook(p)
    BY <2>1, <2>2, <2>4, Numbered DEF PutHook, MonitorTypeOK, Steps, repo, forge
  <2>5. CASE DropHook(p)
    BY <2>1, <2>2, <2>5 DEF DropHook, MonitorTypeOK, Steps, repo, repoFiles
  <2>6. CASE DropRoute(p) \/ DropBadge(p)
    BY <2>1, <2>2, <2>6 DEF DropRoute, DropBadge, MonitorTypeOK, Steps, repo, forge
  <2> QED
    BY <1>5, <2>3, <2>4, <2>5, <2>6
<1>6. CASE PutBadge(p)
  <2>1. monitorFaults' \in 0..MaxFaults /\ broken' \in BOOLEAN
    BY <1>6, FaultTypes DEF PutBadge, MonitorTypeOK
  <2> QED
    BY <1>6, <2>1, LeaveTypes, Numbered DEF PutBadge, MonitorTypeOK, Steps, repo, repoFiles, forge
<1>7. CASE Clear(p)
  <2>1. 0 \in Numbers
    BY NumbersAre
  <2> QED
    BY <1>7, <2>1, LeaveTypes, FaultTypes DEF Clear, MonitorTypeOK, Steps, repo, repoFiles, forge
<1>8. CASE SyncPut(p)
  BY <1>8, LeaveTypes, Numbered DEF SyncPut, MonitorTypeOK, Steps, repo, repoFiles, forge
<1>9. CASE On(p)
  BY <1>9, <1>1, <1>2, <1>3, <1>4, <1>5, <1>6 DEF On
<1>10. CASE Off(p)
  BY <1>10, <1>1, <1>4, <1>5, <1>7 DEF Off
<1> QED
  BY <1>4, <1>1, <1>8, <1>9, <1>10

\* A request or a sync that was left as it was renews what it renewed.
LEMMA HadStays ==
  ASSUME NEW q, copy'[q] = copy[q], mine'[q] = mine[q]
  PROVE  Had(q)' = Had(q) /\ KeyOf(q)' = KeyOf(q) /\ BadgeOf(q)' = BadgeOf(q)
BY DEF Had, KeyOf, BadgeOf, Kept

LEMMA IdsAre ==
  ASSUME MonitorTypeOK
  PROVE  /\ created \in Nat /\ hookId \in Nat
         /\ \A q \in Procs : Had(q).hookId \in Nat /\ mine[q] \in Nat
<1>1. Numbers \subseteq Nat
  BY NumbersAre
<1> QED
  BY <1>1, Numbered DEF MonitorTypeOK

-----------------------------------------------------------------------------
(* A hook that was created and is not stored yet is at the forge, and      *)
(* nobody else knows its number.                                           *)

\* A step that creates nothing, deletes a hook it had loaded and stores a number that
\* was known or its own.
LEMMA CreatedStays ==
  ASSUME MonitorTypeOK, CreatedInv, NEW p \in Procs,
         created' = created, urlKey' = urlKey,
         hooks' \subseteq hooks, hooks \ {Had(p).hookId} \subseteq hooks',
         \/ hookId' \in {hookId, 0, Had(p).hookId}
         \/ step[p] = "install" /\ step'[p] # "install" /\ hookId' = mine[p],
         \A q \in Procs : copy'[q] = copy[q] \/ copy'[q][2] \in {0, hookId},
         \A q \in Procs : step'[q] = "install" =>
             step[q] = "install" /\ copy'[q] = copy[q] /\ mine'[q] = mine[q]
  PROVE  CreatedInv'
<1>0. /\ created \in Nat /\ hookId \in Nat
      /\ \A q \in Procs : Had(q).hookId \in Nat /\ mine[q] \in Nat
  BY IdsAre
<1> USE <1>0
<1>1. \A q \in Procs : Had(q)'.hookId \in {Had(q).hookId, 0, hookId}
  BY DEF Had
<1>2. hooks' \subseteq 1..created' /\ hookId' \in Nat /\ hookId' <= created'
  <2>1. \A q \in Procs : step[q] = "install" => mine[q] <= created
    BY DEF CreatedInv
  <2> QED
    BY <2>1 DEF CreatedInv
<1>3. ASSUME NEW q \in Procs
      PROVE  Had(q)'.hookId <= created'
  BY <1>1 DEF CreatedInv
<1>4. ASSUME NEW q \in Procs, step'[q] = "install"
      PROVE  /\ mine'[q] \in hooks' /\ urlKey'[mine'[q]] = KeyOf(q)'
             /\ hookId' # mine'[q]
             /\ \A r \in Procs : Had(r)'.hookId # mine'[q]
             /\ \A r \in Procs \ {q} : step'[r] = "install" => mine'[r] # mine'[q]
  <2>1. step[q] = "install" /\ mine'[q] = mine[q] /\ KeyOf(q)' = KeyOf(q)
    BY <1>4, HadStays
  <2>2. /\ mine[q] \in hooks /\ urlKey[mine[q]] = KeyOf(q) /\ hookId # mine[q]
        /\ \A r \in Procs : Had(r).hookId # mine[q]
        /\ \A r \in Procs \ {q} : step[r] = "install" => mine[r] # mine[q]
    BY <2>1 DEF CreatedInv
  <2>3. mine[q] # 0
    BY <2>2 DEF CreatedInv
  <2>4. mine[q] \in hooks'
    BY <2>2
  <2>5. hookId' # mine[q]
    <3>1. CASE hookId' \in {hookId, 0, Had(p).hookId}
      BY <3>1, <2>2, <2>3
    <3>2. CASE step[p] = "install" /\ step'[p] # "install" /\ hookId' = mine[p]
      BY <3>2, <1>4, <2>2
    <3> QED
      BY <3>1, <3>2
  <2>6. \A r \in Procs : Had(r)'.hookId # mine[q]
    BY <1>1, <2>2, <2>3
  <2>7. \A r \in Procs \ {q} : step'[r] = "install" => mine'[r] # mine[q]
    BY <2>2
  <2> QED
    BY <2>1, <2>2, <2>4, <2>5, <2>6, <2>7
<1> QED
  BY <1>2, <1>3, <1>4 DEF CreatedInv

LEMMA CreatedCreate ==
  ASSUME MonitorTypeOK, CreatedInv, NEW p \in Procs, Create(p)
  PROVE  CreatedInv'
<1>0. /\ created \in Nat /\ hookId \in Nat
      /\ \A q \in Procs : Had(q).hookId \in Nat /\ mine[q] \in Nat
  BY IdsAre
<1> USE <1>0
<1>1. created' = created + 1 /\ created' \in 1..MaxHooks /\ hookId' = hookId
  <2>1. created' = created + 1 /\ created < MaxHooks /\ hookId' = hookId
    BY DEF Create, repoFiles, repo
  <2> QED
    BY <2>1, NumbersAre
<1>2. /\ hooks' = hooks \cup {created'}
      /\ \A q \in Procs : step'[q] = IF q = p THEN "install" ELSE step[q]
      /\ \A q \in Procs : mine'[q] = IF q = p THEN created' ELSE mine[q]
      /\ copy' = copy
  BY Moves DEF Create, MonitorTypeOK
<1>3. \A h \in 1..MaxHooks :
        urlKey'[h] = IF h = created' THEN Kept(Had(p).hookKey, created') ELSE urlKey[h]
  BY <1>1 DEF Create, MonitorTypeOK
<1>4. \A q \in Procs : Had(q)' = Had(q) /\ Had(q).hookId <= created
  BY <1>2 DEF Had, CreatedInv
<1>5. hooks \subseteq 1..created /\ hookId <= created
  BY DEF CreatedInv
<1>6. hooks' \subseteq 1..created' /\ hookId' <= created' /\ \A q \in Procs : Had(q)'.hookId <= created'
  <2>1. \A q \in Procs : Had(q).hookId <= created'
    BY <1>1, <1>4
  <2>2. \A q \in Procs : Had(q)'.hookId <= created'
    BY <1>4, <2>1
  <2>3. 1..created \subseteq 1..created' /\ created' \in 1..created' /\ hookId' <= created'
    BY <1>1, <1>5
  <2>4. hooks' \subseteq 1..created'
    BY <1>2, <1>5, <2>3
  <2> QED
    BY <2>2, <2>3, <2>4
<1>7. ASSUME NEW q \in Procs, step'[q] = "install"
      PROVE  /\ mine'[q] \in hooks' /\ urlKey'[mine'[q]] = KeyOf(q)'
             /\ hookId' # mine'[q]
             /\ \A r \in Procs : Had(r)'.hookId # mine'[q]
             /\ \A r \in Procs \ {q} : step'[r] = "install" => mine'[r] # mine'[q]
  <2>0. \A r \in Procs \ {p} : step'[r] = "install" => mine'[r] = mine[r] /\ mine[r] \in 1..created
    BY <1>2, <1>5 DEF CreatedInv
  <2>1. CASE q = p
    <3>1. mine'[q] = created' /\ urlKey'[created'] = Kept(Had(q)'.hookKey, created')
      BY <2>1, <1>1, <1>2, <1>3, <1>4
    <3>2. \A r \in Procs : Had(r)'.hookId # created'
      BY <1>1, <1>4
    <3>3. \A r \in Procs \ {p} : step'[r] = "install" => mine'[r] # created'
      BY <1>1, <2>0
    <3> QED
      BY <2>1, <3>1, <3>2, <3>3, <1>1, <1>2, <1>5 DEF KeyOf
  <2>2. CASE q # p
    <3>1. /\ mine[q] \in hooks /\ urlKey[mine[q]] = KeyOf(q) /\ hookId # mine[q]
          /\ \A r \in Procs : Had(r).hookId # mine[q]
          /\ \A r \in Procs \ {q} : step[r] = "install" => mine[r] # mine[q]
      BY <2>2, <1>2, <1>7 DEF CreatedInv
    <3>2. mine'[q] = mine[q] /\ mine[q] # created' /\ mine[q] \in 1..MaxHooks
      <4>1. mine'[q] = mine[q] /\ mine[q] \in 1..created
        BY <2>2, <2>0, <1>7
      <4> QED
        BY <4>1, <1>1, NumbersAre
    <3>3. KeyOf(q)' = KeyOf(q)
      BY <1>2, <3>2, HadStays
    <3>4. urlKey'[mine[q]] = KeyOf(q)'
      BY <1>3, <3>1, <3>2, <3>3
    <3> QED
      BY <3>1, <3>2, <3>4, <1>1, <1>2, <1>4
  <2> QED
    BY <2>1, <2>2
<1> QED
  BY <1>6, <1>7 DEF CreatedInv

\* What the handler loads names the stored hook, and what it leaves names none.
LEMMA LoadIds ==
  ASSUME MonitorTypeOK, NEW p \in Procs, NEW to, Load(p, to)
  PROVE  /\ step[p] = "idle" /\ copy'[p] = repo /\ repo' = repo
         /\ copy'[p][2] = hookId
         /\ \A q \in Procs \ {p} : step'[q] = step[q] /\ copy'[q] = copy[q] /\ mine'[q] = mine[q]
         /\ step'[p] = to /\ mine' = mine
BY Moves DEF Load, MonitorTypeOK, repo, repoFiles

LEMMA CreatedNext ==
  ASSUME MonitorTypeOK, CreatedInv, NEW p \in Procs,
         On(p) \/ Off(p) \/ HubStops(p) \/ SyncLoad(p) \/ SyncPut(p)
  PROVE  CreatedInv'
<1>1. CASE MonitorOn(p) \/ MonitorOff(p) \/ SyncLoad(p)
  <2> PICK to \in {"replace", "drop", "probe"} : Load(p, to)
    BY <1>1 DEF MonitorOn, MonitorOff, SyncLoad
  <2>1. /\ \A q \in Procs : copy'[q] = copy[q] \/ copy'[q][2] \in {0, hookId}
        /\ \A q \in Procs : step'[q] = "install" =>
             step[q] = "install" /\ copy'[q] = copy[q] /\ mine'[q] = mine[q]
    BY LoadIds
  <2>2. created' = created /\ urlKey' = urlKey /\ hooks' = hooks /\ hookId' = hookId
    BY DEF Load, repoFiles, repo, forge
  <2> QED
    BY <2>1, <2>2, CreatedStays
<1>2. CASE DropStale(p) \/ DropStaleFails(p)
  <2>1. \A q \in Procs : step'[q] = "install" => step[q] = "install"
    BY <1>2, Moves DEF DropStale, DropStaleFails
  <2>2. /\ created' = created /\ urlKey' = urlKey /\ hookId' = hookId /\ copy' = copy /\ mine' = mine
        /\ hooks' \subseteq hooks /\ hooks \ {Had(p).hookId} \subseteq hooks'
    BY <1>2 DEF DropStale, DropStaleFails, repoFiles, repo, forge
  <2> QED
    BY <2>1, <2>2, CreatedStays
<1>3. CASE Create(p)
  BY <1>3, CreatedCreate
<1>4. CASE CreateFails(p) \/ InstallFails(p) \/ ClearFails(p) \/ HubStops(p) \/ PutBadge(p) \/ Clear(p) \/ SyncPut(p)
  <2>0. PICK from : Leave(p, from)
    BY <1>4 DEF CreateFails, InstallFails, ClearFails, HubStops, PutBadge, Clear, SyncPut
  <2>1. /\ \A q \in Procs : copy'[q] = copy[q] \/ copy'[q][2] \in {0, hookId}
        /\ \A q \in Procs : step'[q] = "install" =>
             step[q] = "install" /\ copy'[q] = copy[q] /\ mine'[q] = mine[q]
    <3>1. <<FALSE, 0, 0, 0>>[2] = 0
      OBVIOUS
    <3> QED
      BY <2>0, <3>1, Leaves
  <2>2. created' = created /\ urlKey' = urlKey /\ hooks' = hooks
    BY <1>4 DEF CreateFails, InstallFails, ClearFails, HubStops, PutBadge, Clear, SyncPut, forge
  <2>3. hookId' \in {hookId, 0, Had(p).hookId}
    BY <1>4 DEF CreateFails, InstallFails, ClearFails, HubStops, PutBadge, Clear, SyncPut, repo, repoFiles
  <2> QED
    BY <2>1, <2>2, <2>3, CreatedStays
<1>5. CASE Install(p)
  <2>1. /\ step[p] = "install" /\ step'[p] # "install" /\ hookId' = mine[p]
        /\ \A q \in Procs : step'[q] = "install" => step[q] = "install"
    BY <1>5, Moves DEF Install
  <2>2. created' = created /\ urlKey' = urlKey /\ hooks' = hooks /\ copy' = copy /\ mine' = mine
    BY <1>5 DEF Install, forge
  <2> QED
    BY <2>1, <2>2, CreatedStays
<1>6. CASE PutHook(p) \/ DropHook(p) \/ DropRoute(p) \/ DropBadge(p)
  <2>1. \A q \in Procs : step'[q] = "install" => step[q] = "install"
    <3>1. \/ Goto(p, "route", "badge") \/ Goto(p, "route", "badge, unrouted")
          \/ Goto(p, "drop", "unroute") \/ Goto(p, "unroute", "unbadge") \/ Goto(p, "unbadge", "clear")
      BY <1>6 DEF PutHook, DropHook, DropRoute, DropBadge
    <3> QED
      BY <3>1 DEF Goto, MonitorTypeOK
  <2>2. /\ created' = created /\ urlKey' = urlKey /\ hookId' = hookId /\ copy' = copy /\ mine' = mine
        /\ hooks' \subseteq hooks /\ hooks \ {Had(p).hookId} \subseteq hooks'
    BY <1>6 DEF PutHook, DropHook, DropRoute, DropBadge, repoFiles, repo, forge
  <2> QED
    BY <2>1, <2>2, CreatedStays
<1> QED
  BY <1>1, <1>2, <1>3, <1>4, <1>5, <1>6 DEF On, Off

-----------------------------------------------------------------------------
(* What a monitored repository misses, a request under way renews.         *)

LEMMA RenewsStays ==
  ASSUME NEW q, step'[q] = step[q], copy'[q] = copy[q], mine'[q] = mine[q], repo' = repo
  PROVE  /\ RenewsHook(q)' <=> RenewsHook(q)
         /\ RenewsRoute(q)' <=> RenewsRoute(q)
         /\ RenewsBadge(q)' <=> RenewsBadge(q)
<1>1. hookId' = hookId /\ hookKey' = hookKey /\ badgeKey' = badgeKey
  BY DEF repo
<1> QED
  BY <1>1, HadStays DEF RenewsHook, RenewsRoute, RenewsBadge

\* A step that leaves the repository as it is, and renews what it was about to renew or
\* what it removes.
LEMMA ServedStays ==
  ASSUME ServedInv, NEW p \in Procs, repo' = repo, broken => broken',
         hookId # 0 => urlKey'[hookId] = urlKey[hookId],
         \A q \in Procs \ {p} : step'[q] = step[q] /\ copy'[q] = copy[q] /\ mine'[q] = mine[q],
         hookId \in hooks \/ RenewsHook(p) => hookId \in hooks' \/ RenewsHook(p)',
         hookKey \in routes \/ RenewsRoute(p) => hookKey \in routes' \/ RenewsRoute(p)',
         badgeKey \in badges \/ RenewsBadge(p) => badgeKey \in badges' \/ RenewsBadge(p)'
  PROVE  ServedInv'
<1>1. monitored' = monitored /\ hookId' = hookId /\ hookKey' = hookKey /\ badgeKey' = badgeKey
  BY DEF repo
<1>2. \A q \in Procs \ {p} : /\ RenewsHook(q)' <=> RenewsHook(q)
                             /\ RenewsRoute(q)' <=> RenewsRoute(q)
                             /\ RenewsBadge(q)' <=> RenewsBadge(q)
  BY RenewsStays
<1>3. SUFFICES ASSUME monitored', ~broken'
               PROVE  /\ hookId' # 0 /\ urlKey'[hookId'] = hookKey'
                      /\ hookId' \in hooks' \/ \E q \in Procs : RenewsHook(q)'
                      /\ hookKey' \in routes' \/ \E q \in Procs : RenewsRoute(q)'
                      /\ badgeKey' \in badges' \/ \E q \in Procs : RenewsBadge(q)'
  BY DEF ServedInv
<1>4. /\ hookId # 0 /\ urlKey[hookId] = hookKey
      /\ hookId \in hooks \/ \E q \in Procs : RenewsHook(q)
      /\ hookKey \in routes \/ \E q \in Procs : RenewsRoute(q)
      /\ badgeKey \in badges \/ \E q \in Procs : RenewsBadge(q)
  BY <1>1, <1>3 DEF ServedInv
<1>5. hookId \in hooks' \/ \E q \in Procs : RenewsHook(q)'
  BY <1>2, <1>4
<1>6. hookKey \in routes' \/ \E q \in Procs : RenewsRoute(q)'
  BY <1>2, <1>4
<1>7. badgeKey \in badges' \/ \E q \in Procs : RenewsBadge(q)'
  BY <1>2, <1>4
<1> QED
  BY <1>1, <1>4, <1>5, <1>6, <1>7

\* A step after which something is broken, or nothing is monitored, has nothing to keep.
LEMMA ServedTrivially ==
  ASSUME broken' \/ ~monitored'
  PROVE  ServedInv'
BY DEF ServedInv

\* What a step of p leaves of the others.
LEMMA OthersStay ==
  ASSUME MonitorTypeOK, NEW p \in Procs, NEW from, NEW to,
         Goto(p, from, to) /\ UNCHANGED copy /\ UNCHANGED mine
  PROVE  /\ \A q \in Procs \ {p} : step'[q] = step[q] /\ copy'[q] = copy[q] /\ mine'[q] = mine[q]
         /\ step[p] = from /\ step'[p] = to /\ Had(p)' = Had(p) /\ KeyOf(p)' = KeyOf(p)
         /\ BadgeOf(p)' = BadgeOf(p)
BY Moves, HadStays

LEMMA OthersStayWhenItLeaves ==
  ASSUME MonitorTypeOK, NEW p \in Procs, NEW from, Leave(p, from)
  PROVE  /\ \A q \in Procs \ {p} : step'[q] = step[q] /\ copy'[q] = copy[q] /\ mine'[q] = mine[q]
         /\ step[p] = from /\ step'[p] = "idle"
BY Leaves

LEMMA ServedNext ==
  ASSUME MonitorTypeOK, CreatedInv, ServedInv, AloneInv, NEW p \in Procs,
         On(p) \/ Off(p) \/ HubStops(p) \/ SyncLoad(p) \/ SyncPut(p)
  PROVE  ServedInv'
<1>1. CASE MonitorOn(p) \/ MonitorOff(p) \/ SyncLoad(p)
  <2> PICK to \in {"replace", "drop", "probe"} : Load(p, to)
    BY <1>1 DEF MonitorOn, MonitorOff, SyncLoad
  <2>1. ~RenewsHook(p) /\ ~RenewsRoute(p) /\ ~RenewsBadge(p)
    BY LoadIds DEF RenewsHook, RenewsRoute, RenewsBadge
  <2>2. /\ repo' = repo /\ routes' = routes /\ badges' = badges /\ hooks' = hooks /\ urlKey' = urlKey
        /\ broken' = broken
    BY DEF Load, repoFiles, repo, forge, NoFault
  <2>3. \A q \in Procs \ {p} : step'[q] = step[q] /\ copy'[q] = copy[q] /\ mine'[q] = mine[q]
    BY LoadIds
  <2> QED
    BY <2>1, <2>2, <2>3, ServedStays
<1>2. CASE DropStale(p)
  <2>1. /\ repo' = repo /\ routes' = routes /\ badges' = badges /\ urlKey' = urlKey /\ broken' = broken
        /\ hookId' = hookId /\ hooks \ {Had(p).hookId} \subseteq hooks'
    BY <1>2 DEF DropStale, repoFiles, repo, NoFault
  <2>2. Goto(p, "replace", "create") /\ UNCHANGED copy /\ UNCHANGED mine
    BY <1>2 DEF DropStale
  <2>3. hookId \in hooks => hookId \in hooks' \/ RenewsHook(p)'
    BY <2>1, <2>2, OthersStay DEF RenewsHook
  <2>4. ~RenewsHook(p) /\ ~RenewsRoute(p) /\ ~RenewsBadge(p)
    BY <2>2, OthersStay DEF RenewsHook, RenewsRoute, RenewsBadge
  <2>5. \A q \in Procs \ {p} : step'[q] = step[q] /\ copy'[q] = copy[q] /\ mine'[q] = mine[q]
    BY <2>2, OthersStay
  <2> QED
    BY <2>1, <2>3, <2>4, <2>5, ServedStays
<1>3. CASE Create(p)
  <2>1. /\ repo' = repo /\ routes' = routes /\ badges' = badges /\ broken' = broken /\ hookId' = hookId
        /\ hooks \subseteq hooks' /\ created' = created + 1 /\ copy' = copy
    BY <1>3 DEF Create, repoFiles, repo, NoFault
  <2>2. hookId # 0 => urlKey'[hookId] = urlKey[hookId]
    <3>1. hookId # created' /\ (hookId # 0 => hookId \in 1..MaxHooks)
      <4>1. hookId <= created
        BY DEF CreatedInv
      <4>2. hookId \in 0..MaxHooks
        BY NumbersAre DEF MonitorTypeOK
      <4> QED
        BY <2>1, <4>1, <4>2, IdsAre, NumbersAre
    <3>2. urlKey' = [urlKey EXCEPT ![created'] = Kept(Had(p).hookKey, created')]
      BY <1>3 DEF Create
    <3>3. urlKey \in [1..MaxHooks -> Numbers]
      BY DEF MonitorTypeOK
    <3> QED
      BY <3>1, <3>2, <3>3
  <2>3. Goto(p, "create", "install")
    BY <1>3 DEF Create
  <2>4. \A q \in Procs \ {p} : step'[q] = step[q] /\ copy'[q] = copy[q] /\ mine'[q] = mine[q]
    <3>1. mine' = [mine EXCEPT ![p] = created'] /\ mine \in [Procs -> Numbers]
      BY <1>3 DEF Create, MonitorTypeOK
    <3> QED
      BY <2>1, <2>3, <3>1, Moves
  <2>5. step[p] = "create" /\ step'[p] = "install" /\ Had(p)' = Had(p)
    BY <2>1, <2>3, Moves DEF Had
  <2>6. /\ RenewsHook(p) => RenewsHook(p)'
        /\ ~RenewsRoute(p) /\ ~RenewsBadge(p)
    BY <2>1, <2>5 DEF RenewsHook, RenewsRoute, RenewsBadge
  <2> QED
    BY <2>1, <2>2, <2>4, <2>6, ServedStays
<1>4. CASE DropStaleFails(p) \/ CreateFails(p) \/ InstallFails(p) \/ ClearFails(p) \/ HubStops(p) \/ Clear(p)
  <2>1. broken' \/ ~monitored'
    BY <1>4 DEF DropStaleFails, CreateFails, InstallFails, ClearFails, HubStops, Clear, Fault
  <2> QED
    BY <2>1, ServedTrivially
<1>5. CASE Install(p)
  <2>1. /\ hookId' = mine[p] /\ hookKey' = KeyOf(p) /\ badgeKey' = BadgeOf(p)
        /\ hooks' = hooks /\ urlKey' = urlKey
        /\ Goto(p, "install", "route") /\ UNCHANGED copy /\ UNCHANGED mine
    BY <1>5 DEF Install, forge
  <2>2. step[p] = "install" /\ step'[p] = "route" /\ KeyOf(p)' = KeyOf(p) /\ BadgeOf(p)' = BadgeOf(p)
    BY <2>1, OthersStay
  <2>3. mine[p] \in hooks /\ urlKey[mine[p]] = KeyOf(p) /\ mine[p] # 0
    BY <2>2, IdsAre DEF CreatedInv
  <2>4. RenewsRoute(p)' /\ RenewsBadge(p)'
    BY <2>1, <2>2 DEF RenewsRoute, RenewsBadge
  <2> QED
    BY <2>1, <2>3, <2>4 DEF ServedInv
<1>6. CASE PutHook(p)
  <2>1. CASE broken'
    BY <2>1, ServedTrivially
  <2>2. CASE ~broken'
    <3>1. /\ Goto(p, "route", "badge") /\ UNCHANGED copy /\ UNCHANGED mine
          /\ routes' = routes \cup {KeyOf(p)}
      BY <1>6, <2>2 DEF PutHook, Fault
    <3>2. /\ repo' = repo /\ badges' = badges /\ hooks' = hooks /\ urlKey' = urlKey
          /\ hookKey' = hookKey /\ badgeKey' = badgeKey
      BY <1>6 DEF PutHook, repo, forge
    <3>6. broken => broken'
      BY <1>6 DEF PutHook, Fault, NoFault
    <3>3. step[p] = "route" /\ step'[p] = "badge" /\ KeyOf(p)' = KeyOf(p) /\ BadgeOf(p)' = BadgeOf(p)
      BY <3>1, OthersStay
    <3>4. /\ ~RenewsHook(p)
          /\ RenewsRoute(p) => hookKey \in routes'
          /\ RenewsBadge(p) => RenewsBadge(p)'
      BY <3>1, <3>2, <3>3 DEF RenewsHook, RenewsRoute, RenewsBadge
    <3>5. \A q \in Procs \ {p} : step'[q] = step[q] /\ copy'[q] = copy[q] /\ mine'[q] = mine[q]
      BY <3>1, OthersStay
    <3> QED
      BY <3>1, <3>2, <3>4, <3>5, <3>6, ServedStays
  <2> QED
    BY <2>1, <2>2
<1>7. CASE PutBadge(p)
  <2>0. Leave(p, step[p]) /\ step[p] \in {"badge", "badge, unrouted"}
    BY <1>7 DEF PutBadge
  <2>1. CASE broken'
    BY <2>1, ServedTrivially
  <2>2. CASE ~broken'
    <3>1. /\ badges' = badges \cup {BadgeOf(p)}
          /\ broken => ~overlap /\ step[p] = "badge"
      BY <1>7, <2>2 DEF PutBadge, Fault
    <3>2. /\ repo' = repo /\ routes' = routes /\ hooks' = hooks /\ urlKey' = urlKey
          /\ hookId' = hookId /\ hookKey' = hookKey /\ badgeKey' = badgeKey
      BY <1>7 DEF PutBadge, repo, forge
    <3>3. CASE broken
      <4>1. /\ hookId = mine[p] /\ hookKey = KeyOf(p) /\ badgeKey = BadgeOf(p)
            /\ mine[p] \in hooks /\ urlKey[mine[p]] = hookKey /\ hookKey \in routes
        BY <3>1, <3>3 DEF AloneInv
      <4>2. mine[p] # 0
        BY <4>1, IdsAre DEF CreatedInv
      <4> QED
        BY <3>1, <3>2, <4>1, <4>2 DEF ServedInv
    <3>4. CASE ~broken
      <4>1. /\ ~RenewsHook(p) /\ ~RenewsRoute(p)
            /\ RenewsBadge(p) => badgeKey \in badges'
        BY <2>0, <3>1 DEF RenewsHook, RenewsRoute, RenewsBadge
      <4>2. \A q \in Procs \ {p} : step'[q] = step[q] /\ copy'[q] = copy[q] /\ mine'[q] = mine[q]
        BY <2>0, OthersStayWhenItLeaves
      <4> QED
        BY <3>1, <3>2, <3>4, <4>1, <4>2, ServedStays
    <3> QED
      BY <3>3, <3>4
  <2> QED
    BY <2>1, <2>2
<1>8. CASE DropHook(p) \/ DropRoute(p) \/ DropBadge(p)
  <2>1. CASE broken'
    BY <2>1, ServedTrivially
  <2>2. CASE ~broken'
    <3>0. UNCHANGED copy /\ UNCHANGED mine
      BY <1>8 DEF DropHook, DropRoute, DropBadge
    <3>1. /\ repo' = repo /\ urlKey' = urlKey
          /\ hookId' = hookId /\ hookKey' = hookKey /\ badgeKey' = badgeKey
      BY <1>8 DEF DropHook, DropRoute, DropBadge, repoFiles, repo, forge
    <3>5. broken => broken'
      BY <1>8 DEF DropHook, DropRoute, DropBadge, Fault, NoFault
    <3>2. CASE DropHook(p)
      <4>1. /\ Goto(p, "drop", "unroute") /\ hooks' = hooks \ {Had(p).hookId}
            /\ routes' = routes /\ badges' = badges
        BY <3>2, <2>2 DEF DropHook, Fault, repoFiles
      <4>2. step[p] = "drop" /\ step'[p] = "unroute" /\ Had(p)' = Had(p)
        BY <3>0, <4>1, OthersStay
      <4>3. /\ ~RenewsHook(p) /\ ~RenewsRoute(p) /\ ~RenewsBadge(p)
            /\ hookId \in hooks => hookId \in hooks' \/ RenewsHook(p)'
        BY <3>1, <4>1, <4>2 DEF RenewsHook, RenewsRoute, RenewsBadge
      <4>4. \A q \in Procs \ {p} : step'[q] = step[q] /\ copy'[q] = copy[q] /\ mine'[q] = mine[q]
        BY <3>0, <4>1, OthersStay
      <4> QED
        BY <3>1, <3>5, <4>1, <4>3, <4>4, ServedStays
    <3>3. CASE DropRoute(p)
      <4>1. /\ Goto(p, "unroute", "unbadge") /\ hooks' = hooks /\ badges' = badges
        BY <3>3 DEF DropRoute, forge
      <4>2. step[p] = "unroute" /\ step'[p] = "unbadge" /\ Had(p)' = Had(p)
        BY <3>0, <4>1, OthersStay
      <4>3. /\ RenewsHook(p) => RenewsHook(p)'
            /\ RenewsRoute(p)' /\ ~RenewsBadge(p)
        BY <3>1, <4>2 DEF RenewsHook, RenewsRoute, RenewsBadge
      <4>4. \A q \in Procs \ {p} : step'[q] = step[q] /\ copy'[q] = copy[q] /\ mine'[q] = mine[q]
        BY <3>0, <4>1, OthersStay
      <4> QED
        BY <3>1, <3>5, <4>1, <4>3, <4>4, ServedStays
    <3>4. CASE DropBadge(p)
      <4>1. /\ Goto(p, "unbadge", "clear") /\ hooks' = hooks /\ routes' = routes
        BY <3>4 DEF DropBadge, forge
      <4>2. step[p] = "unbadge" /\ step'[p] = "clear" /\ Had(p)' = Had(p)
        BY <3>0, <4>1, OthersStay
      <4>3. /\ RenewsHook(p) => RenewsHook(p)'
            /\ RenewsRoute(p)' /\ RenewsBadge(p)'
        BY <3>1, <4>2 DEF RenewsHook, RenewsRoute, RenewsBadge
      <4>4. \A q \in Procs \ {p} : step'[q] = step[q] /\ copy'[q] = copy[q] /\ mine'[q] = mine[q]
        BY <3>0, <4>1, OthersStay
      <4> QED
        BY <3>1, <3>5, <4>1, <4>3, <4>4, ServedStays
    <3> QED
      BY <1>8, <3>2, <3>3, <3>4
  <2> QED
    BY <2>1, <2>2
<1>9. CASE SyncPut(p)
  <2>1. CASE broken'
    BY <2>1, ServedTrivially
  <2>2. CASE ~broken'
    <3>1. ~broken /\ ~overlap /\ Leave(p, "probe")
      BY <1>9, <2>2 DEF SyncPut
    <3>2. step[p] = "probe"
      BY <3>1, OthersStayWhenItLeaves
    <3>3. copy[p] = repo
      BY <3>1, <3>2 DEF AloneInv
    <3>4. repo' = repo
      BY <1>9, <3>3 DEF SyncPut, Had, repo
    <3>5. /\ routes' = routes /\ badges' = badges /\ hooks' = hooks /\ urlKey' = urlKey
      BY <1>9 DEF SyncPut, forge
    <3>6. ~RenewsHook(p) /\ ~RenewsRoute(p) /\ ~RenewsBadge(p)
      BY <3>2 DEF RenewsHook, RenewsRoute, RenewsBadge
    <3>7. \A q \in Procs \ {p} : step'[q] = step[q] /\ copy'[q] = copy[q] /\ mine'[q] = mine[q]
      BY <3>1, OthersStayWhenItLeaves
    <3> QED
      BY <3>1, <3>4, <3>5, <3>6, <3>7, ServedStays
  <2> QED
    BY <2>1, <2>2
<1> QED
  BY <1>1, <1>2, <1>3, <1>4, <1>5, <1>6, <1>7, <1>8, <1>9 DEF On, Off

-----------------------------------------------------------------------------
(* A request that is alone finds what it wrote.                            *)

\* A step of the only request under way, read from what it leaves.
LEMMA AloneStays ==
  ASSUME AloneInv, NEW p \in Procs, overlap' = overlap, ~Idle(p),
         \A q \in Procs \ {p} : step'[q] = step[q],
         step'[p] # "probe",
         step'[p] \in {"route", "badge", "badge, unrouted"} /\ ~overlap =>
             /\ monitored' /\ hookId' = mine'[p] /\ hookKey' = KeyOf(p)' /\ badgeKey' = BadgeOf(p)'
             /\ mine'[p] \in hooks' /\ urlKey'[mine'[p]] = hookKey',
         step'[p] = "badge" /\ ~overlap => hookKey' \in routes'
  PROVE  AloneInv'
<1>1. SUFFICES ASSUME ~overlap
               PROVE  AloneInv'
  BY DEF AloneInv
<1>2. \A q \in Procs \ {p} : step[q] = "idle" /\ step'[q] = "idle"
  BY <1>1 DEF AloneInv, Idle
<1>3. \A q, r \in Procs : q # r => Idle(q)' \/ Idle(r)'
  BY <1>2 DEF Idle
<1>4. ASSUME NEW q \in Procs
      PROVE  /\ step'[q] = "probe" => copy'[q] = repo'
             /\ step'[q] \in {"route", "badge", "badge, unrouted"} =>
                 /\ monitored' /\ hookId' = mine'[q] /\ hookKey' = KeyOf(q)' /\ badgeKey' = BadgeOf(q)'
                 /\ mine'[q] \in hooks' /\ urlKey'[mine'[q]] = hookKey'
             /\ step'[q] = "badge" => hookKey' \in routes'
  BY <1>1, <1>2
<1> QED
  BY <1>3, <1>4 DEF AloneInv

LEMMA AloneNext ==
  ASSUME MonitorTypeOK, CreatedInv, AloneInv, NEW p \in Procs,
         On(p) \/ Off(p) \/ HubStops(p) \/ SyncLoad(p) \/ SyncPut(p)
  PROVE  AloneInv'
<1>1. CASE MonitorOn(p) \/ MonitorOff(p) \/ SyncLoad(p)
  <2> PICK to \in {"replace", "drop", "probe"} : Load(p, to)
    BY <1>1 DEF MonitorOn, MonitorOff, SyncLoad
  <2>1. SUFFICES ASSUME ~overlap'
                 PROVE  AloneInv'
    BY DEF AloneInv
  <2>2. \A q \in Procs \ {p} : step[q] = "idle"
    BY <2>1 DEF Load, Idle
  <2>3. \A q \in Procs \ {p} : step'[q] = "idle"
    BY <2>2, LoadIds
  <2>4. \A q, r \in Procs : q # r => Idle(q)' \/ Idle(r)'
    BY <2>3 DEF Idle
  <2>5. step'[p] = to /\ copy'[p] = repo'
    BY LoadIds
  <2>6. ASSUME NEW q \in Procs
        PROVE  /\ step'[q] = "probe" => copy'[q] = repo'
               /\ step'[q] \notin {"route", "badge", "badge, unrouted"}
    BY <2>3, <2>5
  <2> QED
    BY <2>4, <2>6 DEF AloneInv
<1>2. CASE DropStale(p) \/ DropStaleFails(p) \/ Create(p)
  <2>1. Goto(p, "replace", "create") \/ Goto(p, "create", "install")
    BY <1>2 DEF DropStale, DropStaleFails, Create
  <2>2. /\ ~Idle(p) /\ step'[p] \in {"create", "install"}
        /\ \A q \in Procs \ {p} : step'[q] = step[q]
    BY <2>1 DEF Goto, MonitorTypeOK, Idle
  <2>3. overlap' = overlap
    BY <1>2 DEF DropStale, DropStaleFails, Create
  <2> QED
    BY <2>2, <2>3, AloneStays
<1>3. CASE CreateFails(p) \/ InstallFails(p) \/ ClearFails(p) \/ HubStops(p) \/ PutBadge(p) \/ Clear(p) \/ SyncPut(p)
  <2>0. Leave(p, "create") \/ Leave(p, "install") \/ Leave(p, "clear") \/ Leave(p, "probe")
        \/ (Leave(p, step[p]) /\ step[p] # "idle")
    BY <1>3 DEF CreateFails, InstallFails, ClearFails, HubStops, PutBadge, Clear, SyncPut, Idle
  <2>1. /\ ~Idle(p) /\ step'[p] = "idle"
        /\ \A q \in Procs \ {p} : step'[q] = step[q]
    BY <2>0 DEF Leave, Goto, MonitorTypeOK, Idle
  <2>2. overlap' = overlap
    BY <1>3 DEF CreateFails, InstallFails, ClearFails, HubStops, PutBadge, Clear, SyncPut
  <2> QED
    BY <2>1, <2>2, AloneStays
<1>4. CASE DropHook(p) \/ DropRoute(p) \/ DropBadge(p)
  <2>1. Goto(p, "drop", "unroute") \/ Goto(p, "unroute", "unbadge") \/ Goto(p, "unbadge", "clear")
    BY <1>4 DEF DropHook, DropRoute, DropBadge
  <2>2. /\ ~Idle(p) /\ step'[p] \in {"unroute", "unbadge", "clear"}
        /\ \A q \in Procs \ {p} : step'[q] = step[q]
    BY <2>1 DEF Goto, MonitorTypeOK, Idle
  <2>3. overlap' = overlap
    BY <1>4 DEF DropHook, DropRoute, DropBadge
  <2> QED
    BY <2>2, <2>3, AloneStays
<1>5. CASE Install(p)
  <2>1. /\ hookId' = mine[p] /\ hookKey' = KeyOf(p) /\ badgeKey' = BadgeOf(p) /\ monitored'
        /\ hooks' = hooks /\ urlKey' = urlKey /\ overlap' = overlap
        /\ Goto(p, "install", "route") /\ UNCHANGED copy /\ UNCHANGED mine
    BY <1>5 DEF Install, forge
  <2>2. /\ step[p] = "install" /\ step'[p] = "route" /\ mine'[p] = mine[p]
        /\ KeyOf(p)' = KeyOf(p) /\ BadgeOf(p)' = BadgeOf(p)
        /\ \A q \in Procs \ {p} : step'[q] = step[q]
    BY <2>1, OthersStay
  <2>3. mine[p] \in hooks /\ urlKey[mine[p]] = KeyOf(p)
    BY <2>2 DEF CreatedInv
  <2> QED
    BY <2>1, <2>2, <2>3, AloneStays DEF Idle
<1>6. CASE PutHook(p)
  <2>1. PICK to \in {"badge", "badge, unrouted"} :
            Goto(p, "route", to) /\ UNCHANGED copy /\ UNCHANGED mine
            /\ (to = "badge" => routes' = routes \cup {KeyOf(p)})
    BY <1>6 DEF PutHook
  <2>2. /\ step[p] = "route" /\ step'[p] = to /\ mine'[p] = mine[p]
        /\ KeyOf(p)' = KeyOf(p) /\ BadgeOf(p)' = BadgeOf(p)
        /\ \A q \in Procs \ {p} : step'[q] = step[q]
    BY <2>1, OthersStay
  <2>3. /\ monitored' = monitored /\ hookId' = hookId /\ hookKey' = hookKey /\ badgeKey' = badgeKey
        /\ hooks' = hooks /\ urlKey' = urlKey /\ overlap' = overlap
    BY <1>6 DEF PutHook, repo, forge
  <2>4. ~overlap =>
          /\ monitored /\ hookId = mine[p] /\ hookKey = KeyOf(p) /\ badgeKey = BadgeOf(p)
          /\ mine[p] \in hooks /\ urlKey[mine[p]] = hookKey
    BY <2>2 DEF AloneInv
  <2> QED
    BY <2>1, <2>2, <2>3, <2>4, AloneStays DEF Idle
<1> QED
  BY <1>1, <1>2, <1>3, <1>4, <1>5, <1>6 DEF On, Off

-----------------------------------------------------------------------------
(* What the invariant says once the requests are over.                     *)

LEMMA Delivered ==
  ASSUME ServedInv
  PROVE  DeliveredWhenMonitored
<1>1. SUFFICES ASSUME Quiescent, monitored, ~broken
               PROVE  (\E h \in hooks : Accepts(h)) /\ badgeKey \in badges
  BY DEF DeliveredWhenMonitored
<1>2. \A p \in Procs : ~RenewsHook(p) /\ ~RenewsRoute(p) /\ ~RenewsBadge(p)
  BY <1>1 DEF Quiescent, Idle, RenewsHook, RenewsRoute, RenewsBadge
<1>3. /\ urlKey[hookId] = hookKey /\ hookId \in hooks /\ hookKey \in routes
      /\ badgeKey \in badges
  BY <1>1, <1>2 DEF ServedInv
<1>4. Accepts(hookId)
  BY <1>1, <1>3 DEF Accepts
<1> QED
  BY <1>3, <1>4

\* Only the installed hook is accepted, whatever the others share with it.
LEMMA OneAccepted == OneHookAccepted
<1> DEFINE Accepted == {h \in hooks : Accepts(h)}
<1>1. Accepted \subseteq {hookId}
  BY DEF Accepts
<1>2. IsFiniteSet({hookId}) /\ Cardinality({hookId}) = 1
  BY FS_Singleton
<1>3. IsFiniteSet(Accepted) /\ Cardinality(Accepted) <= 1
  BY <1>1, <1>2, FS_Subset, FS_CardinalityType
<1> QED
  BY <1>3 DEF OneHookAccepted

LEMMA MonitorStarts ==
  ASSUME MonitorInit
  PROVE  MonitorInv
<1>1. 0 \in Numbers
  BY NumbersAre
<1>2. MonitorTypeOK
  <2>1. step \in [Procs -> Steps]
    BY DEF MonitorInit, Steps
  <2>2. copy \in [Procs -> BOOLEAN \X Numbers \X Numbers \X Numbers] /\ mine \in [Procs -> Numbers]
    BY <1>1 DEF MonitorInit
  <2>3. urlKey \in [1..MaxHooks -> Numbers]
    BY <1>1 DEF MonitorInit
  <2>4. monitorFaults \in 0..MaxFaults
    BY NumbersAre DEF MonitorInit
  <2> QED
    BY <1>1, <2>1, <2>2, <2>3, <2>4 DEF MonitorInit, MonitorTypeOK
<1>3. CreatedInv
  <2>1. \A p \in Procs : Had(p).hookId = 0 /\ step[p] # "install"
    BY DEF MonitorInit, Had
  <2> QED
    BY <2>1 DEF MonitorInit, CreatedInv
<1>4. ServedInv
  BY DEF MonitorInit, ServedInv
<1>5. AloneInv
  BY DEF MonitorInit, AloneInv, Idle
<1> QED
  BY <1>2, <1>3, <1>4, <1>5, Delivered, OneAccepted DEF MonitorInv

LEMMA MonitorGoesOn ==
  ASSUME MonitorInv, [MonitorNext]_monitorVars
  PROVE  MonitorInv'
<1>1. MonitorTypeOK' /\ CreatedInv' /\ ServedInv' /\ AloneInv'
  <2>1. CASE MonitorNext
    <3>1. PICK p \in Procs : On(p) \/ Off(p) \/ HubStops(p) \/ SyncLoad(p) \/ SyncPut(p)
      BY <2>1, Who
    <3> QED
      BY <3>1, MonitorTypeNext, CreatedNext, ServedNext, AloneNext DEF MonitorInv
  <2>2. CASE UNCHANGED monitorVars
    <3>1. /\ step' = step /\ copy' = copy /\ mine' = mine /\ overlap' = overlap /\ broken' = broken
          /\ monitorFaults' = monitorFaults /\ hooks' = hooks /\ urlKey' = urlKey /\ created' = created
          /\ routes' = routes /\ badges' = badges /\ monitored' = monitored /\ hookId' = hookId
          /\ hookKey' = hookKey /\ badgeKey' = badgeKey
      BY <2>2 DEF monitorVars, repoFiles, repo, forge
    <3>2. \A q : Had(q)' = Had(q) /\ KeyOf(q)' = KeyOf(q) /\ BadgeOf(q)' = BadgeOf(q)
      BY <3>1, HadStays
    <3>3. MonitorTypeOK'
      BY <3>1 DEF MonitorInv, MonitorTypeOK
    <3>4. CreatedInv'
      BY <3>1, <3>2 DEF MonitorInv, CreatedInv
    <3>5. ServedInv'
      BY <3>1, <3>2 DEF MonitorInv, ServedInv, RenewsHook, RenewsRoute, RenewsBadge
    <3>6. AloneInv'
      BY <3>1, <3>2 DEF MonitorInv, AloneInv, Idle, repo
    <3> QED
      BY <3>3, <3>4, <3>5, <3>6
  <2> QED
    BY <2>1, <2>2
<1>2. DeliveredWhenMonitored'
  BY <1>1, Delivered, PTL
<1>3. OneHookAccepted'
  BY OneAccepted, PTL
<1> QED
  BY <1>1, <1>2, <1>3 DEF MonitorInv

\* Whatever the requests, the syncs and the faults, and in whatever order their calls to
\* the forge and to the stored files mix: once the requests are over a repository
\* shown as monitored has a hook whose deliveries handleHook accepts and a badge that
\* is served, and no second hook is accepted beside it; a fault, or a sync that
\* overlapped a request, is repaired by switching monitoring on again, alone.
THEOREM MonitorHolds == MonitorSpec => []MonitorInv
<1>1. MonitorInit => MonitorInv
  BY MonitorStarts
<1>2. MonitorInv /\ [MonitorNext]_monitorVars => MonitorInv'
  BY MonitorGoesOn
<1> QED
  BY <1>1, <1>2, PTL DEF MonitorSpec

================================================================================
