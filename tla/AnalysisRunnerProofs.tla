------------------------ MODULE AnalysisRunnerProofs ------------------------
(***************************************************************************)
(* Proofs about AnalysisRunner, for every instance of its constants.       *)
(***************************************************************************)
EXTENDS AnalysisRunner, FiniteSetTheorems, SequenceTheorems, TLAPS

LEMMA InitIInv == Init => IInv
<1> SUFFICES ASSUME Init PROVE IInv
  OBVIOUS
<1>1. TypeOK
  BY RunnerAssumption DEF RunnerAssumption, Init, TypeOK, Attempts, Status, Terminal, Faults, Places, Threads, Runs
<1>2. ThreadInv
  BY DEF Init, ThreadInv, Threads, ClientPlaces, WorkerPlaces, Publication
<1>3. SlotInv /\ Custody
  BY DEF Init, SlotInv, CancelledNeverRuns, Custody, Queued, Sending, Processing, Threads
<1>4. SlotAccounting
  <2> SUFFICES ASSUME NEW u \in Users
               PROVE  perUser[u] = Cardinality(SlotsOf(u)) /\ perUser[u] <= UserQuota
    BY DEF SlotAccounting
  <2>1. SlotsOf(u) = {}
    BY DEF Init, SlotsOf
  <2>2. Cardinality(SlotsOf(u)) = 0
    BY <2>1, FS_EmptySet
  <2>3. perUser[u] = 0
    BY DEF Init
  <2> QED
    BY <2>2, <2>3, RunnerAssumption DEF RunnerAssumption
<1> QED
  BY <1>1, <1>2, <1>3, <1>4 DEF IInv

-----------------------------------------------------------------------------
(* Steps that move one goroutine, or none, and leave slots and channel alone. *)

\* A goroutine that goes on with the attempt it has keeps custody of it.
LEMMA CalmStep ==
  ASSUME IInv, NEW t \in Threads, NEW p \in Places \ {"send", "busy", "begin"},
         UNCHANGED <<attempts, slotVars, queue, cur>>,
         pc[t] # "idle", pc' = [pc EXCEPT ![t] = p],
         t \in Workers /\ p # "idle" => Processing(t)
  PROVE  SlotInv' /\ Custody' /\ SlotAccounting'
<1> USE DEF slotVars
<1>1. SlotInv'
  BY DEF IInv, SlotInv, CancelledNeverRuns, KeyOf
<1>2. Custody'
  <2>1. \A u \in Threads : /\ pc'[u] # "idle" => pc[u] # "idle"
                           /\ pc'[u] \notin {"send", "busy", "begin"} \/ pc'[u] = pc[u]
    BY DEF IInv, TypeOK
  <2>2. \A w \in Workers : Processing(w)' => Processing(w)
    BY DEF IInv, TypeOK, Processing, Threads
  <2> QED
    BY <2>1, <2>2 DEF IInv, Custody, Queued, Sending, KeyOf, Threads
<1>3. SlotAccounting'
  BY DEF IInv, SlotAccounting, SlotsOf, OwnerOf
<1> QED
  BY <1>1, <1>2, <1>3

\* A step of no goroutine at all.
LEMMA StillStep ==
  ASSUME IInv, UNCHANGED <<attempts, slotVars, queue, cur, pc, out>>
  PROVE  ThreadInv' /\ SlotInv' /\ Custody' /\ SlotAccounting'
BY DEF IInv, slotVars, ThreadInv, SlotInv, CancelledNeverRuns, Custody, Queued, Sending,
       Processing, SlotAccounting, SlotsOf, OwnerOf, KeyOf

\* A goroutine that is not idle has an attempt.
LEMMA CurInRange ==
  ASSUME IInv, NEW t \in Threads, pc[t] # "idle"
  PROVE  cur[t] \in 1..Len(attempts) /\ cur[t] \in Attempts /\ KeyOf(cur[t]) \in Keys
<1>1. cur[t] \in 1..Len(attempts)
  BY DEF IInv, TypeOK, ThreadInv
<1>2. cur[t] \in Attempts
  BY <1>1, RunnerAssumption DEF RunnerAssumption, IInv, TypeOK, Attempts
<1> QED
  BY <1>1, <1>2 DEF IInv, TypeOK, KeyOf

LEMMA RememberActivityIInv ==
  ASSUME IInv, NEW t \in Threads, RememberActivity(t)
  PROVE  IInv'
<1>1. cur[t] \in Attempts
  BY CurInRange DEF RememberActivity
<1>2. TypeOK'
  BY <1>1 DEF IInv, TypeOK, RememberActivity, PruneActivity, Goto, slotVars, storeVars, Places
<1>3. ThreadInv'
  BY DEF IInv, RememberActivity, TypeOK, ThreadInv, ClientPlaces, WorkerPlaces, Publication, Threads, Goto
<1>4. SlotInv' /\ Custody' /\ SlotAccounting'
  BY CalmStep DEF RememberActivity, Goto, Places, Processing
<1> QED
  BY <1>2, <1>3, <1>4 DEF IInv

LEMMA StreamRunIInv ==
  ASSUME IInv, NEW t \in Threads, StreamRun(t)
  PROVE  IInv'
<1> DEFINE p == IF KeyOf(cur[t]) \in Plans THEN AfterPublish(t)
                ELSE IF out[t] = "cancelled" THEN "fallback" ELSE "latest"
<1>1. /\ p \in Places \ {"send", "busy", "begin"}
      /\ pc[t] = "stream" /\ pc' = [pc EXCEPT ![t] = p]
  BY DEF StreamRun, AfterPublish, Places, Goto
<1>2. TypeOK'
  <2>1. Append(stream[cur[t]], out[t]) \in Seq(Status)
    BY <1>1, CurInRange DEF IInv, TypeOK
  <2> QED
    BY <1>1, <2>1, CurInRange DEF IInv, TypeOK, StreamRun, slotVars, storeVars
<1>3. ThreadInv'
  BY DEF IInv, StreamRun, AfterPublish, TypeOK, ThreadInv, ClientPlaces, WorkerPlaces, Publication, Threads, Goto
<1>4. SlotInv' /\ Custody' /\ SlotAccounting'
  BY <1>1, CalmStep DEF StreamRun, Processing
<1> QED
  BY <1>2, <1>3, <1>4 DEF IInv

LEMMA StoreLatestIInv ==
  ASSUME IInv, NEW t \in Threads, StoreLatest(t)
  PROVE  IInv'
<1>1. /\ AfterPublish(t) \in Places \ {"send", "busy", "begin"}
      /\ pc[t] = "latest" /\ pc' = [pc EXCEPT ![t] = AfterPublish(t)]
  BY DEF StoreLatest, AfterPublish, Places, Goto
<1>2. TypeOK'
  <2>1. RunOf(cur[t], out[t]) \in Runs
    BY <1>1, CurInRange DEF IInv, TypeOK, RunOf, Runs
  <2> QED
    BY <1>1, <2>1 DEF IInv, TypeOK, StoreLatest, slotVars
<1>3. ThreadInv'
  BY DEF IInv, StoreLatest, AfterPublish, TypeOK, ThreadInv, ClientPlaces, WorkerPlaces, Publication, Threads, Goto
<1>4. SlotInv' /\ Custody' /\ SlotAccounting'
  BY <1>1, CalmStep DEF StoreLatest, Processing
<1> QED
  BY <1>2, <1>3, <1>4 DEF IInv

LEMMA SubmitReadyIInv ==
  ASSUME IInv, NEW c \in Clients, SubmitReady(c)
  PROVE  IInv'
<1>1. c \in Threads
  BY DEF Threads
<1>2. TypeOK'
  BY <1>1, CurInRange DEF IInv, TypeOK, SubmitReady, Goto, slotVars, storeVars, Places
<1>3. ThreadInv'
  BY <1>1 DEF IInv, SubmitReady, TypeOK, ThreadInv, ClientPlaces, WorkerPlaces, Publication, Threads, Goto
<1>4. SlotInv' /\ Custody' /\ SlotAccounting'
  BY <1>1, CalmStep DEF SubmitReady, Goto, Places
<1> QED
  BY <1>2, <1>3, <1>4 DEF IInv

LEMMA CancelFallbackIInv ==
  ASSUME IInv, NEW c \in Clients, CancelFallback(c)
  PROVE  IInv'
<1>1. c \in Threads
  BY DEF Threads
<1> DEFINE r == RepoOf[KeyOf(cur[c])]
<1>2. \A x \in LatestStored(r) : x \in Runs \cup {NoRun}
  BY DEF LatestStored, History, IInv, TypeOK
<1>3. latest' \in [Repos -> Runs \cup {NoRun}]
  BY <1>2 DEF CancelFallback, IInv, TypeOK
<1>4. TypeOK'
  BY <1>3 DEF IInv, TypeOK, CancelFallback, Goto, slotVars, Places
<1>5. ThreadInv'
  BY <1>1 DEF IInv, CancelFallback, TypeOK, ThreadInv, ClientPlaces, WorkerPlaces, Publication, Threads, Goto
<1>6. SlotInv' /\ Custody' /\ SlotAccounting'
  BY <1>1, CalmStep, RunnerAssumption DEF RunnerAssumption, CancelFallback, Goto, Places, Threads
<1> QED
  BY <1>4, <1>5, <1>6 DEF IInv

LEMMA AnalyzeIInv ==
  ASSUME IInv, NEW w \in Workers, NEW outcome \in {"done", "failed"}, Analyze(w, outcome)
  PROVE  IInv'
<1>1. w \in Threads
  BY DEF Threads
<1>2. TypeOK'
  BY DEF IInv, TypeOK, Analyze, Goto, slotVars, storeVars, Places, Status, Terminal
<1>3. ThreadInv'
  BY <1>1, RunnerAssumption DEF RunnerAssumption, IInv, Analyze, TypeOK, ThreadInv, ClientPlaces, WorkerPlaces, Publication, Threads, Goto
<1>4. SlotInv' /\ Custody' /\ SlotAccounting'
  BY <1>1, CalmStep DEF Analyze, Goto, Places, Processing
<1> QED
  BY <1>2, <1>3, <1>4 DEF IInv

LEMMA PutRecordIInv ==
  ASSUME IInv, NEW w \in Workers, PutRecord(w)
  PROVE  IInv'
<1>1. w \in Threads
  BY DEF Threads
<1>2. TypeOK'
  <2>1. RunOf(cur[w], out[w]) \in Runs
    BY <1>1, CurInRange DEF PutRecord, IInv, TypeOK, RunOf, Runs
  <2> QED
    BY <2>1 DEF IInv, TypeOK, PutRecord, Goto, slotVars, Places
<1>3. ThreadInv'
  BY <1>1 DEF IInv, PutRecord, TypeOK, ThreadInv, ClientPlaces, WorkerPlaces, Publication, Threads, Goto
<1>4. SlotInv' /\ Custody' /\ SlotAccounting'
  BY <1>1, CalmStep DEF PutRecord, Goto, Places, Processing
<1> QED
  BY <1>2, <1>3, <1>4 DEF IInv

LEMMA StoreFailsIInv ==
  ASSUME IInv, NEW t \in Threads, StoreFails(t)
  PROVE  IInv'
<1> DEFINE p == CASE pc[t] = "record"   -> "remember"
                  [] pc[t] = "latest"   -> AfterPublish(t)
                  [] pc[t] = "fallback" -> "idle"
<1>1. /\ p \in Places \ {"send", "busy", "begin"}
      /\ pc[t] \in {"record", "latest", "fallback"} /\ pc' = [pc EXCEPT ![t] = p]
  BY DEF StoreFails, AfterPublish, Places, Goto
<1>2. TypeOK'
  <2>1. faults' \in [Faults -> Nat]
    BY DEF StoreFails, IInv, TypeOK, Faults
  <2>2. pc' \in [Threads -> Places]
    BY <1>1 DEF IInv, TypeOK
  <2> QED
    BY <2>1, <2>2 DEF IInv, TypeOK, StoreFails, slotVars, storeVars
<1>3. ThreadInv'
  BY DEF IInv, StoreFails, AfterPublish, TypeOK, ThreadInv, ClientPlaces, WorkerPlaces, Publication, Threads, Goto
<1>4. SlotInv' /\ Custody' /\ SlotAccounting'
  <2>1. t \in Workers => Processing(t)
    BY <1>1 DEF Processing
  <2>2. UNCHANGED <<attempts, slotVars, queue, cur>>
    BY DEF StoreFails
  <2> QED
    BY <1>1, <2>1, <2>2, CalmStep
<1> QED
  BY <1>2, <1>3, <1>4 DEF IInv

LEMMA StillIInv ==
  ASSUME IInv,
         \/ \E c \in Clients, k \in Keys : SubmitDuplicate(c, k)
         \/ \E a \in Attempts : Age(a)
         \/ PruneTick
         \/ UNCHANGED vars
  PROVE  IInv'
<1>1. TypeOK'
  <2>1. CASE \E c \in Clients, k \in Keys : SubmitDuplicate(c, k)
    <3> PICK c \in Clients, k \in Keys : SubmitDuplicate(c, k)
      BY <2>1
    <3>1. active[k] \in 1..Len(attempts)
      BY DEF SubmitDuplicate, IInv, TypeOK
    <3>2. promised' \subseteq 1..Len(attempts)
      BY <3>1 DEF SubmitDuplicate, IInv, TypeOK
    <3> QED
      BY <3>2 DEF IInv, TypeOK, SubmitDuplicate, slotVars, storeVars, threadVars
  <2>2. CASE \E a \in Attempts : Age(a)
    BY <2>2 DEF IInv, TypeOK, Age, slotVars, storeVars, threadVars
  <2>3. CASE PruneTick
    <3>1. PruneActivity(activity) \in [Attempts -> Status \cup {"none"}]
      BY DEF IInv, TypeOK, PruneActivity
    <3> QED
      BY <2>3, <3>1 DEF IInv, TypeOK, PruneTick, slotVars, storeVars, threadVars
  <2>4. CASE UNCHANGED vars
    BY <2>4 DEF IInv, TypeOK, vars
  <2> QED
    BY <2>1, <2>2, <2>3, <2>4
<1>2. UNCHANGED <<attempts, slotVars, queue, cur, pc, out>>
  BY DEF SubmitDuplicate, Age, PruneTick, vars, slotVars, threadVars
<1> QED
  BY <1>1, <1>2, StillStep DEF IInv

-----------------------------------------------------------------------------
(* Steps that take a slot, give it back, or pass an attempt on. *)

LEMMA SlotsFinite ==
  ASSUME NEW u \in Users
  PROVE  IsFiniteSet(SlotsOf(u)) /\ Cardinality(SlotsOf(u)) \in Nat
<1>1. SlotsOf(u) \in SUBSET Keys /\ IsFiniteSet(Keys)
  BY RunnerAssumption DEF SlotsOf, RunnerAssumption
<1> QED
  BY <1>1, FS_Subset, FS_CardinalityType

LEMMA OwnerType ==
  ASSUME NEW k \in Keys
  PROVE  OwnerOf(k) \in Users
BY RunnerAssumption DEF RunnerAssumption, OwnerOf

\* releaseLocked frees at most the slot of its attempt, and counts it.
LEMMA ReleaseSlot ==
  ASSUME IInv, NEW a \in 1..Len(attempts), ReleaseLocked(a), UNCHANGED attempts
  PROVE  /\ active' \in [Keys -> 0..Len(attempts)]
         /\ perUser' \in [Users -> Nat]
         /\ \A k \in Keys : active'[k] = IF active[k] = a THEN 0 ELSE active[k]
         /\ SlotAccounting'
<1> USE DEF IInv, TypeOK
<1> DEFINE key == KeyOf(a)
           own == OwnerOf(key)
<1>1. key \in Keys /\ own \in Users
  BY OwnerType DEF KeyOf
<1>2. CASE active[key] # a
  <2>1. UNCHANGED <<active, perUser>>
    BY <1>2 DEF ReleaseLocked
  <2>2. ASSUME NEW k \in Keys, active[k] = a
        PROVE  FALSE
    <3>1. KeyOf(active[k]) = k
      BY <2>2 DEF SlotInv
    <3> QED
      BY <1>2, <2>2, <3>1
  <2>3. SlotAccounting'
    BY <2>1 DEF SlotAccounting, SlotsOf, OwnerOf
  <2> QED
    BY <2>1, <2>2, <2>3
<1>3. CASE active[key] = a
  <2>1. /\ active' = [active EXCEPT ![key] = 0]
        /\ perUser' = [perUser EXCEPT ![own] = IF perUser[own] <= 1 THEN 0 ELSE perUser[own] - 1]
    BY <1>3 DEF ReleaseLocked
  <2>2. \A k \in Keys : active[k] = a => k = key
    BY DEF SlotInv
  <2>3. ASSUME NEW u \in Users
        PROVE  perUser'[u] = Cardinality(SlotsOf(u)') /\ perUser'[u] <= UserQuota
    <3>1. CASE u = own
      <4>1. SlotsOf(u)' = SlotsOf(u) \ {key} /\ key \in SlotsOf(u)
        BY <1>1, <1>3, <2>1, <3>1 DEF SlotsOf, OwnerOf
      <4>2. Cardinality(SlotsOf(u) \ {key}) = Cardinality(SlotsOf(u)) - 1
        BY <4>1, SlotsFinite, FS_RemoveElement
      <4>3. Cardinality(SlotsOf(u) \ {key}) \in Nat
        BY SlotsFinite, FS_RemoveElement, FS_CardinalityType
      <4>4. perUser[u] = Cardinality(SlotsOf(u)) /\ perUser[u] <= UserQuota
        BY DEF SlotAccounting
      <4>5. perUser'[u] = perUser[u] - 1
        BY <2>1, <3>1, <4>2, <4>3, <4>4
      <4> QED
        BY <4>1, <4>2, <4>3, <4>4, <4>5, RunnerAssumption DEF RunnerAssumption
    <3>2. CASE u # own
      <4>1. SlotsOf(u)' = SlotsOf(u)
        BY <1>1, <2>1, <3>2 DEF SlotsOf, OwnerOf
      <4> QED
        BY <2>1, <3>2, <4>1 DEF SlotAccounting
    <3> QED
      BY <3>1, <3>2
  <2>4. perUser' \in [Users -> Nat]
    BY <2>1, <1>1
  <2> QED
    BY <1>1, <1>3, <2>1, <2>2, <2>3, <2>4 DEF SlotAccounting
<1> QED
  BY <1>2, <1>3

LEMMA SubmitAdmitIInv ==
  ASSUME IInv, NEW c \in Clients, NEW k \in Keys, SubmitAdmit(c, k)
  PROVE  IInv'
<1> DEFINE a == Len(attempts) + 1
           own == OwnerOf(k)
<1>1. /\ c \in Threads /\ own \in Users /\ a \in Nat \ {0} /\ a <= MaxAttempts
      /\ pc[c] = "idle" /\ active[k] = 0 /\ perUser[own] < UserQuota
  BY OwnerType, RunnerAssumption DEF RunnerAssumption, Threads, SubmitAdmit, IInv, TypeOK
<1>2. /\ attempts' = Append(attempts, k) /\ attempts' \in Seq(Keys) /\ Len(attempts') = a
      /\ \A b \in 1..Len(attempts) : attempts'[b] = attempts[b]
      /\ attempts'[a] = k
  BY <1>1 DEF SubmitAdmit, IInv, TypeOK
<1>3. /\ active' = [active EXCEPT ![k] = a]
      /\ perUser' = [perUser EXCEPT ![own] = perUser[own] + 1]
      /\ pc' = [pc EXCEPT ![c] = "send"]
      /\ cur' = [cur EXCEPT ![c] = a]
      /\ UNCHANGED <<started, cancelled, queue, ready, activity, aged, stream, latest, records,
                     out, promised, faults>>
  BY DEF SubmitAdmit, Goto, storeVars
<1>4. a \notin started \cup cancelled /\ a \notin Queued /\ \A t \in Threads : cur[t] # a
  BY DEF IInv, TypeOK, Queued
<1>5. TypeOK'
  <2>1. active' \in [Keys -> 0..a] /\ perUser' \in [Users -> Nat] /\ cur' \in [Threads -> 0..a]
    BY <1>1, <1>3 DEF IInv, TypeOK
  <2>2. pc' \in [Threads -> Places]
    BY <1>3 DEF IInv, TypeOK, Places
  <2>3. queue' \in Seq(1..a)
    BY <1>3 DEF IInv, TypeOK
  <2> QED
    BY <1>1, <1>2, <1>3, <2>1, <2>2, <2>3 DEF IInv, TypeOK
<1>6. ThreadInv'
  BY <1>1, <1>3, RunnerAssumption DEF RunnerAssumption, IInv, TypeOK, ThreadInv, ClientPlaces, Publication, Threads
<1>7. SlotInv'
  BY <1>1, <1>2, <1>3, <1>4 DEF IInv, TypeOK, SlotInv, CancelledNeverRuns, KeyOf
<1>8. Custody'
  <2>1. \A w \in Workers : pc'[w] = pc[w] /\ cur'[w] = cur[w]
    BY <1>3, RunnerAssumption DEF RunnerAssumption, IInv, TypeOK, Threads
  <2>2. \A w \in Workers : Processing(w) => /\ cur[w] \in 1..Len(attempts)
                                            /\ KeyOf(cur[w])' = KeyOf(cur[w])
                                            /\ active'[KeyOf(cur[w])] = active[KeyOf(cur[w])]
    <3> SUFFICES ASSUME NEW w \in Workers, Processing(w)
                 PROVE  /\ cur[w] \in 1..Len(attempts)
                        /\ KeyOf(cur[w])' = KeyOf(cur[w])
                        /\ active'[KeyOf(cur[w])] = active[KeyOf(cur[w])]
      OBVIOUS
    <3>1. cur[w] \in 1..Len(attempts) /\ KeyOf(cur[w]) \in Keys
      BY CurInRange DEF Processing, Threads
    <3>2. KeyOf(cur[w])' = KeyOf(cur[w])
      BY <3>1, <2>1, <1>2 DEF KeyOf
    <3>3. active[KeyOf(cur[w])] # 0
      BY <3>1 DEF IInv, Custody
    <3> QED
      BY <3>1, <3>2, <3>3, <1>1, <1>3 DEF IInv, TypeOK
  <2>3. \A w \in Workers : Processing(w)' <=> Processing(w)
    BY <2>1 DEF Processing
  <2>4. \A w \in Workers : Processing(w)' => active'[KeyOf(cur[w])'] = cur'[w] /\ cur'[w] \in started'
    BY <1>3, <2>1, <2>2, <2>3 DEF IInv, Custody
  <2>5. \A d \in Clients : Sending(d)' => d = c \/ (Sending(d) /\ cur'[d] = cur[d])
    BY <1>1, <1>3 DEF Sending, IInv, TypeOK, Threads
  <2>6. cur'[c] = a
    BY <1>1, <1>3 DEF IInv, TypeOK
  <2>7. \A d \in Clients : Sending(d)' =>
          /\ cur'[d] \notin Queued' \cup started'
          /\ \A e \in Clients : Sending(e)' /\ d # e => cur'[d] # cur'[e]
          /\ \A w \in Workers : pc'[w] # "idle" => cur'[d] # cur'[w]
    BY <1>3, <1>4, <2>1, <2>5, <2>6 DEF IInv, Custody, Queued, Threads
  <2> QED
    BY <1>3, <2>1, <2>4, <2>7 DEF IInv, Custody, Queued
<1>9. SlotAccounting'
  <2> SUFFICES ASSUME NEW u \in Users
               PROVE  perUser'[u] = Cardinality(SlotsOf(u)') /\ perUser'[u] <= UserQuota
    BY DEF SlotAccounting
  <2>0. perUser[u] = Cardinality(SlotsOf(u)) /\ perUser[u] <= UserQuota /\ perUser[u] \in Nat
    BY DEF IInv, SlotAccounting, TypeOK
  <2>1. CASE u = own
    <3>1. SlotsOf(u)' = SlotsOf(u) \cup {k} /\ k \notin SlotsOf(u)
      BY <1>1, <1>3, <2>1 DEF SlotsOf, OwnerOf, IInv, TypeOK
    <3>2. Cardinality(SlotsOf(u) \cup {k}) = Cardinality(SlotsOf(u)) + 1
      BY <3>1, SlotsFinite, FS_AddElement
    <3>3. perUser'[u] = perUser[u] + 1
      BY <1>1, <1>3, <2>1 DEF IInv, TypeOK
    <3> QED
      BY <1>1, <2>0, <2>1, <3>1, <3>2, <3>3, RunnerAssumption DEF RunnerAssumption
  <2>2. CASE u # own
    <3>1. SlotsOf(u)' = SlotsOf(u)
      BY <1>1, <1>3, <2>2 DEF SlotsOf, OwnerOf, IInv, TypeOK
    <3>2. perUser'[u] = perUser[u]
      BY <1>3, <2>2 DEF IInv, TypeOK
    <3> QED
      BY <2>0, <3>1, <3>2
  <2> QED
    BY <2>1, <2>2
<1> QED
  BY <1>5, <1>6, <1>7, <1>8, <1>9 DEF IInv

LEMMA SubmitSendIInv ==
  ASSUME IInv, NEW c \in Clients, SubmitSend(c)
  PROVE  IInv'
<1> DEFINE a == cur[c]
<1>1. /\ c \in Threads /\ pc[c] = "send" /\ Sending(c)
      /\ a \in 1..Len(attempts)
      /\ \A w \in Workers : w # c
  BY CurInRange, RunnerAssumption DEF RunnerAssumption, SubmitSend, Threads, Sending
<1>2. /\ UNCHANGED <<attempts, active, started, cancelled, perUser, ready, activity, aged,
                     stream, latest, records, promised, faults>>
      /\ cur' = cur
  BY DEF SubmitSend, slotVars, storeVars, Publishing, IInv, TypeOK
<1>3. SlotInv' /\ SlotAccounting'
  BY <1>2 DEF IInv, SlotInv, CancelledNeverRuns, KeyOf, SlotAccounting, SlotsOf, OwnerOf
<1>4. CASE Len(queue) < QueueSize
  <2>1. /\ queue' = Append(queue, a) /\ pc' = [pc EXCEPT ![c] = "remember"]
        /\ out' = [out EXCEPT ![c] = "queued"]
    BY <1>4 DEF SubmitSend, Publishing, Goto
  <2>2. /\ queue' \in Seq(1..Len(attempts)) /\ Len(queue') = Len(queue) + 1
        /\ \A i \in DOMAIN queue' : queue'[i] = a \/ (i \in DOMAIN queue /\ queue'[i] = queue[i])
        /\ \A i \in DOMAIN queue' : i = Len(queue) + 1 \/ (i \in DOMAIN queue /\ queue'[i] = queue[i])
    BY <1>1, <2>1 DEF IInv, TypeOK
  <2>3. TypeOK'
    <3>1. pc' \in [Threads -> Places] /\ out' \in [Threads -> Status]
      BY <2>1 DEF IInv, TypeOK, Places, Status
    <3>2. Len(queue') <= QueueSize
      BY <1>4, <2>2, RunnerAssumption DEF RunnerAssumption, IInv, TypeOK
    <3> QED
      BY <1>2, <2>2, <3>1, <3>2 DEF IInv, TypeOK
  <2>4. ThreadInv'
    BY <1>1, <1>2, <2>1 DEF IInv, TypeOK, ThreadInv, ClientPlaces, Publication, Threads
  <2>5. Custody'
    <3>1. a \notin Queued \cup started /\ \A w \in Workers : pc[w] # "idle" => cur[w] # a
      BY <1>1 DEF IInv, Custody
    <3>2. \A i, j \in DOMAIN queue' : queue'[i] = queue'[j] => i = j
      <4>1. \A i \in DOMAIN queue : queue[i] # a
        BY <3>1 DEF Queued
      <4>2. \A i, j \in DOMAIN queue : queue[i] = queue[j] => i = j
        BY DEF IInv, Custody
      <4>3. queue'[Len(queue) + 1] = a
        BY <2>1, <1>1 DEF IInv, TypeOK
      <4> QED
        BY <2>2, <4>1, <4>2, <4>3
    <3>3. Queued' \subseteq Queued \cup {a}
      BY <2>2 DEF Queued
    <3>4. \A d \in Clients : Sending(d)' => Sending(d) /\ d # c
      BY <2>1 DEF Sending, IInv, TypeOK, Threads
    <3>5. \A d \in Clients : Sending(d)' => cur[d] # a
      BY <3>4, <1>1 DEF IInv, Custody
    <3>6. \A w \in Workers : pc'[w] = pc[w]
      BY <1>1, <2>1 DEF IInv, TypeOK, Threads
    <3>7. \A d \in Clients : Sending(d)' =>
            /\ cur'[d] \notin Queued' \cup started'
            /\ \A e \in Clients : Sending(e)' /\ d # e => cur'[d] # cur'[e]
            /\ \A w \in Workers : pc'[w] # "idle" => cur'[d] # cur'[w]
      BY <1>2, <3>3, <3>4, <3>5, <3>6 DEF IInv, Custody
    <3>8. \A w \in Workers : pc'[w] # "idle" =>
            /\ cur'[w] \notin Queued'
            /\ \A v \in Workers : pc'[v] # "idle" /\ v # w => cur'[v] # cur'[w]
      BY <1>2, <3>1, <3>3, <3>6 DEF IInv, Custody
    <3>9. Queued' \cap started' = {}
      BY <1>2, <3>1, <3>3 DEF IInv, Custody
    <3> QED
      BY <1>2, <3>2, <3>6, <3>7, <3>8, <3>9 DEF IInv, Custody, Processing, KeyOf
  <2> QED
    BY <1>3, <2>3, <2>4, <2>5 DEF IInv
<1>5. CASE ~(Len(queue) < QueueSize)
  <2>1. queue' = queue /\ out' = out /\ pc' = [pc EXCEPT ![c] = "busy"]
    BY <1>5 DEF SubmitSend, Goto
  <2>2. TypeOK'
    BY <1>2, <2>1 DEF IInv, TypeOK, Places
  <2>3. ThreadInv'
    BY <1>1, <1>2, <2>1 DEF IInv, TypeOK, ThreadInv, ClientPlaces, Publication, Threads
  <2>4. Custody'
    <3>1. /\ \A d \in Clients : Sending(d)' <=> Sending(d)
          /\ \A w \in Workers : pc'[w] = pc[w]
      BY <1>1, <2>1 DEF Sending, IInv, TypeOK, Threads
    <3> QED
      BY <1>2, <2>1, <3>1 DEF IInv, Custody, Queued, Processing, KeyOf
  <2> QED
    BY <1>3, <2>2, <2>3, <2>4 DEF IInv
<1> QED
  BY <1>4, <1>5

LEMMA SubmitBusyIInv ==
  ASSUME IInv, NEW c \in Clients, SubmitBusy(c)
  PROVE  IInv'
<1> DEFINE a == cur[c]
<1>1. /\ c \in Threads /\ pc[c] = "busy" /\ Sending(c) /\ a \in 1..Len(attempts)
      /\ pc' = [pc EXCEPT ![c] = "idle"]
      /\ ReleaseLocked(a)
      /\ UNCHANGED <<attempts, started, cancelled, queue, ready, activity, aged, stream, latest,
                     records, cur, out, promised, faults>>
      /\ \A w \in Workers : w # c
  BY CurInRange, RunnerAssumption DEF RunnerAssumption, SubmitBusy, Threads, Goto, Sending, storeVars
<1>2. /\ active' \in [Keys -> 0..Len(attempts)]
      /\ perUser' \in [Users -> Nat]
      /\ \A k \in Keys : active'[k] = IF active[k] = a THEN 0 ELSE active[k]
      /\ SlotAccounting'
  BY <1>1, ReleaseSlot
<1>3. TypeOK'
  BY <1>1, <1>2 DEF IInv, TypeOK, Places
<1>4. ThreadInv'
  BY <1>1 DEF IInv, TypeOK, ThreadInv, ClientPlaces, Publication, Threads
<1>5. SlotInv'
  BY <1>1, <1>2 DEF IInv, SlotInv, CancelledNeverRuns, KeyOf
<1>6. Custody'
  <2>1. /\ \A d \in Clients : Sending(d)' => Sending(d)
        /\ \A w \in Workers : pc'[w] = pc[w]
    BY <1>1 DEF Sending, IInv, TypeOK, Threads
  <2>2. ASSUME NEW w \in Workers, Processing(w)
        PROVE  active'[KeyOf(cur[w])] = cur[w] /\ cur[w] \in started
    <3>1. KeyOf(cur[w]) \in Keys
      BY <2>2, CurInRange DEF Processing, Threads
    <3>2. cur[w] # a
      BY <1>1, <2>2 DEF IInv, Custody, Processing
    <3> QED
      BY <1>2, <2>2, <3>1, <3>2 DEF IInv, Custody
  <2>3. \A w \in Workers : Processing(w)' <=> Processing(w)
    BY <2>1 DEF Processing
  <2> QED
    BY <1>1, <2>1, <2>2, <2>3 DEF IInv, Custody, Queued, KeyOf
<1> QED
  BY <1>2, <1>3, <1>4, <1>5, <1>6 DEF IInv

LEMMA CancelIInv ==
  ASSUME IInv, NEW c \in Clients, NEW k \in Keys, Cancel(c, k)
  PROVE  IInv'
<1> DEFINE a == active[k]
<1>1. /\ c \in Threads /\ pc[c] = "idle" /\ a \in 1..Len(attempts) /\ a \notin started
      /\ \A w \in Workers : w # c
  BY RunnerAssumption DEF RunnerAssumption, Cancel, Threads, IInv, TypeOK
<1>2. /\ cancelled' = cancelled \cup {a}
      /\ ReleaseLocked(a)
      /\ pc' = [pc EXCEPT ![c] = "remember"]
      /\ cur' = [cur EXCEPT ![c] = a]
      /\ out' = [out EXCEPT ![c] = "cancelled"]
      /\ faults' = [faults EXCEPT !["cancel"] = faults["cancel"] + 1]
      /\ UNCHANGED <<attempts, started, queue, ready, activity, aged, stream, latest, records,
                     promised>>
  BY DEF Cancel, Publishing, Goto, storeVars
<1>3. /\ active' \in [Keys -> 0..Len(attempts)]
      /\ perUser' \in [Users -> Nat]
      /\ \A j \in Keys : active'[j] = IF active[j] = a THEN 0 ELSE active[j]
      /\ SlotAccounting'
  BY <1>1, <1>2, ReleaseSlot
<1>4. TypeOK'
  <2>1. pc' \in [Threads -> Places] /\ cur' \in [Threads -> 0..Len(attempts)] /\ out' \in [Threads -> Status]
    BY <1>1, <1>2 DEF IInv, TypeOK, Places, Status, Terminal
  <2>2. faults' \in [Faults -> Nat]
    BY <1>2 DEF IInv, TypeOK, Faults
  <2> QED
    BY <1>1, <1>2, <1>3, <2>1, <2>2 DEF IInv, TypeOK
<1>5. ThreadInv'
  BY <1>1, <1>2 DEF IInv, TypeOK, ThreadInv, ClientPlaces, Publication, Threads
<1>6. SlotInv'
  BY <1>1, <1>2, <1>3 DEF IInv, SlotInv, CancelledNeverRuns, KeyOf
<1>7. Custody'
  <2>1. /\ \A d \in Clients : Sending(d)' => Sending(d) /\ cur'[d] = cur[d]
        /\ \A w \in Workers : pc'[w] = pc[w] /\ cur'[w] = cur[w]
    BY <1>1, <1>2 DEF Sending, IInv, TypeOK, Threads
  <2>2. ASSUME NEW w \in Workers, Processing(w)
        PROVE  active'[KeyOf(cur[w])] = cur[w] /\ cur[w] \in started
    <3>1. KeyOf(cur[w]) \in Keys
      BY <2>2, CurInRange DEF Processing, Threads
    <3>2. active[KeyOf(cur[w])] = cur[w] /\ cur[w] \in started
      BY <2>2 DEF IInv, Custody
    <3> QED
      BY <1>1, <1>3, <3>1, <3>2
  <2>3. \A w \in Workers : Processing(w)' <=> Processing(w)
    BY <2>1 DEF Processing
  <2> QED
    BY <1>2, <2>1, <2>2, <2>3 DEF IInv, Custody, Queued, KeyOf
<1> QED
  BY <1>3, <1>4, <1>5, <1>6, <1>7 DEF IInv

LEMMA DequeueIInv ==
  ASSUME IInv, NEW w \in Workers, Dequeue(w)
  PROVE  IInv'
<1> DEFINE a == Head(queue)
<1>1. /\ w \in Threads /\ pc[w] = "idle" /\ queue # <<>>
      /\ \A c \in Clients : w # c
  BY RunnerAssumption DEF RunnerAssumption, Dequeue, Threads
<1>2. /\ queue' = Tail(queue)
      /\ cur' = [cur EXCEPT ![w] = a]
      /\ pc' = [pc EXCEPT ![w] = "begin"]
      /\ UNCHANGED <<attempts, active, started, cancelled, perUser, ready, activity, aged, stream,
                     latest, records, out, promised, faults>>
  BY DEF Dequeue, Goto, slotVars, storeVars
<1>3. /\ a \in 1..Len(attempts) /\ 1 \in DOMAIN queue /\ a = queue[1]
      /\ queue' \in Seq(1..Len(attempts)) /\ Len(queue') = Len(queue) - 1
      /\ \A i \in DOMAIN queue' : i + 1 \in DOMAIN queue /\ queue'[i] = queue[i + 1] /\ i # 0
  BY <1>1, <1>2 DEF IInv, TypeOK
<1>4. a \in Queued
  BY <1>3 DEF Queued
<1>5. TypeOK'
  <2>1. pc' \in [Threads -> Places]
    BY <1>2 DEF IInv, TypeOK, Places
  <2>3. cur' \in [Threads -> 0..Len(attempts)]
    <3>1. a \in 0..Len(attempts)
      BY <1>3 DEF IInv, TypeOK
    <3> HIDE DEF a
    <3> QED
      BY <1>2, <3>1 DEF IInv, TypeOK
  <2>2. Len(queue') <= QueueSize
    BY <1>3, RunnerAssumption DEF RunnerAssumption, IInv, TypeOK
  <2> QED
    BY <1>2, <1>3, <2>1, <2>2, <2>3 DEF IInv, TypeOK
<1>6. ThreadInv'
  BY <1>1, <1>2, <1>3 DEF IInv, TypeOK, ThreadInv, WorkerPlaces, Publication, Threads
<1>7. SlotInv' /\ SlotAccounting'
  BY <1>2 DEF IInv, SlotInv, CancelledNeverRuns, KeyOf, SlotAccounting, SlotsOf, OwnerOf
<1>8. Custody'
  <2>1. \A i, j \in DOMAIN queue' : queue'[i] = queue'[j] => i = j
    BY <1>3 DEF IInv, Custody, TypeOK
  <2>2. Queued' \subseteq Queued
    BY <1>3 DEF Queued
  <2>3. a \notin Queued'
    <3>1. ASSUME NEW i \in DOMAIN queue', queue'[i] = a
          PROVE  FALSE
      <4>1. i + 1 = 1
        BY <1>3, <3>1 DEF IInv, Custody
      <4>2. i \in Nat /\ i # 0
        BY <1>3
      <4> QED
        BY <4>1, <4>2
    <3> QED
      BY <3>1 DEF Queued
  <2>4. /\ \A c \in Clients : (Sending(c)' <=> Sending(c)) /\ cur'[c] = cur[c]
        /\ \A v \in Workers : v # w => pc'[v] = pc[v] /\ cur'[v] = cur[v]
        /\ pc'[w] = "begin" /\ cur'[w] = a
    BY <1>1, <1>2 DEF IInv, TypeOK, Threads, Sending
  <2>5. \A c \in Clients : Sending(c) => cur[c] # a
    BY <1>4 DEF IInv, Custody
  <2>6. \A v \in Workers : pc[v] # "idle" => cur[v] # a
    BY <1>4 DEF IInv, Custody
  <2>7. \A v \in Workers : Processing(v)' => v # w /\ Processing(v)
    BY <2>4 DEF Processing
  <2>8. a \notin started
    BY <1>4 DEF IInv, Custody
  <2>9. \A c \in Clients : Sending(c)' =>
          /\ cur'[c] \notin Queued' \cup started'
          /\ \A d \in Clients : Sending(d)' /\ c # d => cur'[c] # cur'[d]
          /\ \A v \in Workers : pc'[v] # "idle" => cur'[c] # cur'[v]
    BY <1>2, <2>2, <2>4, <2>5 DEF IInv, Custody
  <2>10. \A v \in Workers : pc'[v] # "idle" =>
          /\ cur'[v] \notin Queued'
          /\ \A x \in Workers : pc'[x] # "idle" /\ x # v => cur'[x] # cur'[v]
    BY <2>2, <2>3, <2>4, <2>6 DEF IInv, Custody
  <2>11. Queued' \cap started' = {}
    BY <1>2, <2>2 DEF IInv, Custody
  <2>12. \A v \in Workers : pc'[v] = "begin" => cur'[v] \notin started'
    BY <1>2, <2>4, <2>8 DEF IInv, Custody
  <2>13. \A v \in Workers : Processing(v)' => (active[KeyOf(cur[v])] = cur[v])' /\ cur'[v] \in started'
    BY <1>2, <2>4, <2>7 DEF IInv, Custody, KeyOf
  <2> QED
    BY <2>1, <2>9, <2>10, <2>11, <2>12, <2>13 DEF Custody
<1> QED
  BY <1>5, <1>6, <1>7, <1>8 DEF IInv

LEMMA BeginIInv ==
  ASSUME IInv, NEW w \in Workers, Begin(w)
  PROVE  IInv'
<1> DEFINE a == cur[w]
           go == active[KeyOf(a)] = a /\ a \notin cancelled
<1>1. /\ w \in Threads /\ pc[w] = "begin" /\ a \in 1..Len(attempts)
      /\ \A c \in Clients : w # c
  BY CurInRange, RunnerAssumption DEF RunnerAssumption, Begin, Threads
<1>2. /\ UNCHANGED <<attempts, active, cancelled, perUser, queue, ready, activity, aged, stream,
                     latest, records, promised, faults>>
      /\ cur' = cur
  BY DEF Begin, Publishing, storeVars, IInv, TypeOK
<1>3. SlotAccounting'
  BY <1>2 DEF IInv, SlotAccounting, SlotsOf, OwnerOf
<1>4. CASE go
  <2>1. /\ started' = started \cup {a} /\ pc' = [pc EXCEPT ![w] = "remember"]
        /\ out' = [out EXCEPT ![w] = "running"]
    BY <1>4 DEF Begin, Publishing, Goto
  <2>2. TypeOK'
    <3>1. pc' \in [Threads -> Places] /\ out' \in [Threads -> Status]
      BY <2>1 DEF IInv, TypeOK, Places, Status
    <3> QED
      BY <1>1, <1>2, <2>1, <3>1 DEF IInv, TypeOK
  <2>3. ThreadInv'
    BY <1>1, <1>2, <2>1 DEF IInv, TypeOK, ThreadInv, WorkerPlaces, Publication, Threads
  <2>4. SlotInv'
    BY <1>2, <1>4, <2>1 DEF IInv, SlotInv, CancelledNeverRuns, KeyOf
  <2>5. Custody'
    <3>1. /\ \A c \in Clients : Sending(c)' <=> Sending(c)
          /\ \A v \in Workers : v # w => pc'[v] = pc[v]
          /\ pc'[w] = "remember"
      BY <1>1, <2>1 DEF IInv, TypeOK, Threads, Sending
    <3>2. /\ a \notin Queued
          /\ \A v \in Workers : v # w /\ pc[v] # "idle" => cur[v] # a
          /\ \A c \in Clients : Sending(c) => cur[c] # a
      BY <1>1 DEF IInv, Custody
    <3>3. \A v \in Workers : Processing(v)' => v = w \/ Processing(v)
      BY <3>1 DEF Processing
    <3>4. \A v \in Workers : Processing(v)' => (active[KeyOf(cur[v])] = cur[v])' /\ cur'[v] \in started'
      BY <1>2, <1>4, <2>1, <3>3 DEF IInv, Custody, KeyOf
    <3>5. \A c \in Clients : Sending(c)' =>
            /\ cur'[c] \notin Queued' \cup started'
            /\ \A d \in Clients : Sending(d)' /\ c # d => cur'[c] # cur'[d]
            /\ \A v \in Workers : pc'[v] # "idle" => cur'[c] # cur'[v]
      BY <1>1, <1>2, <2>1, <3>1, <3>2 DEF IInv, Custody, Queued
    <3>6. \A v \in Workers : pc'[v] # "idle" =>
            /\ cur'[v] \notin Queued'
            /\ \A x \in Workers : pc'[x] # "idle" /\ x # v => cur'[x] # cur'[v]
      BY <1>1, <1>2, <3>1, <3>2 DEF IInv, Custody, Queued
    <3>7. \A v \in Workers : pc'[v] = "begin" => cur'[v] \notin started'
      BY <1>2, <2>1, <3>1, <3>2 DEF IInv, Custody
    <3> QED
      BY <1>2, <2>1, <3>2, <3>4, <3>5, <3>6, <3>7 DEF IInv, Custody, Queued
  <2> QED
    BY <1>3, <2>2, <2>3, <2>4, <2>5 DEF IInv
<1>5. CASE ~go
  <2>1. started' = started /\ out' = out /\ pc' = [pc EXCEPT ![w] = "idle"]
    BY <1>5 DEF Begin, Goto
  <2>2. TypeOK'
    BY <1>2, <2>1 DEF IInv, TypeOK, Places
  <2>3. ThreadInv'
    BY <1>1, <1>2, <2>1 DEF IInv, TypeOK, ThreadInv, WorkerPlaces, Publication, Threads
  <2>4. SlotInv' /\ Custody'
    BY <1>1, <1>2, <2>1, CalmStep DEF slotVars, Places
  <2> QED
    BY <1>3, <2>2, <2>3, <2>4 DEF IInv
<1> QED
  BY <1>4, <1>5

LEMMA ReleaseIInv ==
  ASSUME IInv, NEW w \in Workers, Release(w)
  PROVE  IInv'
<1> DEFINE a == cur[w]
<1>1. /\ w \in Threads /\ pc[w] = "release" /\ Processing(w) /\ a \in 1..Len(attempts)
      /\ pc' = [pc EXCEPT ![w] = "idle"]
      /\ ReleaseLocked(a)
      /\ UNCHANGED <<attempts, started, cancelled, queue, ready, activity, aged, stream, latest,
                     records, cur, out, promised, faults>>
      /\ \A c \in Clients : w # c
  BY CurInRange, RunnerAssumption DEF RunnerAssumption, Release, Threads, Goto, Processing, storeVars
<1>2. /\ active' \in [Keys -> 0..Len(attempts)]
      /\ perUser' \in [Users -> Nat]
      /\ \A k \in Keys : active'[k] = IF active[k] = a THEN 0 ELSE active[k]
      /\ SlotAccounting'
  BY <1>1, ReleaseSlot
<1>3. TypeOK'
  BY <1>1, <1>2 DEF IInv, TypeOK, Places
<1>4. ThreadInv'
  BY <1>1 DEF IInv, TypeOK, ThreadInv, WorkerPlaces, Publication, Threads
<1>5. SlotInv'
  BY <1>1, <1>2 DEF IInv, SlotInv, CancelledNeverRuns, KeyOf
<1>6. Custody'
  <2>1. /\ \A d \in Clients : Sending(d)' <=> Sending(d)
        /\ \A v \in Workers : v # w => pc'[v] = pc[v]
        /\ pc'[w] = "idle"
    BY <1>1 DEF Sending, IInv, TypeOK, Threads
  <2>2. ASSUME NEW v \in Workers, v # w, Processing(v)
        PROVE  active'[KeyOf(cur[v])] = cur[v] /\ cur[v] \in started
    <3>1. KeyOf(cur[v]) \in Keys
      BY <2>2, CurInRange DEF Processing, Threads
    <3>2. cur[v] # a
      BY <1>1, <2>2 DEF IInv, Custody, Processing
    <3> QED
      BY <1>2, <2>2, <3>1, <3>2 DEF IInv, Custody
  <2>3. \A v \in Workers : Processing(v)' => v # w /\ Processing(v)
    BY <2>1 DEF Processing
  <2> QED
    BY <1>1, <2>1, <2>2, <2>3 DEF IInv, Custody, Queued, KeyOf
<1> QED
  BY <1>2, <1>3, <1>4, <1>5, <1>6 DEF IInv

LEMMA RestartIInv ==
  ASSUME IInv, Restart
  PROVE  IInv'
<1>1. /\ active' = [k \in Keys |-> 0]
      /\ perUser' = [u \in Users |-> 0]
      /\ queue' = <<>>
      /\ ready' = {} /\ promised' = {}
      /\ activity' = [a \in Attempts |-> "none"]
      /\ pc' = [t \in Threads |-> "idle"]
      /\ faults' = [faults EXCEPT !["crash"] = faults["crash"] + 1]
      /\ UNCHANGED <<attempts, started, cancelled, aged, stream, latest, records, cur, out>>
  BY DEF Restart, storeVars
<1>2. TypeOK'
  <2>1. /\ active' \in [Keys -> 0..Len(attempts)] /\ faults' \in [Faults -> Nat]
        /\ perUser' \in [Users -> Nat] /\ pc' \in [Threads -> Places]
        /\ activity' \in [Attempts -> Status \cup {"none"}]
    BY <1>1 DEF IInv, TypeOK, Places, Faults
  <2>2. queue' \in Seq(1..Len(attempts)) /\ Len(queue') <= QueueSize
    BY <1>1, RunnerAssumption DEF RunnerAssumption
  <2> QED
    BY <1>1, <2>1, <2>2 DEF IInv, TypeOK
<1>3. ThreadInv'
  BY <1>1 DEF ThreadInv, Threads, ClientPlaces, WorkerPlaces, Publication
<1>4. SlotInv'
  BY <1>1 DEF IInv, SlotInv, CancelledNeverRuns
<1>5. Custody'
  BY <1>1 DEF Custody, Queued, Sending, Processing, Threads
<1>6. SlotAccounting'
  <2> SUFFICES ASSUME NEW u \in Users
               PROVE  perUser'[u] = Cardinality(SlotsOf(u)') /\ perUser'[u] <= UserQuota
    BY DEF SlotAccounting
  <2>1. SlotsOf(u)' = {}
    BY <1>1 DEF SlotsOf
  <2>2. Cardinality(SlotsOf(u)') = 0
    BY <2>1, FS_EmptySet
  <2> QED
    BY <1>1, <2>2, RunnerAssumption DEF RunnerAssumption
<1> QED
  BY <1>2, <1>3, <1>4, <1>5, <1>6 DEF IInv

-----------------------------------------------------------------------------
(* The invariant, and what follows from it. *)

LEMMA NextIInv ==
  ASSUME IInv, [Next]_vars
  PROVE  IInv'
<1>1. ASSUME NEW c \in Clients, Request(c) PROVE IInv'
  <2> PICK k \in Keys : SubmitDuplicate(c, k) \/ SubmitAdmit(c, k) \/ Cancel(c, k)
    BY <1>1 DEF Request
  <2> QED
    BY StillIInv, SubmitAdmitIInv, CancelIInv
<1>2. ASSUME NEW t \in Threads, PublishStep(t) PROVE IInv'
  BY <1>2, RememberActivityIInv, StreamRunIInv, StoreLatestIInv DEF PublishStep
<1>3. ASSUME NEW c \in Clients, ClientStep(c) PROVE IInv'
  BY <1>2, <1>3, SubmitSendIInv, SubmitBusyIInv, SubmitReadyIInv, CancelFallbackIInv
     DEF ClientStep, Threads
<1>4. ASSUME NEW w \in Workers, WorkerStep(w) PROVE IInv'
  BY <1>2, <1>4, DequeueIInv, BeginIInv, AnalyzeIInv, PutRecordIInv, ReleaseIInv
     DEF WorkerStep, Threads
<1>5. CASE Rest
  BY <1>5, StillIInv DEF Rest
<1> QED
  BY <1>1, <1>3, <1>4, <1>5, StoreFailsIInv, StillIInv, RestartIInv DEF Next

\* In every behaviour of the runner an attempt is in the hands of one party at
\* a time, and slots and quota counters agree.
THEOREM InvariantHolds == Spec => []IInv
BY InitIInv, NextIInv, PTL DEF Spec

\* Every variable keeps its type.
THEOREM TypeCorrect == Spec => []TypeOK
<1>1. IInv => TypeOK
  BY DEF IInv
<1> QED
  BY <1>1, InvariantHolds, PTL

\* No account ever has more analyses queued or running than its quota, and the
\* counter that enforces it is exact.
THEOREM QuotaIsExact == Spec => []SlotAccounting
<1>1. IInv => SlotAccounting
  BY DEF IInv
<1> QED
  BY <1>1, InvariantHolds, PTL

\* No commit is analyzed by two workers at once, and an analysis in progress
\* holds the slot of its commit.
THEOREM AnalysesAreExclusive == Spec => []ExclusiveRun
<1>1. IInv => ExclusiveRun
  <2> SUFFICES ASSUME IInv, NEW v \in Workers, NEW w \in Workers, Processing(v), Processing(w)
               PROVE  /\ active[KeyOf(cur[v])] = cur[v]
                      /\ cur[v] \in started
                      /\ v # w => KeyOf(cur[v]) # KeyOf(cur[w])
    BY DEF ExclusiveRun
  <2>1. /\ active[KeyOf(cur[v])] = cur[v] /\ cur[v] \in started
        /\ active[KeyOf(cur[w])] = cur[w]
    BY DEF IInv, Custody
  <2>2. v # w => cur[v] # cur[w]
    BY DEF IInv, Custody, Processing
  <2> QED
    BY <2>1, <2>2
<1> QED
  BY <1>1, InvariantHolds, PTL

\* An attempt that was withdrawn is never analyzed.
THEOREM WithdrawnNeverRuns == Spec => []CancelledNeverRuns
<1>1. IInv => CancelledNeverRuns
  BY DEF IInv, SlotInv
<1> QED
  BY <1>1, InvariantHolds, PTL

-----------------------------------------------------------------------------
(* The analysis runner implements the life cycle of a job. *)

\* The mapped variable of JobLifecycle.
Phase == [a \in 1..Len(attempts) |-> PhaseOf(a)]

\* A step that leaves the slots alone is a stutter of the life cycle.
LEMMA SlotsUnchanged ==
  ASSUME UNCHANGED <<attempts, active, started, cancelled>>
  PROVE  UNCHANGED Lifecycle!vars
BY DEF Lifecycle!vars, PhaseOf, HasSlot, KeyOf

\* A step that changes the phase of one attempt.
LEMMA MoveStep ==
  ASSUME IInv, NEW a \in 1..Len(attempts), UNCHANGED attempts,
         \A b \in 1..Len(attempts) : b # a => PhaseOf(b)' = PhaseOf(b)
  PROVE  /\ a \in DOMAIN attempts
         /\ Phase[a] = PhaseOf(a)
         /\ Phase' = [Phase EXCEPT ![a] = PhaseOf(a)']
<1>1. /\ DOMAIN Phase = 1..Len(attempts) /\ DOMAIN Phase' = 1..Len(attempts)
      /\ \A b \in 1..Len(attempts) : Phase[b] = PhaseOf(b) /\ Phase'[b] = PhaseOf(b)'
  BY DEF Phase
<1>2. Phase' = [b \in 1..Len(attempts) |-> Phase'[b]]
  BY DEF Phase
<1>3. [Phase EXCEPT ![a] = PhaseOf(a)'] = [b \in 1..Len(attempts) |-> IF b = a THEN PhaseOf(a)' ELSE Phase[b]]
  BY <1>1
<1>4. \A b \in 1..Len(attempts) : Phase'[b] = IF b = a THEN PhaseOf(a)' ELSE Phase[b]
  BY <1>1
<1> QED
  BY <1>1, <1>2, <1>3, <1>4 DEF IInv, TypeOK

\* The open jobs are the keys that hold a slot.
LEMMA OpenJobsAreSlots ==
  ASSUME IInv
  PROVE  Lifecycle!OpenJobs = {k \in Keys : active[k] # 0}
<1>1. DOMAIN attempts = 1..Len(attempts)
  BY DEF IInv, TypeOK
<1>2. ASSUME NEW a \in 1..Len(attempts)
      PROVE  Phase[a] \in Lifecycle!Open <=> a \notin cancelled /\ active[KeyOf(a)] = a
  BY DEF Phase, PhaseOf, HasSlot, Lifecycle!Open
<1>3. ASSUME NEW k \in Keys, active[k] # 0
      PROVE  /\ active[k] \in 1..Len(attempts) /\ attempts[active[k]] = k
             /\ Phase[active[k]] \in Lifecycle!Open
  BY <1>2, <1>3 DEF IInv, TypeOK, SlotInv, KeyOf
<1>4. ASSUME NEW a \in 1..Len(attempts), Phase[a] \in Lifecycle!Open
      PROVE  attempts[a] \in Keys /\ active[attempts[a]] # 0
  BY <1>2, <1>4 DEF IInv, TypeOK, KeyOf
<1>5. Lifecycle!OpenJobs = {attempts[a] : a \in {a \in DOMAIN attempts : Phase[a] \in Lifecycle!Open}}
  BY DEF Lifecycle!OpenJobs, Phase
<1> QED
  BY <1>1, <1>3, <1>4, <1>5

LEMMA AdmitStep ==
  ASSUME IInv, NEW c \in Clients, NEW k \in Keys, SubmitAdmit(c, k)
  PROVE  Lifecycle!Admit(k)
<1> PICK n \in Nat : n = Len(attempts)
  BY DEF IInv, TypeOK
<1>1. /\ n < MaxAttempts /\ active[k] = 0 /\ perUser[OwnerOf(k)] < UserQuota
      /\ attempts' = Append(attempts, k) /\ active' = [active EXCEPT ![k] = n + 1]
      /\ UNCHANGED <<started, cancelled>>
  BY DEF SubmitAdmit
<1>2. n \in Nat /\ DOMAIN attempts = 1..n /\ Len(attempts') = n + 1 /\ attempts'[n + 1] = k
      /\ \A a \in 1..n : attempts'[a] = attempts[a] /\ attempts[a] \in Keys
  BY <1>1 DEF IInv, TypeOK
<1>3. n + 1 \notin started \cup cancelled
  BY <1>2 DEF IInv, TypeOK
<1>4. PhaseOf(n + 1)' = "admitted"
  BY <1>1, <1>2, <1>3 DEF PhaseOf, HasSlot, KeyOf, IInv, TypeOK
<1>5. ASSUME NEW a \in 1..n PROVE PhaseOf(a)' = PhaseOf(a)
  <2>1. active'[attempts[a]] = a <=> active[attempts[a]] = a
    BY <1>1, <1>2 DEF IInv, TypeOK
  <2> QED
    BY <1>1, <1>2, <2>1 DEF PhaseOf, HasSlot, KeyOf
<1>6. Phase' = Append(Phase, "admitted")
  <2> DEFINE All == {"admitted", "running", "withdrawn", "dropped", "over"}
  <2>1. \A a \in 1..n : PhaseOf(a) \in All
    BY DEF PhaseOf
  <2>2. Phase \in [1..n -> All]
    BY <2>1 DEF Phase
  <2>3. Phase' \in [1..(n + 1) -> All]
    BY <1>2, <1>4, <1>5, <2>1 DEF Phase
  <2>4. Phase \in Seq(All) /\ Phase' \in Seq(All)
    BY <1>2, <2>2, <2>3, SeqDef
  <2>5. Len(Phase) = n /\ Len(Phase') = n + 1
    BY <1>2, <2>2, <2>3, <2>4, LenProperties
  <2>6. /\ Append(Phase, "admitted") \in Seq(All) /\ Len(Append(Phase, "admitted")) = n + 1
        /\ \A i \in 1..(n + 1) : Append(Phase, "admitted")[i] = IF i <= n THEN Phase[i] ELSE "admitted"
    BY <1>2, <2>4, <2>5
  <2>7. \A i \in 1..(n + 1) : Phase'[i] = IF i <= n THEN Phase[i] ELSE "admitted"
    BY <1>2, <1>4, <1>5 DEF Phase
  <2> QED
    BY <2>4, <2>5, <2>6, <2>7, SeqEqual
<1>7. k \notin Lifecycle!OpenJobs
  BY <1>1, OpenJobsAreSlots
<1>8. Cardinality({j \in Lifecycle!OpenJobs : OwnerOf(j) = OwnerOf(k)}) < UserQuota
  <2>1. {j \in Lifecycle!OpenJobs : OwnerOf(j) = OwnerOf(k)} = SlotsOf(OwnerOf(k))
    BY OpenJobsAreSlots DEF SlotsOf
  <2> QED
    BY <1>1, <2>1, OwnerType DEF IInv, SlotAccounting
<1>9. {j \in Lifecycle!OpenJobs : [i \in Keys |-> OwnerOf(i)][j] = [i \in Keys |-> OwnerOf(i)][k]}
        = {j \in Lifecycle!OpenJobs : OwnerOf(j) = OwnerOf(k)}
  <2>1. \A j \in Lifecycle!OpenJobs : j \in Keys
    BY OpenJobsAreSlots
  <2> QED
    BY <2>1
<1>10. Lifecycle!Cardinality({j \in Lifecycle!OpenJobs :
                      [i \in Keys |-> OwnerOf(i)][j] = [i \in Keys |-> OwnerOf(i)][k]}) < UserQuota
  <2>1. \A S : Lifecycle!Cardinality(S) = Cardinality(S)
    BY Zenon DEF Cardinality, Lifecycle!Cardinality
  <2> QED
    BY <1>8, <1>9, <2>1
<1>11. Len(attempts) < MaxAttempts
  BY <1>1
<1> QED
  BY <1>1, <1>6, <1>7, <1>10, <1>11 DEF Lifecycle!Admit, Phase

\* Giving a slot back closes the attempt that had it, if any.
LEMMA ReleasePhase ==
  ASSUME IInv, NEW a \in 1..Len(attempts), ReleaseLocked(a), UNCHANGED attempts
  PROVE  \A b \in 1..Len(attempts) :
           HasSlot(b)' <=> b # a /\ HasSlot(b)
<1>1. \A k \in Keys : active'[k] = IF active[k] = a THEN 0 ELSE active[k]
  BY ReleaseSlot
<1>2. \A b \in 1..Len(attempts) : KeyOf(b) \in Keys /\ KeyOf(b)' = KeyOf(b) /\ b # 0
  BY DEF KeyOf, IInv, TypeOK
<1> QED
  BY <1>1, <1>2 DEF HasSlot

LEMMA SubmitBusyStep ==
  ASSUME IInv, NEW c \in Clients, SubmitBusy(c)
  PROVE  (\E a \in DOMAIN attempts : Lifecycle!Drop(a)) \/ UNCHANGED Lifecycle!vars
<1> PICK a \in 1..Len(attempts) : a = cur[c]
  BY CurInRange DEF SubmitBusy, Begin, Release, Threads
<1>1. /\ a \notin started /\ ReleaseLocked(a)
      /\ UNCHANGED <<attempts, started, cancelled>>
  BY DEF SubmitBusy, Threads, IInv, Custody, Sending
<1>2. \A b \in 1..Len(attempts) : b # a => PhaseOf(b)' = PhaseOf(b)
  BY <1>1, ReleasePhase DEF PhaseOf
<1>3. CASE HasSlot(a)
  <2>1. a \notin cancelled
    BY <1>1, <1>3 DEF IInv, SlotInv, TypeOK, KeyOf, HasSlot
  <2>2. PhaseOf(a) = "admitted" /\ PhaseOf(a)' = "dropped"
    BY <1>1, <1>3, <2>1, ReleasePhase DEF PhaseOf
  <2> QED
    BY <1>1, <1>2, <2>2, MoveStep DEF Lifecycle!Drop, Lifecycle!Move, Phase
<1>4. CASE ~HasSlot(a)
  BY <1>1, <1>4, SlotsUnchanged DEF ReleaseLocked, HasSlot
<1> QED
  BY <1>3, <1>4

LEMMA CancelStep ==
  ASSUME IInv, NEW c \in Clients, NEW k \in Keys, Cancel(c, k)
  PROVE  \E a \in DOMAIN attempts : Lifecycle!Withdraw(a)
<1> PICK a \in 1..Len(attempts) : a = active[k]
  BY DEF Cancel, IInv, TypeOK
<1>1. /\ a \notin started \cup cancelled /\ ReleaseLocked(a)
      /\ UNCHANGED <<attempts, started>> /\ cancelled' = cancelled \cup {a}
  BY DEF Cancel, IInv, TypeOK
<1>2. KeyOf(a) = k
  BY <1>1 DEF IInv, SlotInv
<1>3. \A b \in 1..Len(attempts) : b # a => PhaseOf(b)' = PhaseOf(b)
  BY <1>1, ReleasePhase DEF PhaseOf
<1>4. PhaseOf(a) = "admitted" /\ PhaseOf(a)' = "withdrawn"
  BY <1>1, <1>2 DEF PhaseOf, HasSlot
<1> QED
  BY <1>1, <1>3, <1>4, MoveStep DEF Lifecycle!Withdraw, Lifecycle!Move, Phase

LEMMA BeginStep ==
  ASSUME IInv, NEW w \in Workers, Begin(w)
  PROVE  (\E a \in DOMAIN attempts : Lifecycle!Start(a)) \/ UNCHANGED Lifecycle!vars
<1> PICK a \in 1..Len(attempts) : a = cur[w]
  BY CurInRange DEF SubmitBusy, Begin, Release, Threads
<1>1. /\ a \notin started
      /\ UNCHANGED <<attempts, active, cancelled>>
  BY DEF Begin, Threads, IInv, Custody
<1>2. CASE active[KeyOf(a)] = a /\ a \notin cancelled
  <2>1. started' = started \cup {a}
    BY <1>2 DEF Begin
  <2>2. PhaseOf(a) = "admitted" /\ PhaseOf(a)' = "running"
    BY <1>1, <1>2, <2>1 DEF PhaseOf, HasSlot, KeyOf
  <2>3. \A b \in 1..Len(attempts) : b # a => PhaseOf(b)' = PhaseOf(b)
    BY <1>1, <2>1 DEF PhaseOf, HasSlot, KeyOf
  <2> QED
    BY <1>1, <2>2, <2>3, MoveStep DEF Lifecycle!Start, Lifecycle!Move, Phase
<1>3. CASE ~(active[KeyOf(a)] = a /\ a \notin cancelled)
  BY <1>1, <1>3, SlotsUnchanged DEF Begin
<1> QED
  BY <1>2, <1>3

LEMMA ReleaseStep ==
  ASSUME IInv, NEW w \in Workers, Release(w)
  PROVE  \E a \in DOMAIN attempts : Lifecycle!Finish(a)
<1> PICK a \in 1..Len(attempts) : a = cur[w]
  BY CurInRange DEF SubmitBusy, Begin, Release, Threads
<1>1. /\ a \in started /\ HasSlot(a) /\ ReleaseLocked(a)
      /\ UNCHANGED <<attempts, started, cancelled>>
  BY DEF Release, Threads, IInv, Custody, Processing, HasSlot
<1>2. a \notin cancelled
  BY <1>1 DEF IInv, SlotInv, CancelledNeverRuns
<1>3. \A b \in 1..Len(attempts) : b # a => PhaseOf(b)' = PhaseOf(b)
  BY <1>1, ReleasePhase DEF PhaseOf
<1>4. PhaseOf(a) = "running" /\ PhaseOf(a)' = "over"
  BY <1>1, <1>2, ReleasePhase DEF PhaseOf
<1> QED
  BY <1>1, <1>3, <1>4, MoveStep DEF Lifecycle!Finish, Lifecycle!Move, Phase

LEMMA RestartStep ==
  ASSUME IInv, Restart
  PROVE  Lifecycle!Stop
<1>1. UNCHANGED <<attempts, started, cancelled>> /\ active' = [k \in Keys |-> 0]
  BY DEF Restart
<1>2. ASSUME NEW a \in 1..Len(attempts)
      PROVE  PhaseOf(a)' = CASE PhaseOf(a) = "admitted" -> "dropped"
                             [] PhaseOf(a) = "running"  -> "over"
                             [] OTHER                   -> PhaseOf(a)
  <2>1. ~HasSlot(a)'
    BY <1>1 DEF HasSlot, KeyOf, IInv, TypeOK
  <2> QED
    BY <1>1, <2>1 DEF PhaseOf
<1>3. Phase' = [a \in DOMAIN Phase |-> CASE Phase[a] = "admitted" -> "dropped"
                                         [] Phase[a] = "running"  -> "over"
                                         [] OTHER                 -> Phase[a]]
  BY <1>1, <1>2 DEF Phase
<1> QED
  BY <1>1, <1>3 DEF Lifecycle!Stop, Phase

\* Every other action leaves the slots alone.
LEMMA OtherSteps ==
  ASSUME IInv,
         \/ \E c \in Clients : \/ \E k \in Keys : SubmitDuplicate(c, k)
                               \/ SubmitSend(c) \/ SubmitReady(c) \/ CancelFallback(c)
         \/ \E t \in Threads : PublishStep(t) \/ StoreFails(t)
         \/ \E w \in Workers : Dequeue(w) \/ (\E o \in {"done", "failed"} : Analyze(w, o)) \/ PutRecord(w)
         \/ \E a \in Attempts : Age(a)
         \/ PruneTick
         \/ Rest
         \/ UNCHANGED vars
  PROVE  UNCHANGED Lifecycle!vars
<1>1. UNCHANGED <<attempts, active, started, cancelled>>
  BY DEF SubmitDuplicate, SubmitSend, SubmitReady, CancelFallback, PublishStep, RememberActivity,
         StreamRun, StoreLatest, StoreFails, Dequeue, Analyze, PutRecord, Age, PruneTick, Rest,
         vars, slotVars
<1> QED
  BY <1>1, SlotsUnchanged

\* Whatever the interleaving of handlers, workers and restarts, every attempt
\* follows the life cycle JobLifecycle specifies.
THEOREM RunnerImplementsLifecycle == Spec => ImplementsLifecycle
<1>1. Init => Lifecycle!Init
  <2> SUFFICES ASSUME Init PROVE Phase = <<>> /\ attempts = <<>>
    BY DEF Lifecycle!Init, Phase
  <2>1. attempts = <<>> /\ Len(attempts) = 0
    BY DEF Init
  <2>2. Phase \in [1..0 -> {"over"}]
    BY <2>1 DEF Phase
  <2>3. Phase \in Seq({"over"})
    BY <2>2, SeqDef
  <2>4. Len(Phase) = 0
    BY <2>2, <2>3, LenProperties
  <2> QED
    BY <2>1, <2>3, <2>4, EmptySeq
<1>2. IInv /\ [Next]_vars => [Lifecycle!Next]_(Lifecycle!vars)
  <2> SUFFICES ASSUME IInv, [Next]_vars
               PROVE  Lifecycle!Next \/ UNCHANGED Lifecycle!vars
    OBVIOUS
  <2>1. ASSUME NEW c \in Clients, Request(c)
        PROVE  Lifecycle!Next \/ UNCHANGED Lifecycle!vars
    <3> PICK k \in Keys : SubmitDuplicate(c, k) \/ SubmitAdmit(c, k) \/ Cancel(c, k)
      BY <2>1 DEF Request
    <3> QED
      BY OtherSteps, AdmitStep, CancelStep DEF Lifecycle!Next
  <2>2. ASSUME NEW c \in Clients, ClientStep(c)
        PROVE  Lifecycle!Next \/ UNCHANGED Lifecycle!vars
    BY <2>2, OtherSteps, SubmitBusyStep DEF ClientStep, Threads, Lifecycle!Next
  <2>3. ASSUME NEW w \in Workers, WorkerStep(w)
        PROVE  Lifecycle!Next \/ UNCHANGED Lifecycle!vars
    BY <2>3, OtherSteps, BeginStep, ReleaseStep DEF WorkerStep, Threads, Lifecycle!Next
  <2>4. CASE Restart
    BY <2>4, RestartStep DEF Lifecycle!Next
  <2> QED
    BY <2>1, <2>2, <2>3, <2>4, OtherSteps DEF Next
<1> QED
  BY <1>1, <1>2, InvariantHolds, PTL DEF Spec, ImplementsLifecycle, Lifecycle!Spec

-----------------------------------------------------------------------------
(* What becomes of an accepted attempt: the order of the events a browser  *)
(* sees, the delivery of the job to a worker, and the badge of the         *)
(* repository.                                                             *)

(* Where an attempt is. *)

InQueue(a) == \E i \in DOMAIN queue : queue[i] = a

\* In the channel, or with the worker that waits for its announcement.
Waits(a) == InQueue(a) \/ \E w \in Workers : pc[w] = "begin" /\ cur[w] = a

\* With the handler that sends it, or found the channel full.
Sent(a) == \E c \in Clients : Sending(c) /\ cur[c] = a

\* With the worker that runs it.
InHand(a) == \E w \in Workers : Processing(w) /\ cur[w] = a

\* The handler that publishes "queued", until it closes Job.ready.
Announcing(c) == pc[c] \in Publication \cup {"ready"} /\ out[c] = "queued"

Holding(c) == Sending(c) \/ Announcing(c)

\* The handler of a Cancel.
Withdrawing(c) == pc[c] \in Publication \cup {"fallback"} /\ out[c] = "cancelled"

\* It has not yet published "cancelled".
Retracting(c) == pc[c] \in {"remember", "stream"} /\ out[c] = "cancelled"

-----------------------------------------------------------------------------
(* The parts of the invariant. *)

\* What each goroutine publishes, and for which attempt.
RoleInv ==
    /\ \A c \in Clients :
          /\ pc[c] \in {"latest", "ready"} => out[c] = "queued"
          /\ pc[c] = "fallback" => out[c] = "cancelled"
          /\ Withdrawing(c) => cur[c] \in cancelled
    /\ \A w \in Workers :
          /\ pc[w] \in {"record", "release"} => out[w] \in {"done", "failed"}
    /\ \A t \in Threads : pc[t] \in {"latest", "fallback"} => KeyOf(cur[t]) \notin Plans

\* One handler announces an attempt, before anybody is told that it is ready, and
\* as soon as the job is in the channel.
HoldInv ==
    /\ \A c \in Clients : Holding(c) => cur[c] \notin ready \cup started
    /\ \A c, d \in Clients : Holding(c) /\ Holding(d) /\ c # d => cur[c] # cur[d]
    /\ \A c \in Clients : Announcing(c) => Waits(cur[c])

\* Until it begins, an attempt keeps its slot unless it is withdrawn; a slot is
\* that of an attempt that somebody has.
PlaceInv ==
    /\ \A a \in Attempts : (Waits(a) \/ Sent(a)) /\ a \notin cancelled => active[KeyOf(a)] = a
    /\ \A k \in Keys : active[k] # 0 => Waits(active[k]) \/ Sent(active[k]) \/ active[k] \in started

\* A ready attempt goes on until its slot is released; a promised one, unless it
\* was never announced.
DeliveredInv ==
    /\ \A a \in ready : \/ Waits(a) \/ InHand(a) \/ a \in cancelled
                        \/ (a \in started /\ active[KeyOf(a)] # a)
    /\ \A a \in promised : \/ Waits(a) \/ Sent(a) \/ a \in started \cup cancelled
                           \/ stream[a] = <<>>

ListedInv ==
    /\ \A a \in ready \ aged : activity[a] # "none"
    /\ \A c \in Clients : Announcing(c) /\ pc[c] # "remember" /\ cur[c] \notin aged
                             => activity[cur[c]] # "none"

Unannounced == {<<>>, <<"cancelled">>}
Running     == <<"queued", "running">>

\* The worker published "running" and not yet the outcome.
BetweenEvents(w) ==
    \/ pc[w] \in {"analyze", "record"}
    \/ pc[w] = "latest" /\ out[w] = "running"
    \/ pc[w] \in {"remember", "stream"} /\ out[w] # "running"

\* The events of an attempt, by what became of it and what its goroutines have
\* left to do.
AttemptEvents(a) ==
    /\ a > Len(attempts) => stream[a] = <<>>
    /\ a \notin cancelled \cup started => stream[a] \in {<<>>, <<"queued">>}
    /\ a \in started => stream[a] \in {<<"queued">>, Running, Append(Running, "done"),
                                       Append(Running, "failed")}
    /\ a \in cancelled => stream[a] \in StreamsWithdrawn
    /\ a \in ready => stream[a] \notin Unannounced

ClientEvents(c) ==
    /\ Sending(c) \/ (Announcing(c) /\ pc[c] \in {"remember", "stream"})
          => stream[cur[c]] \in Unannounced
    /\ Announcing(c) /\ pc[c] \in {"latest", "ready"} => stream[cur[c]] \notin Unannounced
    /\ Retracting(c) => stream[cur[c]] \in {<<>>, <<"queued">>}

WorkerEvents(w) ==
    /\ pc[w] \in {"remember", "stream"} /\ out[w] = "running" => stream[cur[w]] = <<"queued">>
    /\ BetweenEvents(w) => stream[cur[w]] = Running

EventsInv ==
    /\ \A a \in Attempts : AttemptEvents(a)
    /\ \A c \in Clients : ClientEvents(c)
    /\ \A c, d \in Clients : Retracting(c) /\ Retracting(d) /\ c # d => cur[c] # cur[d]
    /\ \A w \in Workers : WorkerEvents(w)

-----------------------------------------------------------------------------
(* The badge. *)

NoFault == faults["store"] + faults["crash"] = 0

Unrecorded(a) ==
    \E w \in Workers : /\ cur[w] = a
                      /\ \/ pc[w] \in {"analyze", "record"}
                         \/ pc[w] \in Publication /\ out[w] = "running"

Unfinished(a) ==
    \E w \in Workers : cur[w] = a /\ pc[w] \in Publication \cup {"analyze", "record"}

\* A slot is that of the newest attempt of its commit.
NewestInv ==
    \A k \in Keys : active[k] # 0 =>
        \A a \in 1..Len(attempts) : KeyOf(a) = k => a <= active[k]

\* The record of a commit is the outcome of an analysis, no older than the last
\* one that was recorded.
RecordsInv ==
    /\ \A k \in Keys : records[k] # NoRun =>
          /\ records[k].status \in {"done", "failed"}
          /\ records[k].attempt \in started
          /\ KeyOf(records[k].attempt) = k
    /\ NoFault => \A a \in started : ~Unrecorded(a) =>
          records[KeyOf(a)] # NoRun /\ a <= records[KeyOf(a)].attempt

\* The badge shows an attempt of the repository; a status that is not final is
\* that of an attempt that goes on, or was withdrawn.
BadgeOf(r) ==
    latest[r] # NoRun =>
        /\ latest[r].attempt \in 1..Len(attempts)
        /\ KeyOf(latest[r].attempt) \notin Plans /\ RepoOf[KeyOf(latest[r].attempt)] = r
        /\ latest[r].status \in {"queued", "running", "done", "failed"}
        /\ latest[r].status \in {"done", "failed"} => latest[r].attempt \in started
        /\ NoFault /\ latest[r].status \in {"queued", "running"} =>
              \/ latest[r].attempt \in cancelled
              \/ Waits(latest[r].attempt) \/ Unfinished(latest[r].attempt)

LatestInv == \A r \in Repos : BadgeOf(r)

\* The badge is not older than an analysis that is over.
SettledInv ==
    NoFault => \A r \in Repos : \A a \in Kept(r) : ~Unfinished(a) =>
        latest[r] # NoRun /\ (a <= latest[r].attempt \/ Overtaken(a))

BadgeInv == NewestInv /\ RecordsInv /\ LatestInv /\ SettledInv

DeliveryInv ==
    IInv /\ RoleInv /\ HoldInv /\ PlaceInv /\ DeliveredInv /\ ListedInv /\ EventsInv /\ BadgeInv

-----------------------------------------------------------------------------
LEMMA InitDelivery == Init => DeliveryInv
<1> SUFFICES ASSUME Init PROVE DeliveryInv
  OBVIOUS
<1>1. IInv
  BY InitIInv
<1>2. \A a : ~InQueue(a) /\ ~Waits(a) /\ ~Sent(a) /\ ~InHand(a)
  BY DEF Init, InQueue, Waits, Sent, Sending, InHand, Processing, Threads
<1>3. RoleInv /\ HoldInv
  BY <1>2 DEF Init, RoleInv, HoldInv, Withdrawing, Holding, Sending, Announcing, Publication, Threads
<1>4. PlaceInv /\ DeliveredInv /\ ListedInv
  BY <1>2 DEF Init, PlaceInv, DeliveredInv, ListedInv, Announcing, Publication, Threads
<1>5. EventsInv
  BY DEF Init, EventsInv, AttemptEvents, ClientEvents, WorkerEvents, Sending, Announcing, Retracting,
         BetweenEvents, Publication, Threads, StreamsWithdrawn, Unannounced
<1>6. BadgeInv
  BY DEF Init, BadgeInv, NewestInv, RecordsInv, LatestInv, BadgeOf, SettledInv, Kept
<1> QED
  BY <1>1, <1>3, <1>4, <1>5, <1>6 DEF DeliveryInv

(* What each step changes. *)

\* Goroutine t goes to p with attempt a and outcome s; the others stay.
Moves(t, p, a, s) ==
    /\ pc'[t] = p /\ cur'[t] = a /\ out'[t] = s
    /\ \A u \in Threads \ {t} : pc'[u] = pc[u] /\ cur'[u] = cur[u] /\ out'[u] = out[u]

LEMMA Roles ==
  /\ Clients \subseteq Threads /\ Workers \subseteq Threads /\ Threads = Clients \cup Workers
  /\ \A c \in Clients, w \in Workers : c # w
BY RunnerAssumption DEF RunnerAssumption, Threads

LEMMA MovesTo ==
  ASSUME IInv, NEW t \in Threads, NEW p, NEW a, NEW s,
         pc' = [pc EXCEPT ![t] = p],
         (cur' = cur /\ a = cur[t]) \/ cur' = [cur EXCEPT ![t] = a],
         (out' = out /\ s = out[t]) \/ out' = [out EXCEPT ![t] = s]
  PROVE  Moves(t, p, a, s)
<1>1. pc \in [Threads -> Places] /\ cur \in [Threads -> 0..Len(attempts)] /\ out \in [Threads -> Status]
  BY DEF IInv, TypeOK
<1>2. pc'[t] = p /\ \A u \in Threads \ {t} : pc'[u] = pc[u]
  BY <1>1
<1>3. cur'[t] = a /\ \A u \in Threads \ {t} : cur'[u] = cur[u]
  BY <1>1
<1>4. out'[t] = s /\ \A u \in Threads \ {t} : out'[u] = out[u]
  BY <1>1
<1> QED
  BY <1>2, <1>3, <1>4 DEF Moves

LEMMA SubmitAdmitEffect ==
  ASSUME IInv, NEW c \in Clients, NEW k \in Keys, SubmitAdmit(c, k)
  PROVE  LET n == Len(attempts) + 1 IN
         /\ pc[c] = "idle" /\ active[k] = 0 /\ Moves(c, "send", n, out[c])
         /\ Len(attempts') = n /\ n \in Attempts
         /\ \A a \in 1..Len(attempts) : KeyOf(a)' = KeyOf(a)
         /\ attempts'[n] = k
         /\ active'[k] = n /\ \A j \in Keys \ {k} : active'[j] = active[j]
         /\ UNCHANGED <<started, cancelled, queue, ready, activity, aged, stream, latest, records,
                        promised, faults>>
<1> DEFINE n == Len(attempts) + 1
<1>1. Moves(c, "send", n, out[c])
  BY MovesTo, Roles DEF SubmitAdmit, Goto
<1>2. /\ attempts \in Seq(Keys) /\ attempts' = Append(attempts, k) /\ Len(attempts) < MaxAttempts
      /\ Len(attempts) \in Nat /\ MaxAttempts \in Nat
  BY RunnerAssumption DEF RunnerAssumption, IInv, TypeOK, SubmitAdmit
<1>3. Len(attempts') = n /\ attempts'[n] = k /\ \A a \in 1..Len(attempts) : attempts'[a] = attempts[a]
  BY <1>2
<1>4. n \in Attempts
  BY <1>2 DEF Attempts
<1>5. active'[k] = n /\ \A j \in Keys \ {k} : active'[j] = active[j]
  BY DEF SubmitAdmit, IInv, TypeOK
<1> QED
  BY <1>1, <1>3, <1>4, <1>5 DEF SubmitAdmit, storeVars, KeyOf

LEMMA SubmitSendEffect ==
  ASSUME IInv, NEW c \in Clients, SubmitSend(c)
  PROVE  /\ pc[c] = "send"
         /\ \/ Moves(c, "remember", cur[c], "queued") /\ queue' = Append(queue, cur[c])
            \/ Moves(c, "busy", cur[c], out[c]) /\ queue' = queue
         /\ UNCHANGED <<attempts, active, started, cancelled, ready, activity, aged, stream, latest,
                        records, promised, faults>>
<1>1. CASE Len(queue) < QueueSize
  <2>1. Moves(c, "remember", cur[c], "queued")
    BY <1>1, MovesTo, Roles DEF SubmitSend, Publishing, Goto
  <2> QED
    BY <1>1, <2>1 DEF SubmitSend, slotVars, storeVars
<1>2. CASE ~(Len(queue) < QueueSize)
  <2>1. Moves(c, "busy", cur[c], out[c])
    BY <1>2, MovesTo, Roles DEF SubmitSend, Goto
  <2> QED
    BY <1>2, <2>1 DEF SubmitSend, slotVars, storeVars
<1> QED
  BY <1>1, <1>2

\* Only the slot of attempt a is given back.
Frees(a) ==
    \A k \in Keys : active'[k] = IF active[k] = a THEN 0 ELSE active[k]

LEMMA ReleaseFrees ==
  ASSUME IInv, NEW a \in 1..Len(attempts), ReleaseLocked(a)
  PROVE  Frees(a)
<1>1. KeyOf(a) \in Keys /\ active \in [Keys -> 0..Len(attempts)]
  BY DEF IInv, TypeOK, KeyOf
<1>2. \A k \in Keys : active[k] = a => k = KeyOf(a)
  BY DEF IInv, SlotInv
<1> QED
  BY <1>1, <1>2 DEF ReleaseLocked, Frees

LEMMA SubmitBusyEffect ==
  ASSUME IInv, NEW c \in Clients, SubmitBusy(c)
  PROVE  /\ pc[c] = "busy" /\ Moves(c, "idle", cur[c], out[c]) /\ Frees(cur[c])
         /\ UNCHANGED <<attempts, started, cancelled, queue, ready, activity, aged, stream, latest,
                        records, promised, faults>>
BY MovesTo, Roles, CurInRange, ReleaseFrees DEF SubmitBusy, Goto, storeVars

LEMMA SubmitReadyEffect ==
  ASSUME IInv, NEW c \in Clients, SubmitReady(c)
  PROVE  /\ pc[c] = "ready" /\ Moves(c, "idle", cur[c], out[c])
         /\ ready' = ready \cup {cur[c]} /\ promised' = promised \cup {cur[c]}
         /\ UNCHANGED <<attempts, active, started, cancelled, queue, activity, aged, stream, latest,
                        records, faults>>
BY MovesTo, Roles DEF SubmitReady, Goto, slotVars, storeVars

LEMMA CancelEffect ==
  ASSUME IInv, NEW c \in Clients, NEW k \in Keys, Cancel(c, k)
  PROVE  LET a == active[k] IN
         /\ pc[c] = "idle" /\ a \in 1..Len(attempts) /\ a \notin started \cup cancelled
         /\ Moves(c, "remember", a, "cancelled") /\ Frees(a)
         /\ cancelled' = cancelled \cup {a}
         /\ faults'["store"] = faults["store"] /\ faults'["crash"] = faults["crash"]
         /\ UNCHANGED <<attempts, started, queue, ready, activity, aged, stream, latest, records,
                        promised>>
<1>1. active[k] \in 1..Len(attempts)
  BY DEF Cancel, IInv, TypeOK
<1>2. Moves(c, "remember", active[k], "cancelled")
  BY MovesTo, Roles DEF Cancel, Publishing, Goto
<1>3. Frees(active[k])
  BY <1>1, ReleaseFrees DEF Cancel
<1>4. faults'["store"] = faults["store"] /\ faults'["crash"] = faults["crash"]
  BY DEF Cancel, IInv, TypeOK, Faults
<1> QED
  BY <1>1, <1>2, <1>3, <1>4 DEF Cancel, storeVars

LEMMA CancelFallbackEffect ==
  ASSUME IInv, NEW c \in Clients, CancelFallback(c)
  PROVE  /\ pc[c] = "fallback" /\ Moves(c, "idle", cur[c], out[c])
         /\ UNCHANGED <<attempts, active, started, cancelled, queue, ready, activity, aged, stream,
                        records, promised, faults>>
BY MovesTo, Roles DEF CancelFallback, Goto, slotVars

LEMMA RememberActivityEffect ==
  ASSUME IInv, NEW t \in Threads, RememberActivity(t)
  PROVE  /\ pc[t] = "remember" /\ Moves(t, "stream", cur[t], out[t])
         /\ UNCHANGED <<attempts, active, started, cancelled, queue, ready, aged, stream, latest,
                        records, promised, faults>>
BY MovesTo DEF RememberActivity, Goto, slotVars, storeVars

LEMMA StreamRunEffect ==
  ASSUME IInv, NEW t \in Threads, StreamRun(t)
  PROVE  /\ pc[t] = "stream"
         /\ \/ KeyOf(cur[t]) \in Plans /\ Moves(t, AfterPublish(t), cur[t], out[t])
            \/ KeyOf(cur[t]) \notin Plans /\ out[t] = "cancelled" /\ Moves(t, "fallback", cur[t], out[t])
            \/ KeyOf(cur[t]) \notin Plans /\ out[t] # "cancelled" /\ Moves(t, "latest", cur[t], out[t])
         /\ cur[t] \in 1..Len(attempts) /\ cur[t] \in Attempts
         /\ stream'[cur[t]] = Append(stream[cur[t]], out[t])
         /\ \A a \in Attempts : a # cur[t] => stream'[a] = stream[a]
         /\ UNCHANGED <<attempts, active, started, cancelled, queue, ready, activity, aged, latest,
                        records, promised, faults>>
<1> DEFINE p == IF KeyOf(cur[t]) \in Plans THEN AfterPublish(t)
                ELSE IF out[t] = "cancelled" THEN "fallback" ELSE "latest"
<1>1. pc[t] = "stream" /\ Moves(t, p, cur[t], out[t])
  BY MovesTo DEF StreamRun, Goto
<1>2. cur[t] \in 1..Len(attempts) /\ cur[t] \in Attempts
  BY <1>1, CurInRange
<1>3. /\ stream'[cur[t]] = Append(stream[cur[t]], out[t])
      /\ \A a \in Attempts : a # cur[t] => stream'[a] = stream[a]
  BY <1>2 DEF StreamRun, IInv, TypeOK
<1>4. CASE KeyOf(cur[t]) \in Plans
  BY <1>1, <1>2, <1>3, <1>4 DEF StreamRun, slotVars, storeVars
<1>5. CASE KeyOf(cur[t]) \notin Plans /\ out[t] = "cancelled"
  BY <1>1, <1>2, <1>3, <1>5 DEF StreamRun, slotVars, storeVars
<1>6. CASE KeyOf(cur[t]) \notin Plans /\ out[t] # "cancelled"
  BY <1>1, <1>2, <1>3, <1>6 DEF StreamRun, slotVars, storeVars
<1> QED
  BY <1>4, <1>5, <1>6

LEMMA StoreLatestEffect ==
  ASSUME IInv, NEW t \in Threads, StoreLatest(t)
  PROVE  /\ pc[t] = "latest" /\ Moves(t, AfterPublish(t), cur[t], out[t])
         /\ UNCHANGED <<attempts, active, started, cancelled, queue, ready, activity, aged, stream,
                        records, promised, faults>>
BY MovesTo DEF StoreLatest, Goto, slotVars

LEMMA StoreFailsEffect ==
  ASSUME IInv, NEW t \in Threads, StoreFails(t)
  PROVE  /\ \/ pc[t] = "record" /\ Moves(t, "remember", cur[t], out[t])
            \/ pc[t] = "latest" /\ Moves(t, AfterPublish(t), cur[t], out[t])
            \/ pc[t] = "fallback" /\ Moves(t, "idle", cur[t], out[t])
         /\ faults'["store"] + faults'["crash"] > 0
         /\ UNCHANGED <<attempts, active, started, cancelled, queue, ready, activity, aged, stream,
                        latest, records, promised>>
<1> DEFINE p == CASE pc[t] = "record"   -> "remember"
                  [] pc[t] = "latest"   -> AfterPublish(t)
                  [] pc[t] = "fallback" -> "idle"
<1>1. pc[t] \in {"record", "latest", "fallback"} /\ Moves(t, p, cur[t], out[t])
  BY MovesTo DEF StoreFails, Goto
<1>2. faults'["store"] + faults'["crash"] > 0
  BY DEF StoreFails, IInv, TypeOK, Faults
<1>3. UNCHANGED <<attempts, active, started, cancelled, queue, ready, activity, aged, stream,
                  latest, records, promised>>
  BY DEF StoreFails, slotVars, storeVars
<1>4. CASE pc[t] = "record"
  BY <1>1, <1>2, <1>3, <1>4
<1>5. CASE pc[t] = "latest"
  BY <1>1, <1>2, <1>3, <1>5
<1>6. CASE pc[t] = "fallback"
  BY <1>1, <1>2, <1>3, <1>6
<1> QED
  BY <1>1, <1>4, <1>5, <1>6

LEMMA DequeueEffect ==
  ASSUME IInv, NEW w \in Workers, Dequeue(w)
  PROVE  /\ pc[w] = "idle" /\ queue # <<>> /\ queue' = Tail(queue)
         /\ Moves(w, "begin", Head(queue), out[w])
         /\ UNCHANGED <<attempts, active, started, cancelled, ready, activity, aged, stream, latest,
                        records, promised, faults>>
BY MovesTo, Roles DEF Dequeue, Goto, slotVars, storeVars

LEMMA BeginEffect ==
  ASSUME IInv, NEW w \in Workers, Begin(w)
  PROVE  /\ pc[w] = "begin" /\ cur[w] \in ready
         /\ \/ /\ active[KeyOf(cur[w])] = cur[w] /\ cur[w] \notin cancelled
               /\ started' = started \cup {cur[w]} /\ Moves(w, "remember", cur[w], "running")
            \/ /\ active[KeyOf(cur[w])] # cur[w] \/ cur[w] \in cancelled
               /\ started' = started /\ Moves(w, "idle", cur[w], out[w])
         /\ UNCHANGED <<attempts, active, cancelled, queue, ready, activity, aged, stream, latest,
                        records, promised, faults>>
<1>1. CASE active[KeyOf(cur[w])] = cur[w] /\ cur[w] \notin cancelled
  <2>1. Moves(w, "remember", cur[w], "running")
    BY <1>1, MovesTo, Roles DEF Begin, Publishing, Goto
  <2> QED
    BY <1>1, <2>1 DEF Begin, storeVars
<1>2. CASE ~(active[KeyOf(cur[w])] = cur[w] /\ cur[w] \notin cancelled)
  <2>1. Moves(w, "idle", cur[w], out[w])
    BY <1>2, MovesTo, Roles DEF Begin, Goto
  <2> QED
    BY <1>2, <2>1 DEF Begin, storeVars
<1> QED
  BY <1>1, <1>2

LEMMA AnalyzeEffect ==
  ASSUME IInv, NEW w \in Workers, NEW o \in {"done", "failed"}, Analyze(w, o)
  PROVE  /\ pc[w] = "analyze" /\ Moves(w, "record", cur[w], o)
         /\ UNCHANGED <<attempts, active, started, cancelled, queue, ready, activity, aged, stream,
                        latest, records, promised, faults>>
BY MovesTo, Roles DEF Analyze, Goto, slotVars, storeVars

LEMMA PutRecordEffect ==
  ASSUME IInv, NEW w \in Workers, PutRecord(w)
  PROVE  /\ pc[w] = "record" /\ Moves(w, "remember", cur[w], out[w])
         /\ UNCHANGED <<attempts, active, started, cancelled, queue, ready, activity, aged, stream,
                        latest, promised, faults>>
BY MovesTo, Roles DEF PutRecord, Goto, slotVars

LEMMA ReleaseEffect ==
  ASSUME IInv, NEW w \in Workers, Release(w)
  PROVE  /\ pc[w] = "release" /\ Moves(w, "idle", cur[w], out[w]) /\ Frees(cur[w])
         /\ UNCHANGED <<attempts, started, cancelled, queue, ready, activity, aged, stream, latest,
                        records, promised, faults>>
BY MovesTo, Roles, CurInRange, ReleaseFrees DEF Release, Goto, storeVars

LEMMA RestartEffect ==
  ASSUME IInv, Restart
  PROVE  /\ \A t \in Threads : pc'[t] = "idle"
         /\ \A k \in Keys : active'[k] = 0
         /\ queue' = <<>> /\ ready' = {} /\ promised' = {}
         /\ faults'["store"] + faults'["crash"] > 0
         /\ UNCHANGED <<attempts, started, cancelled, aged, stream, latest, records, cur, out>>
<1>1. faults'["store"] + faults'["crash"] > 0
  BY DEF Restart, IInv, TypeOK, Faults
<1> QED
  BY <1>1 DEF Restart, storeVars

\* The steps that move no goroutine.
Idles ==
    UNCHANGED <<attempts, active, started, cancelled, queue, ready, stream, latest, records, pc, cur,
                out, faults>>

LEMMA IdleEffect ==
  ASSUME \/ \E c \in Clients, k \in Keys : SubmitDuplicate(c, k)
         \/ \E a \in Attempts : Age(a)
         \/ PruneTick \/ Rest \/ UNCHANGED vars
  PROVE  Idles
BY DEF SubmitDuplicate, Age, PruneTick, Rest, vars, Idles, slotVars, storeVars, threadVars

-----------------------------------------------------------------------------
LEMMA RoleNext ==
  ASSUME IInv, RoleInv, [Next]_vars
  PROVE  RoleInv'
<1> USE Roles DEF RoleInv, Withdrawing, Publication, Moves
<1>0. /\ \A t \in Threads : pc[t] # "idle" => cur[t] \in 1..Len(attempts)
      /\ \A c \in Clients : /\ pc[c] \notin {"record", "release"}
                            /\ pc[c] \in {"remember", "stream", "latest"} => out[c] \in {"queued", "cancelled"}
      /\ \A w \in Workers : /\ pc[w] \notin {"ready", "fallback"}
                            /\ pc[w] \in {"remember", "stream", "latest", "record"} =>
                                  out[w] \in {"running", "done", "failed"}
  BY CurInRange DEF IInv, ThreadInv, ClientPlaces, WorkerPlaces
<1>1. ASSUME NEW c \in Clients, NEW k \in Keys, SubmitAdmit(c, k) PROVE RoleInv'
  BY <1>0, <1>1, SubmitAdmitEffect DEF KeyOf
<1>2. ASSUME NEW c \in Clients, NEW k \in Keys, Cancel(c, k) PROVE RoleInv'
  BY <1>0, <1>2, CancelEffect DEF KeyOf
<1>3. ASSUME NEW c \in Clients, SubmitSend(c) PROVE RoleInv'
  BY <1>0, <1>3, SubmitSendEffect DEF KeyOf
<1>4. ASSUME NEW c \in Clients, SubmitBusy(c) PROVE RoleInv'
  BY <1>0, <1>4, SubmitBusyEffect DEF KeyOf
<1>5. ASSUME NEW c \in Clients, SubmitReady(c) PROVE RoleInv'
  BY <1>0, <1>5, SubmitReadyEffect DEF KeyOf
<1>6. ASSUME NEW c \in Clients, CancelFallback(c) PROVE RoleInv'
  BY <1>0, <1>6, CancelFallbackEffect DEF KeyOf
<1>7. ASSUME NEW t \in Threads, RememberActivity(t) PROVE RoleInv'
  BY <1>0, <1>7, RememberActivityEffect DEF KeyOf
<1>8. ASSUME NEW t \in Threads, StreamRun(t) PROVE RoleInv'
  BY <1>0, <1>8, StreamRunEffect DEF KeyOf, AfterPublish
<1>9. ASSUME NEW t \in Threads, StoreLatest(t) PROVE RoleInv'
  BY <1>0, <1>9, StoreLatestEffect DEF KeyOf, AfterPublish
<1>10. ASSUME NEW t \in Threads, StoreFails(t) PROVE RoleInv'
  BY <1>0, <1>10, StoreFailsEffect DEF KeyOf, AfterPublish
<1>11. ASSUME NEW w \in Workers, Dequeue(w) PROVE RoleInv'
  BY <1>0, <1>11, DequeueEffect DEF KeyOf
<1>12. ASSUME NEW w \in Workers, Begin(w) PROVE RoleInv'
  BY <1>0, <1>12, BeginEffect DEF KeyOf
<1>13. ASSUME NEW w \in Workers, PutRecord(w) PROVE RoleInv'
  BY <1>0, <1>13, PutRecordEffect DEF KeyOf
<1>14. ASSUME NEW w \in Workers, Release(w) PROVE RoleInv'
  BY <1>0, <1>14, ReleaseEffect DEF KeyOf
<1>15. ASSUME NEW w \in Workers, NEW o \in {"done", "failed"}, Analyze(w, o) PROVE RoleInv'
  BY <1>0, <1>15, AnalyzeEffect DEF KeyOf
<1>16. CASE Restart
  BY <1>16, RestartEffect
<1>17. ASSUME Idles PROVE RoleInv'
  BY <1>17 DEF Idles, KeyOf
<1> QED
  BY <1>1, <1>2, <1>3, <1>4, <1>5, <1>6, <1>7, <1>8, <1>9, <1>10, <1>11, <1>12, <1>13, <1>14,
     <1>15, <1>16, <1>17, IdleEffect
     DEF Next, Request, ClientStep, WorkerStep, PublishStep

-----------------------------------------------------------------------------
(* Where the attempts are after a step. *)

\* No attempt changes hands.
StaysPut(b) == (Waits(b)' <=> Waits(b)) /\ (Sent(b)' <=> Sent(b)) /\ (InHand(b)' <=> InHand(b))

LEMMA CalmPlaces ==
  ASSUME NEW t \in Threads, NEW p, NEW a, NEW s, Moves(t, p, a, s), queue' = queue,
         \/ t \in Clients /\ pc[t] \notin {"send", "busy"} /\ p \notin {"send", "busy"}
         \/ t \in Workers /\ a = cur[t] /\ Processing(t) /\ p \notin {"idle", "begin"}
  PROVE  \A b : StaysPut(b)
<1> USE Roles
<1>1. \A b : InQueue(b)' <=> InQueue(b)
  BY DEF InQueue
<1>2. /\ \A w \in Workers : /\ pc'[w] = "begin" <=> pc[w] = "begin"
                            /\ Processing(w)' <=> Processing(w)
                            /\ pc[w] # "idle" => cur'[w] = cur[w]
      /\ \A c \in Clients : (Sending(c)' <=> Sending(c)) /\ (Sending(c) => cur'[c] = cur[c])
  BY DEF Moves, Processing, Sending
<1>3. \A b : Waits(b)' <=> Waits(b)
  BY <1>1, <1>2 DEF Waits
<1>4. \A b : Sent(b)' <=> Sent(b)
  BY <1>2 DEF Sent
<1>5. \A b : InHand(b)' <=> InHand(b)
  BY <1>2 DEF InHand, Processing
<1> QED
  BY <1>3, <1>4, <1>5 DEF StaysPut

LEMMA IdlePlaces ==
  ASSUME Idles
  PROVE  \A b : StaysPut(b)
BY DEF Idles, StaysPut, Waits, InQueue, Sent, Sending, InHand, Processing

LEMMA SubmitAdmitPlaces ==
  ASSUME IInv, NEW c \in Clients, NEW k \in Keys, SubmitAdmit(c, k)
  PROVE  \A b : /\ Waits(b)' <=> Waits(b)
                /\ Sent(b)' <=> Sent(b) \/ b = Len(attempts) + 1
                /\ InHand(b)' <=> InHand(b)
<1> USE Roles, SubmitAdmitEffect
<1>1. \A b : InQueue(b)' <=> InQueue(b)
  BY DEF InQueue
<1>2. /\ \A w \in Workers : pc'[w] = pc[w] /\ cur'[w] = cur[w]
      /\ \A d \in Clients \ {c} : (Sending(d)' <=> Sending(d)) /\ cur'[d] = cur[d]
      /\ ~Sending(c) /\ Sending(c)' /\ cur'[c] = Len(attempts) + 1
  BY DEF Moves, Sending
<1>3. \A b : (Waits(b)' <=> Waits(b)) /\ (InHand(b)' <=> InHand(b))
  BY <1>1, <1>2 DEF Waits, InHand, Processing
<1>4. \A b : Sent(b)' <=> Sent(b) \/ b = Len(attempts) + 1
  BY <1>2 DEF Sent
<1> QED
  BY <1>3, <1>4

LEMMA QueueAppend ==
  ASSUME IInv, NEW a \in 1..Len(attempts), queue' = Append(queue, a)
  PROVE  \A b : InQueue(b)' <=> InQueue(b) \/ b = a
<1>1. queue \in Seq(1..Len(attempts)) /\ Len(queue) \in Nat
  BY DEF IInv, TypeOK
<1>2. /\ DOMAIN queue' = 1..Len(queue) + 1 /\ DOMAIN queue = 1..Len(queue)
      /\ \A i \in 1..Len(queue) : queue'[i] = queue[i]
      /\ queue'[Len(queue) + 1] = a
  BY <1>1
<1>3. \A i \in 1..Len(queue) + 1 : i \in 1..Len(queue) \/ i = Len(queue) + 1
  BY <1>1
<1>4. 1..Len(queue) \subseteq 1..Len(queue) + 1 /\ Len(queue) + 1 \in 1..Len(queue) + 1
  BY <1>1
<1> QED
  BY <1>2, <1>3, <1>4 DEF InQueue

LEMMA SubmitSendPlaces ==
  ASSUME IInv, NEW c \in Clients, SubmitSend(c)
  PROVE  \/ /\ Moves(c, "remember", cur[c], "queued")
            /\ \A b : /\ Waits(b)' <=> Waits(b) \/ b = cur[c]
                      /\ Sent(b)' <=> Sent(b) /\ b # cur[c]
                      /\ InHand(b)' <=> InHand(b)
         \/ /\ Moves(c, "busy", cur[c], out[c])
            /\ \A b : StaysPut(b)
<1> USE Roles
<1>1. pc[c] = "send" /\ cur[c] \in 1..Len(attempts)
  BY SubmitSendEffect, CurInRange
<1>2. CASE Moves(c, "remember", cur[c], "queued") /\ queue' = Append(queue, cur[c])
  <2>1. \A b : InQueue(b)' <=> InQueue(b) \/ b = cur[c]
    BY <1>1, <1>2, QueueAppend
  <2>2. /\ \A w \in Workers : pc'[w] = pc[w] /\ cur'[w] = cur[w]
        /\ \A d \in Clients \ {c} : (Sending(d)' <=> Sending(d)) /\ cur'[d] = cur[d]
        /\ Sending(c) /\ ~Sending(c)'
    BY <1>1, <1>2 DEF Moves, Sending
  <2>3. \A b : (Waits(b)' <=> Waits(b) \/ b = cur[c]) /\ (InHand(b)' <=> InHand(b))
    BY <2>1, <2>2 DEF Waits, InHand, Processing
  <2>4. \A d \in Clients \ {c} : Sending(d) => cur[d] # cur[c]
    BY <2>2 DEF IInv, Custody
  <2>5. \A b : Sent(b)' <=> Sent(b) /\ b # cur[c]
    BY <2>2, <2>4 DEF Sent
  <2> QED
    BY <1>2, <2>3, <2>5
<1>3. CASE Moves(c, "busy", cur[c], out[c]) /\ queue' = queue
  <2>1. \A b : InQueue(b)' <=> InQueue(b)
    BY <1>3 DEF InQueue
  <2>2. /\ \A w \in Workers : pc'[w] = pc[w] /\ cur'[w] = cur[w]
        /\ \A d \in Clients : (Sending(d)' <=> Sending(d)) /\ cur'[d] = cur[d]
    BY <1>1, <1>3 DEF Moves, Sending
  <2> QED
    BY <1>3, <2>1, <2>2 DEF StaysPut, Waits, Sent, InHand, Processing
<1> QED
  BY <1>2, <1>3, SubmitSendEffect

LEMMA SubmitBusyPlaces ==
  ASSUME IInv, NEW c \in Clients, SubmitBusy(c)
  PROVE  /\ Sent(cur[c])
         /\ \A b : /\ Waits(b)' <=> Waits(b)
                   /\ Sent(b)' <=> Sent(b) /\ b # cur[c]
                   /\ InHand(b)' <=> InHand(b)
<1> USE Roles, SubmitBusyEffect
<1>1. \A b : InQueue(b)' <=> InQueue(b)
  BY DEF InQueue
<1>2. /\ \A w \in Workers : pc'[w] = pc[w] /\ cur'[w] = cur[w]
      /\ \A d \in Clients \ {c} : (Sending(d)' <=> Sending(d)) /\ cur'[d] = cur[d]
      /\ Sending(c) /\ ~Sending(c)'
  BY DEF Moves, Sending
<1>3. \A b : (Waits(b)' <=> Waits(b)) /\ (InHand(b)' <=> InHand(b))
  BY <1>1, <1>2 DEF Waits, InHand, Processing
<1>4. \A d \in Clients \ {c} : Sending(d) => cur[d] # cur[c]
  BY <1>2 DEF IInv, Custody
<1>5. Sent(cur[c]) /\ \A b : Sent(b)' <=> Sent(b) /\ b # cur[c]
  BY <1>2, <1>4 DEF Sent
<1> QED
  BY <1>3, <1>5

LEMMA DequeuePlaces ==
  ASSUME IInv, NEW w \in Workers, Dequeue(w)
  PROVE  \A b : StaysPut(b)
<1> DEFINE h == Head(queue)
<1>1. /\ pc[w] = "idle" /\ pc'[w] = "begin" /\ cur'[w] = h
      /\ \A v \in Workers \ {w} : pc'[v] = pc[v] /\ cur'[v] = cur[v]
      /\ \A c \in Clients : pc'[c] = pc[c] /\ cur'[c] = cur[c]
  BY Roles, DequeueEffect DEF Moves
<1>2. queue \in Seq(1..Len(attempts)) /\ queue # <<>> /\ queue' = Tail(queue)
  BY DequeueEffect DEF IInv, TypeOK
<1>3. /\ h = queue[1] /\ 1 \in DOMAIN queue
      /\ \A i \in DOMAIN queue : i = 1 \/ (i - 1 \in DOMAIN queue' /\ queue'[i - 1] = queue[i])
      /\ \A i \in DOMAIN queue' : i + 1 \in DOMAIN queue /\ queue'[i] = queue[i + 1]
  BY <1>2
<1>4. \A b : InQueue(b) <=> b = h \/ InQueue(b)'
  <2> HIDE DEF h
  <2> QED BY <1>3 DEF InQueue
<1>5. \A b : Waits(b)' <=> Waits(b)
  <2> HIDE DEF h
  <2> QED BY <1>1, <1>4 DEF Waits
<1>6. \A b : (Sent(b)' <=> Sent(b)) /\ (InHand(b)' <=> InHand(b))
  <2> HIDE DEF h
  <2> QED BY <1>1 DEF Sent, Sending, InHand, Processing
<1> QED
  BY <1>5, <1>6 DEF StaysPut

LEMMA BeginPlaces ==
  ASSUME IInv, NEW w \in Workers, Begin(w)
  PROVE  /\ Waits(cur[w])
         /\ \A b : (Waits(b)' <=> Waits(b) /\ b # cur[w]) /\ (Sent(b)' <=> Sent(b))
         /\ Moves(w, "remember", cur[w], "running") =>
               \A b : InHand(b)' <=> InHand(b) \/ b = cur[w]
         /\ Moves(w, "idle", cur[w], out[w]) => \A b : InHand(b)' <=> InHand(b)
<1>1. /\ pc[w] = "begin" /\ pc'[w] \in {"remember", "idle"} /\ queue' = queue
      /\ \A v \in Workers \ {w} : pc'[v] = pc[v] /\ cur'[v] = cur[v]
      /\ \A c \in Clients : pc'[c] = pc[c] /\ cur'[c] = cur[c]
      /\ cur'[w] = cur[w]
  BY Roles, BeginEffect DEF Moves
<1>2. /\ ~InQueue(cur[w])
      /\ \A v \in Workers \ {w} : pc[v] # "idle" => cur[v] # cur[w]
  BY <1>1 DEF IInv, Custody, Queued, InQueue
<1>3. \A b : InQueue(b)' <=> InQueue(b)
  BY <1>1 DEF InQueue
<1>4. Waits(cur[w]) /\ \A b : Waits(b)' <=> Waits(b) /\ b # cur[w]
  BY <1>1, <1>2, <1>3 DEF Waits
<1>5. \A b : Sent(b)' <=> Sent(b)
  BY <1>1 DEF Sent, Sending
<1>6. ASSUME Moves(w, "remember", cur[w], "running")
      PROVE  \A b : InHand(b)' <=> InHand(b) \/ b = cur[w]
  BY <1>1, <1>6 DEF InHand, Processing, Moves
<1>7. ASSUME Moves(w, "idle", cur[w], out[w])
      PROVE  \A b : InHand(b)' <=> InHand(b)
  BY <1>1, <1>7 DEF InHand, Processing, Moves
<1> QED
  BY <1>4, <1>5, <1>6, <1>7

LEMMA ReleasePlaces ==
  ASSUME IInv, NEW w \in Workers, Release(w)
  PROVE  /\ InHand(cur[w])
         /\ \A b : /\ Waits(b)' <=> Waits(b)
                   /\ Sent(b)' <=> Sent(b)
                   /\ InHand(b)' <=> InHand(b) /\ b # cur[w]
<1>1. /\ pc[w] = "release" /\ pc'[w] = "idle" /\ queue' = queue
      /\ \A v \in Workers \ {w} : pc'[v] = pc[v] /\ cur'[v] = cur[v]
      /\ \A c \in Clients : pc'[c] = pc[c] /\ cur'[c] = cur[c]
      /\ cur'[w] = cur[w]
  BY Roles, ReleaseEffect DEF Moves
<1>2. \A v \in Workers \ {w} : pc[v] # "idle" => cur[v] # cur[w]
  BY <1>1 DEF IInv, Custody
<1>3. \A b : (Waits(b)' <=> Waits(b)) /\ (Sent(b)' <=> Sent(b))
  BY <1>1 DEF Waits, InQueue, Sent, Sending
<1>4. InHand(cur[w]) /\ \A b : InHand(b)' <=> InHand(b) /\ b # cur[w]
  BY <1>1, <1>2 DEF InHand, Processing
<1> QED
  BY <1>3, <1>4

LEMMA RestartPlaces ==
  ASSUME IInv, Restart
  PROVE  \A b : ~Waits(b)' /\ ~Sent(b)' /\ ~InHand(b)'
BY RestartEffect, Roles DEF Waits, InQueue, Sent, Sending, InHand, Processing

\* What a goroutine does after it published what it had to publish.
LEMMA Publishes ==
  ASSUME IInv, RoleInv
  PROVE  /\ \A c \in Clients :
               /\ pc[c] \notin {"begin", "analyze", "record", "release"}
               /\ pc[c] \in Publication => out[c] \in {"queued", "cancelled"}
               /\ out[c] = "queued" => AfterPublish(c) = "ready"
               /\ out[c] = "cancelled" => AfterPublish(c) = "idle"
         /\ \A w \in Workers :
               /\ pc[w] \notin {"send", "busy", "ready", "fallback"}
               /\ pc[w] \in Publication \cup {"record"} => out[w] \in {"running", "done", "failed"}
               /\ out[w] = "running" => AfterPublish(w) = "analyze"
               /\ out[w] \in {"done", "failed"} => AfterPublish(w) = "release"
BY DEF IInv, ThreadInv, ClientPlaces, WorkerPlaces, AfterPublish

LEMMA CalmSteps ==
  ASSUME IInv, RoleInv,
         \/ \E c \in Clients : SubmitReady(c) \/ CancelFallback(c) \/ \E k \in Keys : Cancel(c, k)
         \/ \E t \in Threads : RememberActivity(t) \/ StreamRun(t) \/ StoreLatest(t) \/ StoreFails(t)
         \/ \E w \in Workers : PutRecord(w) \/ \E o \in {"done", "failed"} : Analyze(w, o)
  PROVE  \A b : StaysPut(b)
<1> USE Roles, CalmPlaces, Publishes DEF Publication
<1>1. ASSUME NEW c \in Clients, NEW k \in Keys, Cancel(c, k) PROVE \A b : StaysPut(b)
  BY <1>1, CancelEffect
<1>2. ASSUME NEW c \in Clients, SubmitReady(c) \/ CancelFallback(c) PROVE \A b : StaysPut(b)
  BY <1>2, SubmitReadyEffect, CancelFallbackEffect
<1>3. ASSUME NEW t \in Threads, RememberActivity(t) PROVE \A b : StaysPut(b)
  BY <1>3, RememberActivityEffect DEF Processing
<1>4. ASSUME NEW t \in Threads, StreamRun(t) PROVE \A b : StaysPut(b)
  BY <1>4, StreamRunEffect DEF Processing
<1>5. ASSUME NEW t \in Threads, StoreLatest(t) PROVE \A b : StaysPut(b)
  BY <1>5, StoreLatestEffect DEF Processing
<1>6. ASSUME NEW t \in Threads, StoreFails(t) PROVE \A b : StaysPut(b)
  BY <1>6, StoreFailsEffect DEF Processing
<1>7. ASSUME NEW w \in Workers, PutRecord(w) PROVE \A b : StaysPut(b)
  BY <1>7, PutRecordEffect DEF Processing
<1>8. ASSUME NEW w \in Workers, NEW o \in {"done", "failed"}, Analyze(w, o)
      PROVE  \A b : StaysPut(b)
  BY <1>8, AnalyzeEffect DEF Processing
<1> QED
  BY <1>1, <1>2, <1>3, <1>4, <1>5, <1>6, <1>7, <1>8

-----------------------------------------------------------------------------
LEMMA HoldNext ==
  ASSUME IInv, RoleInv, HoldInv, [Next]_vars
  PROVE  HoldInv'
<1> USE Roles DEF HoldInv, Holding, Announcing, Sending, Publication, Moves
<1>0. /\ ready \subseteq 1..Len(attempts) /\ started \subseteq 1..Len(attempts)
      /\ \A t \in Threads : pc[t] # "idle" => cur[t] \in 1..Len(attempts)
      /\ Len(attempts) \in Nat
  <2>1. ready \subseteq 1..Len(attempts) /\ started \subseteq 1..Len(attempts) /\ Len(attempts) \in Nat
    BY DEF IInv, TypeOK
  <2>2. \A t \in Threads : pc[t] # "idle" => cur[t] \in 1..Len(attempts)
    BY CurInRange
  <2> QED
    BY <2>1, <2>2
<1>1. ASSUME NEW c \in Clients, NEW k \in Keys, SubmitAdmit(c, k) PROVE HoldInv'
  <2>1. Len(attempts) + 1 \notin 1..Len(attempts)
    BY <1>0
  <2> QED
    BY <1>0, <1>1, <2>1, SubmitAdmitEffect, SubmitAdmitPlaces
<1>2. ASSUME NEW c \in Clients, NEW k \in Keys, Cancel(c, k) PROVE HoldInv'
  BY <1>2, CancelEffect, CalmSteps DEF StaysPut
<1>3. ASSUME NEW c \in Clients, SubmitSend(c) PROVE HoldInv'
  BY <1>3, SubmitSendEffect, SubmitSendPlaces DEF StaysPut
<1>4. ASSUME NEW c \in Clients, SubmitBusy(c) PROVE HoldInv'
  BY <1>4, SubmitBusyEffect, SubmitBusyPlaces
<1>5. ASSUME NEW c \in Clients, SubmitReady(c) PROVE HoldInv'
  BY <1>5, SubmitReadyEffect, CalmSteps DEF StaysPut, RoleInv
<1>6. ASSUME NEW c \in Clients, CancelFallback(c) PROVE HoldInv'
  BY <1>6, CancelFallbackEffect, CalmSteps DEF StaysPut
<1>7. ASSUME NEW t \in Threads, RememberActivity(t) PROVE HoldInv'
  BY <1>7, RememberActivityEffect, CalmSteps DEF StaysPut
<1>8. ASSUME NEW t \in Threads, StreamRun(t) PROVE HoldInv'
  BY <1>8, StreamRunEffect, CalmSteps, Publishes DEF StaysPut
<1>9. ASSUME NEW t \in Threads, StoreLatest(t) PROVE HoldInv'
  BY <1>9, StoreLatestEffect, CalmSteps, Publishes DEF StaysPut
<1>10. ASSUME NEW t \in Threads, StoreFails(t) PROVE HoldInv'
  BY <1>10, StoreFailsEffect, CalmSteps, Publishes DEF StaysPut
<1>11. ASSUME NEW w \in Workers, Dequeue(w) PROVE HoldInv'
  BY <1>11, DequeueEffect, DequeuePlaces DEF StaysPut
<1>12. ASSUME NEW w \in Workers, Begin(w) PROVE HoldInv'
  BY <1>12, BeginEffect, BeginPlaces
<1>13. ASSUME NEW w \in Workers, PutRecord(w) PROVE HoldInv'
  BY <1>13, PutRecordEffect, CalmSteps DEF StaysPut
<1>14. ASSUME NEW w \in Workers, Release(w) PROVE HoldInv'
  BY <1>14, ReleaseEffect, ReleasePlaces
<1>15. ASSUME NEW w \in Workers, NEW o \in {"done", "failed"}, Analyze(w, o) PROVE HoldInv'
  BY <1>15, AnalyzeEffect, CalmSteps DEF StaysPut
<1>16. CASE Restart
  BY <1>16, RestartEffect
<1>17. ASSUME Idles PROVE HoldInv'
  BY <1>17, IdlePlaces DEF Idles, StaysPut
<1> QED
  BY <1>1, <1>2, <1>3, <1>4, <1>5, <1>6, <1>7, <1>8, <1>9, <1>10, <1>11, <1>12, <1>13, <1>14,
     <1>15, <1>16, <1>17, IdleEffect
     DEF Next, Request, ClientStep, WorkerStep, PublishStep

-----------------------------------------------------------------------------
(* Slots. *)

\* An attempt is in one place, and the one in hand has its slot.
LEMMA Apart ==
  ASSUME IInv, NEW a, Waits(a) \/ Sent(a) \/ InHand(a)
  PROVE  /\ a \in 1..Len(attempts) /\ a \in Attempts /\ KeyOf(a) \in Keys
         /\ InHand(a) => ~Waits(a) /\ ~Sent(a) /\ a \in started /\ active[KeyOf(a)] = a
         /\ Sent(a) => ~Waits(a) /\ a \notin started
         /\ Waits(a) => a \notin started
<1>1. a \in 1..Len(attempts)
  <2>1. CASE InQueue(a)
    BY <2>1 DEF InQueue, IInv, TypeOK
  <2>2. CASE \E t \in Threads : pc[t] # "idle" /\ cur[t] = a
    BY <2>2, CurInRange
  <2> QED
    BY <2>1, <2>2, Roles DEF Waits, Sent, Sending, InHand, Processing
<1>2. a \in Attempts /\ KeyOf(a) \in Keys
  BY <1>1, RunnerAssumption DEF RunnerAssumption, IInv, TypeOK, Attempts, KeyOf
<1>3. InHand(a) => ~Waits(a) /\ ~Sent(a) /\ a \in started /\ active[KeyOf(a)] = a
  BY DEF IInv, Custody, InHand, Waits, Sent, InQueue, Queued, Processing
<1>4. Sent(a) => ~Waits(a) /\ a \notin started
  BY DEF IInv, Custody, Waits, Sent, InQueue, Queued
<1>5. Waits(a) => a \notin started
  BY DEF IInv, Custody, Waits, InQueue, Queued
<1> QED
  BY <1>1, <1>2, <1>3, <1>4, <1>5

\* A slot is that of an attempt of its commit that was not withdrawn.
LEMMA Slots ==
  ASSUME IInv
  PROVE  /\ \A k \in Keys : active[k] \in 0..Len(attempts)
         /\ \A k \in Keys : active[k] # 0 =>
               active[k] \in 1..Len(attempts) /\ KeyOf(active[k]) = k /\ active[k] \notin cancelled
         /\ \A a \in 1..Len(attempts) : KeyOf(a) \in Keys
         /\ Len(attempts) \in Nat
<1>1. /\ \A k \in Keys : active[k] \in 0..Len(attempts)
      /\ \A a \in 1..Len(attempts) : KeyOf(a) \in Keys
      /\ Len(attempts) \in Nat
  BY DEF IInv, TypeOK, KeyOf
<1>2. \A k \in Keys : active[k] # 0 =>
         active[k] \in 1..Len(attempts) /\ KeyOf(active[k]) = k /\ active[k] \notin cancelled
  BY <1>1 DEF IInv, SlotInv
<1> QED
  BY <1>1, <1>2

\* When the places and the slots stay, or an attempt is withdrawn, so does PlaceInv.
LEMMA PlaceStays ==
  ASSUME IInv, PlaceInv, \A b : StaysPut(b), attempts' = attempts, active' = active,
         started' = started, cancelled' = cancelled
  PROVE  PlaceInv'
BY DEF PlaceInv, StaysPut, KeyOf

LEMMA PlaceNext ==
  ASSUME IInv, RoleInv, PlaceInv, [Next]_vars
  PROVE  PlaceInv'
<1> USE Slots
<1>1. ASSUME NEW c \in Clients, NEW k \in Keys, SubmitAdmit(c, k) PROVE PlaceInv'
  <2>0. PICK n : n = Len(attempts) + 1
    OBVIOUS
  <2>1. /\ active[k] = 0 /\ active'[k] = n /\ \A j \in Keys \ {k} : active'[j] = active[j]
        /\ attempts'[n] = k /\ \A a \in 1..Len(attempts) : attempts'[a] = attempts[a]
        /\ UNCHANGED <<started, cancelled>>
    BY <1>1, <2>0, SubmitAdmitEffect DEF KeyOf
  <2>2. \A b : (Waits(b)' <=> Waits(b)) /\ (Sent(b)' <=> Sent(b) \/ b = n)
    BY <1>1, <2>0, SubmitAdmitPlaces
  <2>3. ASSUME NEW a \in Attempts, Waits(a)' \/ Sent(a)', a \notin cancelled'
        PROVE  active'[attempts'[a]] = a
    <3>1. CASE a = n
      BY <2>1, <3>1
    <3>2. CASE a # n
      <4>1. Waits(a) \/ Sent(a)
        BY <2>2, <2>3, <3>2
      <4>2. a \in 1..Len(attempts) /\ attempts[a] \in Keys /\ active[attempts[a]] = a
        BY <2>1, <2>3, <4>1, Apart DEF PlaceInv, KeyOf
      <4> QED
        BY <2>1, <4>2
    <3> QED
      BY <3>1, <3>2
  <2>4. ASSUME NEW j \in Keys, NEW b, b = active'[j], b # 0
        PROVE  Waits(b)' \/ Sent(b)' \/ b \in started'
    BY <2>1, <2>2, <2>4 DEF PlaceInv
  <2> QED
    BY <2>3, <2>4 DEF PlaceInv, KeyOf
<1>2. ASSUME NEW c \in Clients, NEW k \in Keys, Cancel(c, k) PROVE PlaceInv'
  BY <1>2, CancelEffect, CalmSteps, Apart DEF StaysPut, PlaceInv, Frees, KeyOf
<1>3. ASSUME NEW c \in Clients, SubmitSend(c) PROVE PlaceInv'
  <2>1. Sent(cur[c])
    BY <1>3, SubmitSendEffect DEF Sent, Sending
  <2> QED
    BY <1>3, <2>1, SubmitSendEffect, SubmitSendPlaces DEF StaysPut, PlaceInv, KeyOf
<1>4. ASSUME NEW c \in Clients, SubmitBusy(c) PROVE PlaceInv'
  BY <1>4, SubmitBusyEffect, SubmitBusyPlaces, Apart DEF PlaceInv, Frees, KeyOf
<1>5. ASSUME NEW w \in Workers, Begin(w) PROVE PlaceInv'
  BY <1>5, BeginEffect, BeginPlaces, Apart DEF PlaceInv, KeyOf
<1>6. ASSUME NEW w \in Workers, Release(w) PROVE PlaceInv'
  BY <1>6, ReleaseEffect, ReleasePlaces, Apart DEF PlaceInv, Frees, KeyOf
<1>7. ASSUME NEW w \in Workers, Dequeue(w) PROVE PlaceInv'
  BY <1>7, DequeueEffect, DequeuePlaces, PlaceStays
<1>8. ASSUME NEW c \in Clients, SubmitReady(c) \/ CancelFallback(c) PROVE PlaceInv'
  BY <1>8, SubmitReadyEffect, CancelFallbackEffect, CalmSteps, PlaceStays
<1>9. ASSUME NEW t \in Threads,
             RememberActivity(t) \/ StreamRun(t) \/ StoreLatest(t) \/ StoreFails(t)
      PROVE  PlaceInv'
  BY <1>9, RememberActivityEffect, StreamRunEffect, StoreLatestEffect, StoreFailsEffect, CalmSteps,
     PlaceStays
<1>10. ASSUME NEW w \in Workers, PutRecord(w) \/ \E o \in {"done", "failed"} : Analyze(w, o)
       PROVE  PlaceInv'
  BY <1>10, PutRecordEffect, AnalyzeEffect, CalmSteps, PlaceStays
<1>11. CASE Restart
  BY <1>11, RestartEffect, RestartPlaces DEF PlaceInv
<1>12. ASSUME Idles PROVE PlaceInv'
  BY <1>12, IdlePlaces, PlaceStays DEF Idles
<1>13. ASSUME NEW c \in Clients, Request(c) PROVE PlaceInv'
  BY <1>1, <1>2, <1>12, <1>13, IdleEffect DEF Request
<1>14. ASSUME NEW c \in Clients, ClientStep(c) PROVE PlaceInv'
  BY <1>3, <1>4, <1>8, <1>9, <1>14, Roles DEF ClientStep, PublishStep
<1>15. ASSUME NEW w \in Workers, WorkerStep(w) PROVE PlaceInv'
  BY <1>5, <1>6, <1>7, <1>9, <1>10, <1>15, Roles DEF WorkerStep, PublishStep
<1> QED
  BY <1>9, <1>11, <1>12, <1>13, <1>14, <1>15, IdleEffect DEF Next

-----------------------------------------------------------------------------
(* Delivery. *)

\* The goroutine that is about to publish has an attempt that waits, is in hand or
\* was withdrawn.
LEMMA PublisherHas ==
  ASSUME IInv, RoleInv, HoldInv, NEW t \in Threads, pc[t] \in Publication
  PROVE  Waits(cur[t]) \/ cur[t] \in started \/ cur[t] \in cancelled
<1>1. CASE t \in Clients
  BY <1>1, Publishes DEF HoldInv, RoleInv, Announcing, Withdrawing
<1>2. CASE t \in Workers
  BY <1>2 DEF IInv, Custody, Processing, Publication
<1> QED
  BY <1>1, <1>2, Roles

\* An attempt without a slot gets none back.
LEMMA FreesKeeps ==
  ASSUME IInv, NEW b, Frees(b), attempts' = attempts
  PROVE  \A a \in 1..Len(attempts) : active[KeyOf(a)] # a => (active[KeyOf(a)] # a)'
BY Slots DEF Frees, KeyOf

LEMMA DeliveredNext ==
  ASSUME IInv, RoleInv, HoldInv, PlaceInv, EventsInv, DeliveredInv, [Next]_vars
  PROVE  DeliveredInv'
<1> USE Slots
<1>0. ready \subseteq 1..Len(attempts) /\ promised \subseteq 1..Len(attempts)
  BY DEF IInv, TypeOK
<1>1. ASSUME NEW c \in Clients, NEW k \in Keys, SubmitDuplicate(c, k) PROVE DeliveredInv'
  <2>1. Waits(active[k]) \/ Sent(active[k]) \/ active[k] \in started
    BY <1>1 DEF SubmitDuplicate, PlaceInv
  <2>2. promised' = promised \cup {active[k]} /\ ready' = ready
    BY <1>1 DEF SubmitDuplicate
  <2> QED
    BY <1>1, <2>1, <2>2, IdleEffect, IdlePlaces DEF Idles, StaysPut, DeliveredInv, KeyOf
<1>2. ASSUME NEW c \in Clients, NEW k \in Keys, SubmitAdmit(c, k) PROVE DeliveredInv'
  <2>1. \A a \in 1..Len(attempts) : active[KeyOf(a)] # a => (active[KeyOf(a)] # a)'
    <3>1. PICK n : n = Len(attempts) + 1
      OBVIOUS
    <3>2. /\ active'[k] = n /\ \A j \in Keys \ {k} : active'[j] = active[j]
          /\ \A a \in 1..Len(attempts) : attempts'[a] = attempts[a] /\ a # n
      BY <1>2, <3>1, SubmitAdmitEffect DEF KeyOf
    <3> QED
      BY <3>2 DEF KeyOf
  <2>2. /\ UNCHANGED <<started, cancelled, ready, promised, stream>>
        /\ \A b : (Waits(b)' <=> Waits(b)) /\ (Sent(b) => Sent(b)') /\ (InHand(b)' <=> InHand(b))
    BY <1>2, SubmitAdmitEffect, SubmitAdmitPlaces
  <2> QED
    BY <1>0, <2>1, <2>2 DEF DeliveredInv
<1>3. ASSUME NEW c \in Clients, NEW k \in Keys, Cancel(c, k) PROVE DeliveredInv'
  <2>1. \A a \in 1..Len(attempts) : active[KeyOf(a)] # a => (active[KeyOf(a)] # a)'
    BY <1>3, CancelEffect, FreesKeeps
  <2>2. UNCHANGED <<started, ready, promised, stream>> /\ cancelled \subseteq cancelled'
    BY <1>3, CancelEffect
  <2>3. \A b : StaysPut(b)
    BY <1>3, CalmSteps
  <2> QED
    BY <1>0, <2>1, <2>2, <2>3 DEF DeliveredInv, StaysPut
<1>4. ASSUME NEW c \in Clients, SubmitSend(c) PROVE DeliveredInv'
  BY <1>4, SubmitSendEffect, SubmitSendPlaces DEF DeliveredInv, StaysPut, KeyOf
<1>5. ASSUME NEW c \in Clients, SubmitBusy(c) PROVE DeliveredInv'
  <2>1. /\ cur[c] \in Attempts /\ cur[c] \notin started
        /\ Sending(c)
    BY <1>5, SubmitBusyEffect, SubmitBusyPlaces, Apart DEF Sending
  <2>2. cur[c] \in cancelled \/ stream[cur[c]] = <<>>
    <3>1. cur[c] \in cancelled \/ stream[cur[c]] \in {<<>>, <<"queued">>}
      BY <2>1 DEF EventsInv, AttemptEvents, ClientEvents
    <3>2. stream[cur[c]] \in {<<>>, <<"cancelled">>}
      BY <1>5, <2>1, SubmitBusyEffect DEF EventsInv, AttemptEvents, ClientEvents, Sending, Unannounced
    <3>3. <<"queued">> # <<"cancelled">>
      <4>1. <<"queued">>[1] # <<"cancelled">>[1]
        OBVIOUS
      <4> QED
        BY <4>1
    <3> QED
      BY <3>1, <3>2, <3>3
  <2>3. \A a \in 1..Len(attempts) : active[KeyOf(a)] # a => (active[KeyOf(a)] # a)'
    BY <1>5, SubmitBusyEffect, FreesKeeps
  <2>4. UNCHANGED <<started, cancelled, ready, promised, stream>>
    BY <1>5, SubmitBusyEffect
  <2>5. \A b : /\ Waits(b)' <=> Waits(b)
               /\ Sent(b) /\ b # cur[c] => Sent(b)'
               /\ InHand(b)' <=> InHand(b)
    BY <1>5, SubmitBusyPlaces
  <2> QED
    BY <1>0, <2>2, <2>3, <2>4, <2>5 DEF DeliveredInv
<1>6. ASSUME NEW c \in Clients, SubmitReady(c) PROVE DeliveredInv'
  <2>1. Waits(cur[c])
    BY <1>6, SubmitReadyEffect DEF HoldInv, RoleInv, Announcing
  <2> QED
    BY <1>6, <2>1, SubmitReadyEffect, CalmSteps DEF DeliveredInv, StaysPut, KeyOf
<1>7. ASSUME NEW c \in Clients, CancelFallback(c) PROVE DeliveredInv'
  BY <1>7, CancelFallbackEffect, CalmSteps DEF DeliveredInv, StaysPut, KeyOf
<1>8. ASSUME NEW t \in Threads, RememberActivity(t) \/ StoreLatest(t) \/ StoreFails(t)
      PROVE  DeliveredInv'
  BY <1>8, RememberActivityEffect, StoreLatestEffect, StoreFailsEffect, CalmSteps
     DEF DeliveredInv, StaysPut, KeyOf
<1>9. ASSUME NEW t \in Threads, StreamRun(t) PROVE DeliveredInv'
  <2>1. Waits(cur[t]) \/ cur[t] \in started \/ cur[t] \in cancelled
    BY <1>9, StreamRunEffect, PublisherHas DEF Publication
  <2>2. \A a \in promised : a \in Attempts
    BY <1>0, RunnerAssumption DEF RunnerAssumption, IInv, TypeOK, Attempts
  <2> QED
    BY <1>9, <2>1, <2>2, StreamRunEffect, CalmSteps DEF DeliveredInv, StaysPut, KeyOf
<1>10. ASSUME NEW w \in Workers, Dequeue(w) PROVE DeliveredInv'
  BY <1>10, DequeueEffect, DequeuePlaces DEF DeliveredInv, StaysPut, KeyOf
<1>11. ASSUME NEW w \in Workers, Begin(w) PROVE DeliveredInv'
  BY <1>11, BeginEffect, BeginPlaces, Apart DEF DeliveredInv, PlaceInv, KeyOf
<1>12. ASSUME NEW w \in Workers, Release(w) PROVE DeliveredInv'
  <2>1. \A a \in 1..Len(attempts) : active[KeyOf(a)] # a => (active[KeyOf(a)] # a)'
    BY <1>12, ReleaseEffect, FreesKeeps
  <2>2. UNCHANGED <<started, cancelled, ready, promised, stream, attempts>> /\ Frees(cur[w])
    BY <1>12, ReleaseEffect
  <2>3. /\ \A b : /\ Waits(b)' <=> Waits(b)
                  /\ Sent(b)' <=> Sent(b)
                  /\ InHand(b)' <=> InHand(b) /\ b # cur[w]
        /\ InHand(cur[w])
    BY <1>12, ReleasePlaces
  <2>4. cur[w] \in started /\ (active[KeyOf(cur[w])] # cur[w])'
    <3>1. /\ cur[w] \in started /\ active[KeyOf(cur[w])] = cur[w]
          /\ cur[w] \in 1..Len(attempts) /\ KeyOf(cur[w]) \in Keys
      BY <2>3, Apart
    <3>2. active'[KeyOf(cur[w])] = 0 /\ cur' = cur
      BY <1>12, <2>2, <3>1 DEF Frees, Release
    <3> QED
      BY <2>2, <3>1, <3>2 DEF KeyOf
  <2>5. \A a \in ready : InHand(a) /\ ~InHand(a)' => a \in started' /\ (active[KeyOf(a)] # a)'
    <3>1. cur' = cur
      BY <1>12 DEF Release
    <3> QED
      BY <2>2, <2>3, <2>4, <3>1
  <2> QED
    BY <1>0, <2>1, <2>2, <2>3, <2>5 DEF DeliveredInv
<1>13. ASSUME NEW w \in Workers, PutRecord(w) \/ \E o \in {"done", "failed"} : Analyze(w, o)
       PROVE  DeliveredInv'
  BY <1>13, PutRecordEffect, AnalyzeEffect, CalmSteps DEF DeliveredInv, StaysPut, KeyOf
<1>14. CASE Restart
  BY <1>14, RestartEffect DEF DeliveredInv
<1>15. ASSUME Idles, promised' = promised PROVE DeliveredInv'
  BY <1>15, IdlePlaces DEF DeliveredInv, Idles, StaysPut, KeyOf
<1>16. CASE (\E a \in Attempts : Age(a)) \/ PruneTick \/ Rest \/ UNCHANGED vars
  <2>1. promised' = promised
    BY <1>16 DEF Age, PruneTick, Rest, vars
  <2> QED
    BY <1>15, <1>16, <2>1, IdleEffect
<1>17. ASSUME NEW c \in Clients, Request(c) PROVE DeliveredInv'
  BY <1>1, <1>2, <1>3, <1>17 DEF Request
<1>18. ASSUME NEW c \in Clients, ClientStep(c) PROVE DeliveredInv'
  BY <1>4, <1>5, <1>6, <1>7, <1>8, <1>9, <1>18, Roles DEF ClientStep, PublishStep
<1>19. ASSUME NEW w \in Workers, WorkerStep(w) PROVE DeliveredInv'
  BY <1>8, <1>9, <1>10, <1>11, <1>12, <1>13, <1>19, Roles DEF WorkerStep, PublishStep
<1> QED
  BY <1>8, <1>14, <1>16, <1>17, <1>18, <1>19 DEF Next

-----------------------------------------------------------------------------
(* The activity list. *)

\* Pruning forgets only what finished long ago.
LEMMA PruneKeeps ==
  ASSUME IInv, NEW a \in Attempts, activity[a] # "none", a \notin aged
  PROVE  PruneActivity(activity)[a] # "none"
BY DEF PruneActivity, FinishedLongAgo

LEMMA RememberedIsListed ==
  ASSUME IInv, NEW t \in Threads, RememberActivity(t)
  PROVE  /\ activity'[cur[t]] # "none"
         /\ \A a \in Attempts \ aged : activity[a] # "none" => activity'[a] # "none"
<1>1. cur[t] \in Attempts /\ out[t] # "none"
  BY CurInRange DEF RememberActivity, IInv, TypeOK, Status, Terminal
<1>2. \A a \in Attempts : activity'[a] = IF a = cur[t] THEN out[t] ELSE PruneActivity(activity)[a]
  BY <1>1 DEF RememberActivity, PruneActivity
<1> QED
  BY <1>1, <1>2, PruneKeeps

LEMMA ListedNext ==
  ASSUME IInv, RoleInv, ListedInv, [Next]_vars
  PROVE  ListedInv'
<1> USE Roles DEF ListedInv, Announcing, Publication, Moves
<1>0. /\ \A t \in Threads : pc[t] # "idle" => cur[t] \in Attempts
      /\ ready \subseteq Attempts
  <2>1. \A t \in Threads : pc[t] # "idle" => cur[t] \in Attempts
    BY CurInRange
  <2>2. ready \subseteq Attempts
    BY RunnerAssumption DEF RunnerAssumption, IInv, TypeOK, Attempts
  <2> QED
    BY <2>1, <2>2
<1>1. ASSUME NEW c \in Clients, NEW k \in Keys, SubmitAdmit(c, k) PROVE ListedInv'
  BY <1>1, SubmitAdmitEffect
<1>2. ASSUME NEW c \in Clients, NEW k \in Keys, Cancel(c, k) PROVE ListedInv'
  BY <1>2, CancelEffect
<1>3. ASSUME NEW c \in Clients, SubmitSend(c) PROVE ListedInv'
  BY <1>3, SubmitSendEffect
<1>4. ASSUME NEW c \in Clients, SubmitBusy(c) PROVE ListedInv'
  BY <1>4, SubmitBusyEffect
<1>5. ASSUME NEW c \in Clients, SubmitReady(c) PROVE ListedInv'
  BY <1>5, SubmitReadyEffect DEF RoleInv
<1>6. ASSUME NEW c \in Clients, CancelFallback(c) PROVE ListedInv'
  BY <1>6, CancelFallbackEffect
<1>7. ASSUME NEW t \in Threads, RememberActivity(t) PROVE ListedInv'
  BY <1>0, <1>7, RememberActivityEffect, RememberedIsListed
<1>8. ASSUME NEW t \in Threads, StreamRun(t) PROVE ListedInv'
  BY <1>8, StreamRunEffect, Publishes
<1>9. ASSUME NEW t \in Threads, StoreLatest(t) PROVE ListedInv'
  BY <1>9, StoreLatestEffect, Publishes
<1>10. ASSUME NEW t \in Threads, StoreFails(t) PROVE ListedInv'
  BY <1>10, StoreFailsEffect, Publishes
<1>11. ASSUME NEW w \in Workers, Dequeue(w) \/ Begin(w) \/ PutRecord(w) PROVE ListedInv'
  BY <1>11, DequeueEffect, BeginEffect, PutRecordEffect
<1>12. ASSUME NEW w \in Workers, Release(w) PROVE ListedInv'
  BY <1>12, ReleaseEffect
<1>13. ASSUME NEW w \in Workers, NEW o \in {"done", "failed"}, Analyze(w, o) PROVE ListedInv'
  BY <1>13, AnalyzeEffect
<1>14. CASE Restart
  BY <1>14, RestartEffect
<1>15. ASSUME Idles, \A a \in Attempts \ aged' : activity[a] # "none" => activity'[a] # "none",
              aged \subseteq aged'
       PROVE  ListedInv'
  BY <1>0, <1>15 DEF Idles
<1>16. CASE (\E c \in Clients, k \in Keys : SubmitDuplicate(c, k)) \/ Rest \/ UNCHANGED vars
  <2>1. activity' = activity /\ aged' = aged
    BY <1>16 DEF SubmitDuplicate, Rest, vars
  <2> QED
    BY <1>15, <1>16, <2>1, IdleEffect
<1>17. CASE \E a \in Attempts : Age(a)
  <2>1. activity' = activity /\ aged \subseteq aged'
    BY <1>17 DEF Age
  <2> QED
    BY <1>15, <1>17, <2>1, IdleEffect
<1>18. CASE PruneTick
  <2>1. activity' = PruneActivity(activity) /\ aged' = aged
    BY <1>18 DEF PruneTick
  <2> QED
    BY <1>15, <1>18, <2>1, IdleEffect, PruneKeeps
<1>19. ASSUME NEW c \in Clients, Request(c) PROVE ListedInv'
  BY <1>1, <1>2, <1>16, <1>19 DEF Request
<1>20. ASSUME NEW c \in Clients, ClientStep(c) PROVE ListedInv'
  BY <1>3, <1>4, <1>5, <1>6, <1>7, <1>8, <1>9, <1>20 DEF ClientStep, PublishStep
<1>21. ASSUME NEW w \in Workers, WorkerStep(w) PROVE ListedInv'
  BY <1>7, <1>8, <1>9, <1>11, <1>12, <1>13, <1>21 DEF WorkerStep, PublishStep
<1> QED
  BY <1>10, <1>14, <1>16, <1>17, <1>18, <1>19, <1>20, <1>21 DEF Next

-----------------------------------------------------------------------------
(* The events. *)

\* Short sequences written out, and what appending to them gives.
LEMMA One ==
  ASSUME NEW S, NEW x \in S
  PROVE  <<x>> \in Seq(S) /\ Len(<<x>>) = 1 /\ <<x>>[1] = x /\ Append(<<>>, x) = <<x>>
<1>1. Append(<<>>, x) = <<x>>
  OBVIOUS
<1>2. Append(<<>>, x) \in Seq(S)
  OBVIOUS
<1> QED
  BY <1>1, <1>2

LEMMA Two ==
  ASSUME NEW S, NEW x \in S, NEW y \in S
  PROVE  /\ <<x, y>> \in Seq(S) /\ Len(<<x, y>>) = 2
         /\ <<x, y>>[1] = x /\ <<x, y>>[2] = y
         /\ Append(<<x>>, y) = <<x, y>>
<1>1. <<x, y>> \in [1..2 -> S]
  OBVIOUS
<1>2. <<x>> \in Seq(S) /\ <<x, y>> \in Seq(S)
  BY <1>1, One
<1>3. Len(<<x, y>>) = 2 /\ <<x, y>>[1] = x /\ <<x, y>>[2] = y
  OBVIOUS
<1>4. /\ Append(<<x>>, y) \in Seq(S) /\ Len(Append(<<x>>, y)) = 2
      /\ Append(<<x>>, y)[1] = x /\ Append(<<x>>, y)[2] = y
  BY <1>2, One, AppendProperties
<1>5. \A i \in 1..2 : Append(<<x>>, y)[i] = <<x, y>>[i]
  BY <1>3, <1>4
<1>6. Append(<<x>>, y) = <<x, y>>
  BY <1>2, <1>3, <1>4, <1>5, SeqEqual
<1> QED
  BY <1>2, <1>3, <1>6

LEMMA Three ==
  ASSUME NEW S, NEW x \in S, NEW y \in S, NEW z \in S
  PROVE  Append(<<x, y>>, z) = <<x, y, z>> /\ Len(<<x, y, z>>) = 3
<1>1. <<x, y, z>> \in [1..3 -> S]
  OBVIOUS
<1>2. <<x, y>> \in Seq(S) /\ <<x, y, z>> \in Seq(S)
  BY <1>1, Two
<1>3. /\ Len(<<x, y, z>>) = 3
      /\ <<x, y, z>>[1] = x /\ <<x, y, z>>[2] = y /\ <<x, y, z>>[3] = z
  OBVIOUS
<1>4. /\ Append(<<x, y>>, z) \in Seq(S) /\ Len(Append(<<x, y>>, z)) = 3
      /\ Append(<<x, y>>, z)[1] = x /\ Append(<<x, y>>, z)[2] = y /\ Append(<<x, y>>, z)[3] = z
  BY <1>2, Two, AppendProperties
<1>5. \A i \in 1..3 : Append(<<x, y>>, z)[i] = <<x, y, z>>[i]
  BY <1>3, <1>4
<1>6. Append(<<x, y>>, z) = <<x, y, z>>
  BY <1>2, <1>3, <1>4, <1>5, SeqEqual
<1> QED
  BY <1>3, <1>6

LEMMA Texts ==
  /\ Append(<<>>, "queued") = <<"queued">> /\ Append(<<>>, "cancelled") = <<"cancelled">>
  /\ Append(<<"cancelled">>, "queued") = <<"cancelled", "queued">>
  /\ Append(<<"queued">>, "cancelled") = <<"queued", "cancelled">>
  /\ Append(<<"queued">>, "running") = Running
  /\ Append(Running, "done") = <<"queued", "running", "done">>
  /\ Append(Running, "failed") = <<"queued", "running", "failed">>
  /\ \A x \in {<<"queued">>, <<"cancelled", "queued">>, <<"queued", "cancelled">>, Running,
               Append(Running, "done"), Append(Running, "failed")} :
        x # <<>> /\ x # <<"cancelled">>
  /\ <<>> # <<"cancelled">>
<1>1. PICK S : S = {"queued", "running", "done", "failed", "cancelled"}
  OBVIOUS
<1>2. /\ Append(<<>>, "queued") = <<"queued">> /\ Append(<<>>, "cancelled") = <<"cancelled">>
      /\ Len(<<"queued">>) = 1 /\ Len(<<"cancelled">>) = 1
      /\ <<"queued">>[1] = "queued" /\ <<"cancelled">>[1] = "cancelled"
  BY <1>1, One
<1>3. /\ Append(<<"cancelled">>, "queued") = <<"cancelled", "queued">>
      /\ Append(<<"queued">>, "cancelled") = <<"queued", "cancelled">>
      /\ Append(<<"queued">>, "running") = Running
      /\ Len(<<"cancelled", "queued">>) = 2 /\ Len(<<"queued", "cancelled">>) = 2 /\ Len(Running) = 2
  BY <1>1, Two DEF Running
<1>4. /\ Append(Running, "done") = <<"queued", "running", "done">>
      /\ Append(Running, "failed") = <<"queued", "running", "failed">>
      /\ Len(<<"queued", "running", "done">>) = 3
      /\ Len(<<"queued", "running", "failed">>) = 3
  BY <1>1, Three DEF Running
<1>5. Len(<<>>) = 0
  OBVIOUS
<1>6. \A x \in {<<"queued">>, <<"cancelled", "queued">>, <<"queued", "cancelled">>, Running,
               Append(Running, "done"), Append(Running, "failed")} :
        x # <<>> /\ x # <<"cancelled">>
  <2>1. <<"queued">> # <<>> /\ <<"queued">> # <<"cancelled">>
    BY <1>2, <1>5
  <2>2. /\ <<"cancelled", "queued">> # <<>> /\ <<"cancelled", "queued">> # <<"cancelled">>
        /\ <<"queued", "cancelled">> # <<>> /\ <<"queued", "cancelled">> # <<"cancelled">>
        /\ Running # <<>> /\ Running # <<"cancelled">>
    BY <1>2, <1>3, <1>5
  <2>3. /\ Append(Running, "done") # <<>> /\ Append(Running, "done") # <<"cancelled">>
        /\ Append(Running, "failed") # <<>> /\ Append(Running, "failed") # <<"cancelled">>
    BY <1>2, <1>4, <1>5
  <2> QED
    BY <2>1, <2>2, <2>3, Zenon
<1>7. <<>> # <<"cancelled">>
  BY <1>2, <1>5
<1> QED
  BY <1>2, <1>3, <1>4, <1>6, <1>7

\* A publication disturbs only its own attempt and those that have it.
LEMMA StreamRunEvents ==
  ASSUME IInv, RoleInv, EventsInv, NEW t \in Threads, NEW a, StreamRun(t), cur[t] = a,
         AttemptEvents(a)',
         \A c \in Clients : cur[c] = a => ClientEvents(c)',
         \A w \in Workers : cur[w] = a => WorkerEvents(w)'
  PROVE  EventsInv'
<1>1. /\ pc'[t] \notin {"remember", "stream"} /\ cur' = cur /\ out' = out
      /\ \A u \in Threads \ {t} : pc'[u] = pc[u]
      /\ \A b \in Attempts : b # a => stream'[b] = stream[b]
      /\ UNCHANGED <<attempts, started, cancelled, ready>>
  <2>1. pc'[t] \notin {"remember", "stream"}
    BY StreamRunEffect DEF Moves, AfterPublish
  <2>2. cur' = cur /\ out' = out
    BY DEF StreamRun
  <2> QED
    BY <2>1, <2>2, StreamRunEffect DEF Moves
<1>2. \A b \in Attempts : AttemptEvents(b)'
  BY <1>1 DEF EventsInv, AttemptEvents
<1>3. \A u \in Threads : pc[u] # "idle" => cur[u] \in Attempts
  BY CurInRange
<1>4. ASSUME NEW c \in Clients PROVE ClientEvents(c)'
  <2>1. CASE cur[c] # a /\ pc[c] # "idle"
    <3>1. pc'[c] = pc[c] /\ cur'[c] = cur[c] /\ out'[c] = out[c] /\ stream'[cur'[c]] = stream[cur[c]]
      BY <1>1, <1>3, <2>1, Roles
    <3> QED
      BY <3>1 DEF EventsInv, ClientEvents, Sending, Announcing, Retracting
  <2>2. CASE cur[c] # a /\ pc[c] = "idle"
    <3>1. pc'[c] = "idle"
      BY <1>1, <2>2, Roles
    <3> QED
      BY <3>1 DEF ClientEvents, Sending, Announcing, Retracting, Publication
  <2> QED
    BY <2>1, <2>2
<1>5. ASSUME NEW w \in Workers PROVE WorkerEvents(w)'
  <2>1. CASE cur[w] # a /\ pc[w] # "idle"
    <3>1. pc'[w] = pc[w] /\ cur'[w] = cur[w] /\ out'[w] = out[w] /\ stream'[cur'[w]] = stream[cur[w]]
      BY <1>1, <1>3, <2>1, Roles
    <3> QED
      BY <3>1 DEF EventsInv, WorkerEvents, BetweenEvents
  <2>2. CASE cur[w] # a /\ pc[w] = "idle"
    <3>1. pc'[w] = "idle"
      BY <1>1, <2>2, Roles
    <3> QED
      BY <3>1 DEF WorkerEvents, BetweenEvents
  <2> QED
    BY <2>1, <2>2
<1>6. \A d \in Clients : Retracting(d)' => Retracting(d) /\ cur'[d] = cur[d]
  BY <1>1, Roles DEF Retracting
<1> QED
  BY <1>2, <1>4, <1>5, <1>6 DEF EventsInv

LEMMA AnnouncesEvents ==
  ASSUME IInv, RoleInv, HoldInv, EventsInv, NEW c \in Clients, StreamRun(c), out[c] = "queued"
  PROVE  EventsInv'
<1>1. PICK a : a = cur[c]
  OBVIOUS
<1>2. /\ pc[c] = "stream" /\ pc'[c] \in {"latest", "ready"} /\ cur' = cur /\ out' = out
      /\ \A u \in Threads \ {c} : pc'[u] = pc[u]
      /\ a \in 1..Len(attempts) /\ a \in Attempts
      /\ stream'[a] = Append(stream[a], "queued")
      /\ UNCHANGED <<attempts, started, cancelled, ready>>
  <2>1. cur' = cur /\ out' = out
    BY DEF StreamRun
  <2> QED
    BY <1>1, <2>1, Roles, StreamRunEffect, Publishes DEF Moves
<1>3. a \notin ready \cup started /\ stream[a] \in Unannounced
  BY <1>1, <1>2 DEF HoldInv, EventsInv, ClientEvents, Holding, Announcing, Publication
<1>4. /\ \A d \in Clients \ {c} : Holding(d) => cur[d] # a
      /\ \A w \in Workers : Processing(w) => cur[w] # a
  BY <1>1, <1>2, <1>3 DEF HoldInv, Holding, Announcing, Publication, IInv, Custody
<1>5. /\ stream'[a] \in {<<"queued">>, <<"cancelled", "queued">>}
      /\ stream[a] \in {<<>>, <<"queued">>} => stream'[a] = <<"queued">>
      /\ stream'[a] \notin Unannounced
  BY <1>2, <1>3, Texts DEF Unannounced
<1>6. AttemptEvents(a)'
  <2>1. a \notin cancelled => stream'[a] = <<"queued">>
    BY <1>2, <1>3, <1>5 DEF EventsInv, AttemptEvents
  <2>2. ~(a > Len(attempts'))
    BY <1>2, Slots
  <2> QED
    BY <1>2, <1>3, <1>5, <2>1, <2>2 DEF AttemptEvents, StreamsWithdrawn
<1>7. ASSUME NEW d \in Clients, cur[d] = a PROVE ClientEvents(d)'
  <2>1. CASE d = c
    BY <1>1, <1>2, <1>5, <2>1 DEF ClientEvents, Sending, Announcing, Retracting
  <2>2. CASE d # c
    <3>1. pc'[d] = pc[d] /\ cur'[d] = a /\ out'[d] = out[d]
      BY <1>2, <1>7, <2>2, Roles
    <3> QED
      BY <1>4, <1>5, <1>7, <2>2, <3>1
         DEF EventsInv, ClientEvents, Holding, Sending, Announcing, Retracting
  <2> QED
    BY <2>1, <2>2
<1>8. ASSUME NEW w \in Workers, cur[w] = a PROVE WorkerEvents(w)'
  <2>1. pc'[w] = pc[w] /\ ~Processing(w)
    BY <1>2, <1>4, <1>8, Roles
  <2> QED
    BY <2>1 DEF WorkerEvents, BetweenEvents, Processing
<1> QED
  BY <1>1, <1>6, <1>7, <1>8, Roles, StreamRunEvents

LEMMA RetractsEvents ==
  ASSUME IInv, RoleInv, HoldInv, EventsInv, NEW c \in Clients, StreamRun(c), out[c] = "cancelled"
  PROVE  EventsInv'
<1>1. PICK a : a = cur[c]
  OBVIOUS
<1>2. /\ pc[c] = "stream" /\ pc'[c] \in {"fallback", "idle"} /\ cur' = cur /\ out' = out
      /\ \A u \in Threads \ {c} : pc'[u] = pc[u]
      /\ a \in 1..Len(attempts) /\ a \in Attempts
      /\ stream'[a] = Append(stream[a], "cancelled")
      /\ UNCHANGED <<attempts, started, cancelled, ready>>
  <2>1. cur' = cur /\ out' = out
    BY DEF StreamRun
  <2> QED
    BY <1>1, <2>1, Roles, StreamRunEffect, Publishes DEF Moves
<1>3. a \in cancelled /\ a \notin started /\ stream[a] \in {<<>>, <<"queued">>} /\ Retracting(c)
  <2>1. Retracting(c)
    BY <1>2 DEF Retracting
  <2>2. a \in cancelled /\ a \notin started
    BY <1>1, <1>2, Slots DEF RoleInv, Withdrawing, Publication, IInv, SlotInv, CancelledNeverRuns
  <2>3. stream[a] \in {<<>>, <<"queued">>}
    BY <1>1, <2>1 DEF EventsInv, ClientEvents
  <2> QED
    BY <2>1, <2>2, <2>3
<1>4. /\ \A d \in Clients \ {c} : Retracting(d) => cur[d] # a
      /\ \A w \in Workers : Processing(w) => cur[w] # a
  BY <1>1, <1>3 DEF EventsInv, IInv, Custody
<1>5. /\ stream'[a] \in {<<"cancelled">>, <<"queued", "cancelled">>}
      /\ stream[a] \in Unannounced <=> stream'[a] \in Unannounced
  BY <1>2, <1>3, Texts DEF Unannounced
<1>6. AttemptEvents(a)'
  <2>1. ~(a > Len(attempts'))
    BY <1>2, Slots
  <2>2. a \in ready => stream[a] \notin Unannounced
    BY <1>2 DEF EventsInv, AttemptEvents
  <2> QED
    BY <1>2, <1>3, <1>5, <2>1, <2>2 DEF AttemptEvents, StreamsWithdrawn
<1>7. ASSUME NEW d \in Clients, cur[d] = a PROVE ClientEvents(d)'
  <2>1. CASE d = c
    BY <1>1, <1>2, <1>5, <2>1 DEF ClientEvents, Sending, Announcing, Retracting, Publication
  <2>2. CASE d # c
    <3>1. pc'[d] = pc[d] /\ cur'[d] = a /\ out'[d] = out[d]
      BY <1>2, <1>7, <2>2, Roles
    <3> QED
      BY <1>4, <1>5, <1>7, <2>2, <3>1
         DEF EventsInv, ClientEvents, Sending, Announcing, Retracting
  <2> QED
    BY <2>1, <2>2
<1>8. ASSUME NEW w \in Workers, cur[w] = a PROVE WorkerEvents(w)'
  <2>1. pc'[w] = pc[w] /\ ~Processing(w)
    BY <1>2, <1>4, <1>8, Roles
  <2> QED
    BY <2>1 DEF WorkerEvents, BetweenEvents, Processing
<1> QED
  BY <1>1, <1>6, <1>7, <1>8, Roles, StreamRunEvents

LEMMA ProcessEvents ==
  ASSUME IInv, RoleInv, HoldInv, EventsInv, NEW w \in Workers, StreamRun(w)
  PROVE  EventsInv'
<1>1. PICK a : a = cur[w]
  OBVIOUS
<1>2. /\ pc[w] = "stream" /\ cur' = cur /\ out' = out
      /\ out[w] \in {"running", "done", "failed"}
      /\ pc'[w] \in IF out[w] = "running" THEN {"latest", "analyze"} ELSE {"latest", "release"}
      /\ \A u \in Threads \ {w} : pc'[u] = pc[u]
      /\ a \in 1..Len(attempts) /\ a \in Attempts
      /\ stream'[a] = Append(stream[a], out[w])
      /\ UNCHANGED <<attempts, started, cancelled, ready>>
  <2>1. cur' = cur /\ out' = out
    BY DEF StreamRun
  <2> QED
    BY <1>1, <2>1, Roles, StreamRunEffect, Publishes DEF Moves, Publication
<1>3. a \in started /\ a \notin cancelled
  BY <1>1, <1>2, Slots DEF IInv, Custody, Processing
<1>4. /\ \A c \in Clients : Holding(c) \/ Retracting(c) => cur[c] # a
      /\ \A v \in Workers : pc[v] # "idle" /\ v # w => cur[v] # a
  BY <1>1, <1>2, <1>3 DEF HoldInv, RoleInv, Retracting, Withdrawing, Publication, IInv, Custody
<1>5. stream'[a] = IF out[w] = "running" THEN Running ELSE Append(Running, out[w])
  BY <1>1, <1>2, Texts DEF EventsInv, WorkerEvents, BetweenEvents
<1>6. AttemptEvents(a)'
  <2>1. ~(a > Len(attempts'))
    BY <1>2, Slots
  <2>2. stream'[a] \notin Unannounced
    BY <1>2, <1>5, Texts DEF Unannounced
  <2> QED
    BY <1>2, <1>3, <1>5, <2>1, <2>2 DEF AttemptEvents
<1>7. ASSUME NEW c \in Clients, cur[c] = a PROVE ClientEvents(c)'
  <2>1. pc'[c] = pc[c] /\ out'[c] = out[c] /\ ~Holding(c) /\ ~Retracting(c)
    BY <1>2, <1>4, <1>7, Roles
  <2> QED
    BY <2>1 DEF ClientEvents, Holding, Sending, Announcing, Retracting
<1>8. ASSUME NEW v \in Workers, cur[v] = a PROVE WorkerEvents(v)'
  <2>1. CASE v = w
    BY <1>1, <1>2, <1>5, <2>1 DEF WorkerEvents, BetweenEvents
  <2>2. CASE v # w
    <3>1. pc'[v] = "idle"
      BY <1>2, <1>4, <1>8, <2>2, Roles
    <3> QED
      BY <3>1 DEF WorkerEvents, BetweenEvents
  <2> QED
    BY <2>1, <2>2
<1> QED
  BY <1>1, <1>6, <1>7, <1>8, Roles, StreamRunEvents

\* A step that publishes nothing moves at most goroutine t.
LEMMA QuietEvents ==
  ASSUME EventsInv, NEW t \in Threads, NEW p, NEW a, NEW s, Moves(t, p, a, s), stream' = stream,
         \A b \in Attempts : AttemptEvents(b)',
         t \in Clients => ClientEvents(t)' /\ ~Retracting(t)',
         t \in Workers => WorkerEvents(t)'
  PROVE  EventsInv'
<1>1. \A c \in Clients \ {t} : pc'[c] = pc[c] /\ cur'[c] = cur[c] /\ out'[c] = out[c]
  BY Roles DEF Moves
<1>2. \A w \in Workers \ {t} : pc'[w] = pc[w] /\ cur'[w] = cur[w] /\ out'[w] = out[w]
  BY Roles DEF Moves
<1>3. ASSUME NEW c \in Clients, c # t PROVE ClientEvents(c)'
  BY <1>1, <1>3 DEF EventsInv, ClientEvents, Sending, Announcing, Retracting
<1>4. ASSUME NEW w \in Workers, w # t PROVE WorkerEvents(w)'
  BY <1>2, <1>4 DEF EventsInv, WorkerEvents, BetweenEvents
<1>5. \A d \in Clients : Retracting(d)' => Retracting(d) /\ cur'[d] = cur[d]
  BY <1>1 DEF Retracting
<1> QED
  BY <1>3, <1>4, <1>5 DEF EventsInv

LEMMA EventsNext ==
  ASSUME IInv, RoleInv, HoldInv, EventsInv, [Next]_vars
  PROVE  EventsInv'
<1>0. /\ \A t \in Threads : pc[t] # "idle" => cur[t] \in 1..Len(attempts) /\ cur[t] \in Attempts
      /\ ready \subseteq 1..Len(attempts) /\ started \subseteq 1..Len(attempts)
      /\ cancelled \subseteq 1..Len(attempts)
      /\ Len(attempts) \in Nat /\ 1..Len(attempts) \subseteq Attempts
  <2>1. \A t \in Threads : pc[t] # "idle" => cur[t] \in 1..Len(attempts) /\ cur[t] \in Attempts
    BY CurInRange
  <2>2. /\ ready \subseteq 1..Len(attempts) /\ started \subseteq 1..Len(attempts)
        /\ cancelled \subseteq 1..Len(attempts)
        /\ Len(attempts) \in Nat /\ 1..Len(attempts) \subseteq Attempts
    BY RunnerAssumption DEF RunnerAssumption, IInv, TypeOK, Attempts
  <2> QED
    BY <2>1, <2>2
<1>a. ASSUME UNCHANGED <<attempts, started, cancelled, ready, stream>>
      PROVE  \A b \in Attempts : AttemptEvents(b)'
  BY <1>a DEF EventsInv, AttemptEvents
<1>1. ASSUME NEW c \in Clients, NEW k \in Keys, SubmitAdmit(c, k) PROVE EventsInv'
  <2>1. PICK n : n = Len(attempts) + 1
    OBVIOUS
  <2>2. /\ Moves(c, "send", n, out[c]) /\ Len(attempts') = n /\ n \in Attempts
        /\ UNCHANGED <<started, cancelled, ready, stream>>
    BY <1>1, <2>1, SubmitAdmitEffect
  <2>3. n > Len(attempts) /\ stream[n] = <<>> /\ n \notin started \cup cancelled \cup ready
    BY <1>0, <2>1, <2>2 DEF EventsInv, AttemptEvents
  <2>4. ASSUME NEW b \in Attempts PROVE AttemptEvents(b)'
    <3>1. b > Len(attempts') => b > Len(attempts)
      BY <1>0, <2>1, <2>2 DEF Attempts
    <3>2. AttemptEvents(b)
      BY DEF EventsInv
    <3> QED
      BY <2>2, <3>1, <3>2 DEF AttemptEvents
  <2>5. ClientEvents(c)' /\ ~Retracting(c)'
    BY <2>2, <2>3 DEF Moves, ClientEvents, Sending, Announcing, Retracting, Publication, Unannounced
  <2> QED
    BY <2>2, <2>4, <2>5, Roles, QuietEvents
<1>2. ASSUME NEW c \in Clients, NEW k \in Keys, Cancel(c, k) PROVE EventsInv'
  <2>1. PICK a : a = active[k]
    OBVIOUS
  <2>2. /\ a \in Attempts /\ a \notin started \cup cancelled
        /\ Moves(c, "remember", a, "cancelled") /\ cancelled' = cancelled \cup {a}
        /\ UNCHANGED <<attempts, started, ready, stream>>
    BY <1>0, <1>2, <2>1, CancelEffect
  <2>3. stream[a] \in {<<>>, <<"queued">>}
    BY <2>2 DEF EventsInv, AttemptEvents
  <2>4. \A b \in Attempts : AttemptEvents(b)'
    BY <2>2, <2>3 DEF EventsInv, AttemptEvents, StreamsWithdrawn
  <2>5. \A d \in Clients \ {c} : pc'[d] = pc[d] /\ cur'[d] = cur[d] /\ out'[d] = out[d]
    BY <2>2, Roles DEF Moves
  <2>6. pc'[c] = "remember" /\ cur'[c] = a /\ out'[c] = "cancelled"
    BY <2>2 DEF Moves
  <2>7. ASSUME NEW d \in Clients PROVE ClientEvents(d)'
    <3>1. CASE d = c
      BY <2>2, <2>3, <2>6, <3>1 DEF ClientEvents, Sending, Announcing
    <3>2. CASE d # c
      BY <2>2, <2>5, <3>2 DEF EventsInv, ClientEvents, Sending, Announcing, Retracting
    <3> QED
      BY <3>1, <3>2
  <2>8. \A d \in Clients \ {c} : Retracting(d)' => Retracting(d) /\ cur[d] # a /\ cur'[d] = cur[d]
    BY <2>2, <2>5 DEF Retracting, RoleInv, Withdrawing, Publication
  <2>9. \A w \in Workers : pc'[w] = pc[w] /\ cur'[w] = cur[w] /\ out'[w] = out[w]
    BY <2>2, Roles DEF Moves
  <2>10. \A w \in Workers : WorkerEvents(w)'
    BY <2>2, <2>9 DEF EventsInv, WorkerEvents, BetweenEvents
  <2> QED
    BY <2>4, <2>6, <2>7, <2>8, <2>10 DEF EventsInv
<1>3. ASSUME NEW c \in Clients, SubmitSend(c) PROVE EventsInv'
  <2>1. pc[c] = "send" /\ UNCHANGED <<attempts, started, cancelled, ready, stream>>
    BY <1>3, SubmitSendEffect
  <2>2. stream[cur[c]] \in Unannounced
    BY <2>1 DEF EventsInv, ClientEvents, Sending
  <2>3. ASSUME NEW p, NEW s, Moves(c, p, cur[c], s), p = "busy" \/ (p = "remember" /\ s = "queued")
        PROVE  EventsInv'
    <3>1. ClientEvents(c)' /\ ~Retracting(c)'
      BY <2>1, <2>2, <2>3 DEF Moves, ClientEvents, Sending, Announcing, Retracting
    <3> QED
      BY <1>a, <2>1, <2>3, <3>1, Roles, QuietEvents
  <2> QED
    BY <1>3, <2>3, SubmitSendEffect
<1>4. ASSUME NEW t \in Threads, NEW p \in {"idle", "begin"}, NEW a, NEW s, Moves(t, p, a, s),
             stream' = stream, \A b \in Attempts : AttemptEvents(b)'
      PROVE  EventsInv'
  <2>1. pc'[t] \in {"idle", "begin"}
    BY <1>4 DEF Moves
  <2>2. ClientEvents(t)' /\ ~Retracting(t)' /\ WorkerEvents(t)'
    BY <2>1 DEF ClientEvents, WorkerEvents, BetweenEvents, Sending, Announcing, Retracting, Publication
  <2> QED
    BY <1>4, <2>2, QuietEvents
<1>5. ASSUME NEW c \in Clients, SubmitBusy(c) \/ CancelFallback(c) PROVE EventsInv'
  BY <1>4, <1>5, <1>a, Roles, SubmitBusyEffect, CancelFallbackEffect
<1>6. ASSUME NEW c \in Clients, SubmitReady(c) PROVE EventsInv'
  <2>1. stream[cur[c]] \notin Unannounced
    BY <1>6, SubmitReadyEffect DEF EventsInv, ClientEvents, Announcing, RoleInv
  <2>2. \A b \in Attempts : AttemptEvents(b)'
    BY <1>6, <2>1, SubmitReadyEffect DEF EventsInv, AttemptEvents
  <2> QED
    BY <1>4, <1>6, <2>2, Roles, SubmitReadyEffect
<1>7. ASSUME NEW t \in Threads, NEW p, Moves(t, p, cur[t], out[t]),
             UNCHANGED <<attempts, started, cancelled, ready, stream>>,
             \/ pc[t] = "latest" /\ p = AfterPublish(t)
             \/ pc[t] = "record" /\ p = "remember"
      PROVE  EventsInv'
  <2>1. /\ pc'[t] = p /\ cur'[t] = cur[t] /\ out'[t] = out[t]
    BY <1>7 DEF Moves
  <2>2. ASSUME t \in Clients PROVE ClientEvents(t)' /\ ~Retracting(t)'
    <3>1. pc[t] = "latest" /\ out[t] = "queued" /\ p = "ready"
      BY <1>7, <2>2, Publishes DEF RoleInv
    <3> QED
      BY <1>7, <2>1, <2>2, <3>1 DEF EventsInv, ClientEvents, Sending, Announcing, Retracting, Publication
  <2>3. ASSUME t \in Workers PROVE WorkerEvents(t)'
    <3>1. /\ p \in {"remember", "analyze", "release"}
          /\ p = "remember" => pc[t] = "record" /\ out[t] \in {"done", "failed"}
          /\ p = "analyze" => pc[t] = "latest" /\ out[t] = "running"
      BY <1>7, <2>3, Publishes DEF RoleInv, Publication
    <3> QED
      BY <1>7, <2>1, <2>3, <3>1 DEF EventsInv, WorkerEvents, BetweenEvents
  <2> QED
    BY <1>7, <1>a, <2>2, <2>3, QuietEvents
<1>8. ASSUME NEW t \in Threads, RememberActivity(t) PROVE EventsInv'
  <2>1. /\ pc[t] = "remember" /\ Moves(t, "stream", cur[t], out[t])
        /\ UNCHANGED <<attempts, started, cancelled, ready, stream>>
    BY <1>8, RememberActivityEffect
  <2>2. /\ pc'[t] = "stream" /\ cur'[t] = cur[t] /\ out'[t] = out[t]
        /\ \A u \in Threads \ {t} : pc'[u] = pc[u] /\ cur'[u] = cur[u] /\ out'[u] = out[u]
    BY <2>1 DEF Moves
  <2>3. \A c \in Clients : ClientEvents(c)' /\ (Retracting(c)' <=> Retracting(c)) /\ cur'[c] = cur[c]
    BY <2>1, <2>2, Roles DEF EventsInv, ClientEvents, Sending, Announcing, Retracting, Publication
  <2>4. \A w \in Workers : WorkerEvents(w)'
    BY <2>1, <2>2, Roles DEF EventsInv, WorkerEvents, BetweenEvents
  <2> QED
    BY <1>a, <2>1, <2>3, <2>4 DEF EventsInv
<1>9. ASSUME NEW t \in Threads, StreamRun(t) PROVE EventsInv'
  <2>1. t \in Clients => out[t] \in {"queued", "cancelled"}
    BY <1>9, StreamRunEffect, Publishes DEF Publication
  <2> QED
    BY <1>9, <2>1, AnnouncesEvents, RetractsEvents, ProcessEvents, Roles
<1>10. ASSUME NEW t \in Threads, StoreLatest(t) PROVE EventsInv'
  BY <1>7, <1>10, StoreLatestEffect
<1>11. ASSUME NEW t \in Threads, StoreFails(t) PROVE EventsInv'
  BY <1>4, <1>7, <1>11, <1>a, StoreFailsEffect
<1>12. ASSUME NEW w \in Workers, Dequeue(w) PROVE EventsInv'
  BY <1>4, <1>12, <1>a, Roles, DequeueEffect
<1>13. ASSUME NEW w \in Workers, Begin(w) PROVE EventsInv'
  <2>1. PICK a : a = cur[w]
    OBVIOUS
  <2>2. /\ pc[w] = "begin" /\ a \in ready /\ a \in Attempts
        /\ UNCHANGED <<attempts, cancelled, ready, stream>>
    BY <1>0, <1>13, <2>1, BeginEffect
  <2>3. CASE a \notin cancelled /\ started' = started \cup {a} /\ Moves(w, "remember", a, "running")
    <3>1. a \notin started
      BY <2>1, <2>2 DEF IInv, Custody
    <3>2. stream[a] = <<"queued">>
      BY <2>2, <2>3, <3>1 DEF EventsInv, AttemptEvents, Unannounced
    <3>3. \A b \in Attempts : AttemptEvents(b)'
      BY <2>2, <2>3, <3>2 DEF EventsInv, AttemptEvents
    <3>4. WorkerEvents(w)'
      BY <2>2, <2>3, <3>2 DEF Moves, WorkerEvents, BetweenEvents
    <3> QED
      BY <2>2, <2>3, <3>3, <3>4, Roles, QuietEvents
  <2>4. CASE started' = started /\ Moves(w, "idle", cur[w], out[w])
    BY <1>4, <1>a, <2>2, <2>4, Roles
  <2> QED
    BY <1>13, <2>1, <2>3, <2>4, BeginEffect
<1>14. ASSUME NEW w \in Workers, NEW o \in {"done", "failed"}, Analyze(w, o) PROVE EventsInv'
  <2>1. /\ pc[w] = "analyze" /\ Moves(w, "record", cur[w], o)
        /\ UNCHANGED <<attempts, started, cancelled, ready, stream>>
    BY <1>14, AnalyzeEffect
  <2>2. WorkerEvents(w)'
    BY <2>1 DEF Moves, EventsInv, WorkerEvents, BetweenEvents
  <2> QED
    BY <1>a, <2>1, <2>2, Roles, QuietEvents
<1>15. ASSUME NEW w \in Workers, PutRecord(w) PROVE EventsInv'
  BY <1>7, <1>15, Roles, PutRecordEffect
<1>16. ASSUME NEW w \in Workers, Release(w) PROVE EventsInv'
  BY <1>4, <1>16, <1>a, Roles, ReleaseEffect
<1>17. CASE Restart
  <2>1. /\ \A t \in Threads : pc'[t] = "idle"
        /\ ready' = {} /\ UNCHANGED <<attempts, started, cancelled, stream>>
    BY <1>17, RestartEffect DEF Restart
  <2>2. \A b \in Attempts : AttemptEvents(b)'
    BY <2>1 DEF EventsInv, AttemptEvents
  <2>3. \A c \in Clients : ClientEvents(c)' /\ ~Retracting(c)'
    BY <2>1, Roles DEF ClientEvents, Sending, Announcing, Retracting, Publication
  <2>4. \A w \in Workers : WorkerEvents(w)'
    BY <2>1, Roles DEF WorkerEvents, BetweenEvents
  <2> QED
    BY <2>2, <2>3, <2>4 DEF EventsInv
<1>18. ASSUME Idles PROVE EventsInv'
  BY <1>18 DEF Idles, EventsInv, AttemptEvents, ClientEvents, WorkerEvents, BetweenEvents, Sending,
               Announcing, Retracting
<1> QED
  BY <1>1, <1>2, <1>3, <1>5, <1>6, <1>8, <1>9, <1>10, <1>11, <1>12, <1>13, <1>14, <1>15, <1>16,
     <1>17, <1>18, Roles, IdleEffect
     DEF Next, Request, ClientStep, WorkerStep, PublishStep

-----------------------------------------------------------------------------
(* The badge. *)

LEMMA NewestNext ==
  ASSUME IInv, NewestInv, [Next]_vars
  PROVE  NewestInv'
<1> USE Slots
<1>1. ASSUME NEW c \in Clients, NEW k \in Keys, SubmitAdmit(c, k) PROVE NewestInv'
  <2>1. PICK n : n = Len(attempts) + 1
    OBVIOUS
  <2>2. /\ active'[k] = n /\ \A j \in Keys \ {k} : active'[j] = active[j]
        /\ attempts'[n] = k /\ \A a \in 1..Len(attempts) : attempts'[a] = attempts[a]
        /\ Len(attempts') = n
    BY <1>1, <2>1, SubmitAdmitEffect DEF KeyOf
  <2>3. \A a \in 1..n : a \in 1..Len(attempts) \/ a = n
    BY <2>1
  <2>4. ASSUME NEW j \in Keys, active'[j] # 0, NEW a \in 1..n, attempts'[a] = j
        PROVE  a <= active'[j]
    <3>1. CASE j = k
      BY <2>1, <2>2, <3>1
    <3>2. CASE j # k
      BY <2>2, <2>3, <2>4, <3>2 DEF NewestInv, KeyOf
    <3> QED
      BY <3>1, <3>2
  <2> QED
    BY <2>2, <2>4 DEF NewestInv, KeyOf
<1>2. ASSUME NEW b, Frees(b), attempts' = attempts PROVE NewestInv'
  BY <1>2 DEF Frees, NewestInv, KeyOf
<1>3. ASSUME NEW c \in Clients, SubmitBusy(c) \/ \E k \in Keys : Cancel(c, k) PROVE NewestInv'
  BY <1>2, <1>3, SubmitBusyEffect, CancelEffect
<1>4. ASSUME NEW w \in Workers, Release(w) PROVE NewestInv'
  BY <1>2, <1>4, ReleaseEffect
<1>5. CASE Restart
  BY <1>5, RestartEffect DEF NewestInv
<1>6. ASSUME attempts' = attempts, active' = active PROVE NewestInv'
  BY <1>6 DEF NewestInv, KeyOf
<1>7. ASSUME NEW c \in Clients, SubmitSend(c) \/ SubmitReady(c) \/ CancelFallback(c) PROVE NewestInv'
  BY <1>6, <1>7, SubmitSendEffect, SubmitReadyEffect, CancelFallbackEffect
<1>8. ASSUME NEW t \in Threads, PublishStep(t) \/ StoreFails(t) PROVE NewestInv'
  BY <1>6, <1>8, RememberActivityEffect, StreamRunEffect, StoreLatestEffect, StoreFailsEffect
     DEF PublishStep
<1>9. ASSUME NEW w \in Workers,
             Dequeue(w) \/ Begin(w) \/ PutRecord(w) \/ \E o \in {"done", "failed"} : Analyze(w, o)
      PROVE  NewestInv'
  BY <1>6, <1>9, DequeueEffect, BeginEffect, PutRecordEffect, AnalyzeEffect
<1>10. ASSUME Idles PROVE NewestInv'
  BY <1>6, <1>10 DEF Idles
<1> QED
  BY <1>1, <1>3, <1>4, <1>5, <1>7, <1>8, <1>9, <1>10, IdleEffect, Roles
     DEF Next, Request, ClientStep, WorkerStep

\* What goes on goes on: the work on an attempt ends only with the record of attempt
\* x and with the badge of attempt y.
Advances(x, y) ==
    /\ \A a \in 1..Len(attempts) : a \in 1..Len(attempts') /\ attempts'[a] = attempts[a]
    /\ started \subseteq started' /\ cancelled \subseteq cancelled'
    /\ NoFault' =>
          /\ NoFault
          /\ \A a \in started' \ started : Unrecorded(a)' /\ Unfinished(a)'
          /\ \A a \in 1..Len(attempts) : Waits(a) => Waits(a)' \/ Unfinished(a)' \/ a \in cancelled
          /\ \A a \in 1..Len(attempts) : Unrecorded(a) /\ a # x => Unrecorded(a)'
          /\ \A a \in 1..Len(attempts) :
                Unfinished(a) /\ a # y /\ KeyOf(a) \notin Plans => Unfinished(a)'

Records(p, s) == p \in {"analyze", "record"} \/ (p \in Publication /\ s = "running")
Works(p)      == p \in Publication \cup {"analyze", "record"}

\* A step that starts no attempt and admits none, and moves only goroutine t.
LEMMA CalmAdvances ==
  ASSUME NEW t \in Threads, NEW p, NEW a, NEW s, Moves(t, p, a, s), NEW x, NEW y,
         UNCHANGED <<attempts, started>>, cancelled \subseteq cancelled', NoFault' => NoFault,
         \A b : Waits(b) => Waits(b)',
         \/ t \in Clients \/ ~Works(pc[t])
         \/ /\ a = cur[t]
            /\ a = x \/ (Records(pc[t], out[t]) => Records(p, s))
            /\ a = y \/ KeyOf(a) \in Plans \/ Works(p)
  PROVE  Advances(x, y)
<1>1. \A w \in Workers \ {t} : pc'[w] = pc[w] /\ cur'[w] = cur[w] /\ out'[w] = out[w]
  BY Roles DEF Moves
<1>2. pc'[t] = p /\ cur'[t] = a /\ out'[t] = s
  BY DEF Moves
<1>3. Records(pc[t], out[t]) => Works(pc[t])
  BY DEF Records, Works
<1>4. ASSUME NEW w \in Workers, NEW b, cur[w] = b, Records(pc[w], out[w]), b # x
      PROVE  cur'[w] = b /\ Records(pc'[w], out'[w])
  BY <1>1, <1>2, <1>3, <1>4, Roles
<1>5. ASSUME NEW w \in Workers, NEW b, cur[w] = b, Works(pc[w]), b # y, KeyOf(b) \notin Plans
      PROVE  cur'[w] = b /\ Works(pc'[w])
  BY <1>1, <1>2, <1>5, Roles
<1>6. \A b : Unrecorded(b) /\ b # x => Unrecorded(b)'
  BY <1>4 DEF Unrecorded, Records
<1>7. \A b : Unfinished(b) /\ b # y /\ KeyOf(b) \notin Plans => Unfinished(b)'
  BY <1>5 DEF Unfinished, Works
<1> QED
  BY <1>6, <1>7 DEF Advances

LEMMA SubmitAdmitAdvances ==
  ASSUME IInv, NEW c \in Clients, NEW k \in Keys, SubmitAdmit(c, k)
  PROVE  Advances(0, 0) /\ UNCHANGED <<latest, records>>
<1>1. /\ Len(attempts') = Len(attempts) + 1 /\ UNCHANGED <<started, cancelled, faults, latest, records>>
      /\ \A a \in 1..Len(attempts) : attempts'[a] = attempts[a]
  BY SubmitAdmitEffect DEF KeyOf
<1>2. \A a \in 1..Len(attempts) : a \in 1..Len(attempts')
  BY <1>1, Slots
<1>3. \A w \in Workers : pc'[w] = pc[w] /\ cur'[w] = cur[w] /\ out'[w] = out[w]
  BY SubmitAdmitEffect, Roles DEF Moves
<1>4. \A b : (Unrecorded(b) => Unrecorded(b)') /\ (Unfinished(b) => Unfinished(b)')
  BY <1>3 DEF Unrecorded, Unfinished
<1>5. \A b : Waits(b) => Waits(b)'
  BY SubmitAdmitPlaces
<1> QED
  BY <1>1, <1>2, <1>4, <1>5 DEF Advances, NoFault

LEMMA BeginAdvances ==
  ASSUME IInv, PlaceInv, NEW w \in Workers, Begin(w)
  PROVE  Advances(0, 0) /\ UNCHANGED <<latest, records>>
<1>1. PICK a : a = cur[w]
  OBVIOUS
<1>2. /\ pc[w] = "begin" /\ UNCHANGED <<attempts, cancelled, faults, latest, records>>
      /\ \/ started' = started \cup {a} /\ Moves(w, "remember", a, "running")
         \/ /\ active[KeyOf(a)] # a \/ a \in cancelled
            /\ started' = started /\ Moves(w, "idle", a, out[w])
  BY <1>1, BeginEffect
<1>3. Waits(a) /\ a \in Attempts /\ \A b : Waits(b) /\ b # a => Waits(b)'
  BY <1>1, BeginPlaces, Apart
<1>4. /\ \A b : Unrecorded(b) => Unrecorded(b)'
      /\ \A b : Unfinished(b) => Unfinished(b)'
  <2>1. \A v \in Workers \ {w} : pc'[v] = pc[v] /\ cur'[v] = cur[v] /\ out'[v] = out[v]
    BY <1>2, Roles DEF Moves
  <2> QED
    BY <1>2, <2>1 DEF Unrecorded, Unfinished, Publication
<1>5. CASE started' = started \cup {a} /\ Moves(w, "remember", a, "running")
  <2>1. Unrecorded(a)' /\ Unfinished(a)'
    BY <1>5 DEF Moves, Unrecorded, Unfinished, Publication
  <2> QED
    BY <1>2, <1>3, <1>4, <1>5, <2>1 DEF Advances, NoFault
<1>6. CASE started' = started /\ (active[KeyOf(a)] # a \/ a \in cancelled)
  <2>1. a \in cancelled
    BY <1>3, <1>6 DEF PlaceInv
  <2> QED
    BY <1>2, <1>3, <1>4, <1>6, <2>1 DEF Advances, NoFault
<1> QED
  BY <1>2, <1>5, <1>6

\* A publication goes on to the next place of its goroutine.
LEMMA PublishAdvances ==
  ASSUME IInv, RoleInv, NEW t \in Threads, PublishStep(t)
  PROVE  /\ records' = records
         /\ \/ Advances(0, 0) /\ latest' = latest
            \/ Advances(0, cur[t]) /\ StoreLatest(t)
<1> USE Roles, Publishes DEF Records, Works, Publication
<1>1. CASE RememberActivity(t)
  BY <1>1, RememberActivityEffect, CalmSteps, CalmAdvances DEF StaysPut, NoFault
<1>2. CASE StreamRun(t)
  <2>1. /\ pc[t] = "stream" /\ UNCHANGED <<attempts, started, cancelled, faults, latest, records>>
        /\ \/ KeyOf(cur[t]) \in Plans /\ Moves(t, AfterPublish(t), cur[t], out[t])
           \/ KeyOf(cur[t]) \notin Plans /\ out[t] = "cancelled" /\ Moves(t, "fallback", cur[t], out[t])
           \/ KeyOf(cur[t]) \notin Plans /\ out[t] # "cancelled" /\ Moves(t, "latest", cur[t], out[t])
    BY <1>2, StreamRunEffect
  <2>2. \A b : Waits(b) => Waits(b)'
    BY <1>2, CalmSteps DEF StaysPut
  <2>3. t \in Clients \/ (t \in Workers /\ out[t] \in {"running", "done", "failed"})
    BY <2>1
  <2>4. ASSUME NEW p, Moves(t, p, cur[t], out[t]),
               t \in Clients \/ p = "latest" \/ (KeyOf(cur[t]) \in Plans /\ p = AfterPublish(t))
        PROVE  Advances(0, 0)
    BY <2>1, <2>2, <2>3, <2>4, CalmAdvances DEF NoFault
  <2> QED
    BY <2>1, <2>3, <2>4
<1>3. CASE StoreLatest(t)
  <2>1. /\ pc[t] = "latest" /\ UNCHANGED <<attempts, started, cancelled, faults, records>>
        /\ Moves(t, AfterPublish(t), cur[t], out[t])
    BY <1>3, StoreLatestEffect
  <2>2. \A b : Waits(b) => Waits(b)'
    BY <1>3, CalmSteps DEF StaysPut
  <2>3. t \in Clients \/ (t \in Workers /\ out[t] \in {"running", "done", "failed"})
    BY <2>1
  <2> QED
    BY <1>3, <2>1, <2>2, <2>3, CalmAdvances DEF NoFault
<1> QED
  BY <1>1, <1>2, <1>3 DEF PublishStep

LEMMA AdvancesNext ==
  ASSUME IInv, RoleInv, PlaceInv, [Next]_vars
  PROVE  \/ \E w \in Workers : PutRecord(w) /\ Advances(cur[w], 0) /\ latest' = latest
         \/ \E t \in Threads : StoreLatest(t) /\ Advances(0, cur[t]) /\ records' = records
         \/ \E c \in Clients : CancelFallback(c) /\ Advances(0, 0) /\ records' = records
         \/ Advances(0, 0) /\ UNCHANGED <<latest, records>>
<1> USE Roles DEF Records, Works, Publication, NoFault
<1> DEFINE Calm == Advances(0, 0) /\ UNCHANGED <<latest, records>>
<1>1. ASSUME NEW c \in Clients, NEW k \in Keys, Cancel(c, k) PROVE Calm
  BY <1>1, CancelEffect, CalmSteps, CalmAdvances DEF StaysPut
<1>2. ASSUME NEW c \in Clients, SubmitSend(c) PROVE Calm
  BY <1>2, SubmitSendEffect, SubmitSendPlaces, CalmAdvances DEF StaysPut
<1>3. ASSUME NEW c \in Clients, SubmitBusy(c) PROVE Calm
  BY <1>3, SubmitBusyEffect, SubmitBusyPlaces, CalmAdvances
<1>4. ASSUME NEW c \in Clients, SubmitReady(c) PROVE Calm
  BY <1>4, SubmitReadyEffect, CalmSteps, CalmAdvances DEF StaysPut
<1>5. ASSUME NEW c \in Clients, CancelFallback(c) PROVE Advances(0, 0) /\ records' = records
  BY <1>5, CancelFallbackEffect, CalmSteps, CalmAdvances DEF StaysPut
<1>6. ASSUME NEW w \in Workers, Dequeue(w) PROVE Calm
  BY <1>6, DequeueEffect, DequeuePlaces, CalmAdvances DEF StaysPut
<1>7. ASSUME NEW w \in Workers, NEW o \in {"done", "failed"}, Analyze(w, o) PROVE Calm
  BY <1>7, AnalyzeEffect, CalmSteps, CalmAdvances DEF StaysPut
<1>8. ASSUME NEW w \in Workers, PutRecord(w) PROVE Advances(cur[w], 0) /\ latest' = latest
  BY <1>8, PutRecordEffect, CalmSteps, CalmAdvances DEF StaysPut
<1>9. ASSUME NEW w \in Workers, Release(w) PROVE Calm
  BY <1>9, ReleaseEffect, ReleasePlaces, CalmAdvances
<1>10. ASSUME Restart \/ \E t \in Threads : StoreFails(t) PROVE Calm
  <2>1. /\ faults'["store"] + faults'["crash"] > 0
        /\ UNCHANGED <<attempts, started, cancelled, latest, records>>
    BY <1>10, RestartEffect, StoreFailsEffect DEF Restart
  <2> QED
    BY <2>1 DEF Advances
<1>11. ASSUME Idles PROVE Calm
  <2>1. \A b : (Unrecorded(b)' <=> Unrecorded(b)) /\ (Unfinished(b)' <=> Unfinished(b))
    BY <1>11 DEF Idles, Unrecorded, Unfinished
  <2> QED
    BY <1>11, <2>1, IdlePlaces DEF Idles, StaysPut, Advances
<1> QED
  BY <1>1, <1>2, <1>3, <1>4, <1>5, <1>6, <1>7, <1>8, <1>9, <1>10, <1>11, IdleEffect,
     SubmitAdmitAdvances, BeginAdvances, PublishAdvances
     DEF Next, Request, ClientStep, WorkerStep

-----------------------------------------------------------------------------
LEMMA RecordsNext ==
  ASSUME IInv, RoleInv, PlaceInv, NewestInv, RecordsInv, [Next]_vars
  PROVE  RecordsInv'
<1>1. started \subseteq 1..Len(attempts) /\ records \in [Keys -> Runs \cup {NoRun}]
  BY DEF IInv, TypeOK
<1>2. ASSUME NEW y, Advances(0, y), records' = records PROVE RecordsInv'
  <2>0. \A a \in started : a \in 1..Len(attempts) /\ a # 0
    BY <1>1, Slots
  <2>1. /\ \A a \in started : attempts'[a] = attempts[a] /\ a \in started'
        /\ NoFault' => NoFault
        /\ NoFault' => \A a \in started' \ started : Unrecorded(a)'
        /\ NoFault' => \A a \in started : Unrecorded(a) => Unrecorded(a)'
    BY <1>2, <2>0 DEF Advances
  <2>2. ASSUME NEW k \in Keys, records'[k] # NoRun
        PROVE  /\ records'[k].status \in {"done", "failed"}
               /\ records'[k].attempt \in started'
               /\ attempts'[records'[k].attempt] = k
    BY <1>2, <2>1, <2>2 DEF RecordsInv, KeyOf
  <2>3. ASSUME NoFault', NEW a \in started', ~Unrecorded(a)'
        PROVE  records'[attempts'[a]] # NoRun /\ a <= records'[attempts'[a]].attempt
    <3>1. a \in started /\ ~Unrecorded(a) /\ attempts'[a] = attempts[a]
      BY <2>1, <2>3
    <3> QED
      BY <1>2, <2>1, <2>3, <3>1 DEF RecordsInv, KeyOf
  <2> QED
    BY <2>2, <2>3 DEF RecordsInv, KeyOf
<1>3. ASSUME NEW w \in Workers, PutRecord(w), Advances(cur[w], 0) PROVE RecordsInv'
  <2>1. PICK x : x = cur[w]
    OBVIOUS
  <2>2. PICK k : k = KeyOf(x)
    OBVIOUS
  <2>3. /\ pc[w] = "record" /\ attempts' = attempts /\ started' = started /\ faults' = faults
        /\ x \in started /\ active[k] = x /\ k \in Keys
    BY <1>1, <1>3, <2>1, <2>2, PutRecordEffect, Slots DEF IInv, Custody, Processing
  <2>4. out[w] \in {"done", "failed"}
    BY <2>3 DEF RoleInv
  <2>5. records'[k] = RunOf(x, out[w]) /\ \A j \in Keys \ {k} : records'[j] = records[j]
    BY <1>1, <1>3, <2>1, <2>2, <2>3 DEF PutRecord
  <2>6. RunOf(x, out[w]).attempt = x /\ RunOf(x, out[w]).status = out[w] /\ RunOf(x, out[w]) # NoRun
    <3>1. RunOf(x, out[w]).attempt = x /\ RunOf(x, out[w]).status = out[w]
      BY DEF RunOf
    <3>2. x \in Attempts /\ out[w] \in Status
      BY <1>1, <2>3, <2>4, RunnerAssumption
         DEF RunnerAssumption, IInv, TypeOK, Attempts, Status, Terminal
    <3>3. RunOf(x, out[w]) \in Runs
      BY <3>2 DEF RunOf, Runs
    <3> QED
      BY <3>1, <3>3, NoRunAssumption DEF NoRunAssumption
  <2>7. ASSUME NEW j \in Keys, records'[j] # NoRun
        PROVE  /\ records'[j].status \in {"done", "failed"}
               /\ records'[j].attempt \in started'
               /\ attempts'[records'[j].attempt] = j
    BY <2>2, <2>3, <2>4, <2>5, <2>6, <2>7 DEF RecordsInv, KeyOf
  <2>8. ASSUME NoFault', NEW a \in started', ~Unrecorded(a)'
        PROVE  records'[attempts'[a]] # NoRun /\ a <= records'[attempts'[a]].attempt
    <3>1. CASE attempts[a] = k
      <4>1. a <= x
        BY <1>1, <2>3, <3>1, Slots DEF NewestInv, KeyOf
      <4> QED
        BY <2>3, <2>5, <2>6, <3>1, <4>1
    <3>2. CASE attempts[a] # k
      <4>1. a # x /\ a \in 1..Len(attempts) /\ attempts[a] \in Keys
        BY <1>1, <2>2, <2>3, <3>2, Slots DEF KeyOf
      <4>2. ~Unrecorded(a)
        BY <1>3, <2>1, <2>8, <4>1 DEF Advances
      <4> QED
        BY <2>3, <2>5, <2>8, <3>2, <4>1, <4>2 DEF RecordsInv, KeyOf, NoFault
    <3> QED
      BY <3>1, <3>2
  <2> QED
    BY <2>7, <2>8 DEF RecordsInv, KeyOf
<1> QED
  BY <1>2, <1>3, AdvancesNext

-----------------------------------------------------------------------------
(* The latest run of a repository. *)

\* A badge that a step leaves alone, and does not settle.
LEMMA BadgeStays ==
  ASSUME NEW r, BadgeOf(r), latest'[r] = latest[r], NEW x, NEW y, Advances(x, y),
         latest[r] # NoRun => latest[r].attempt # y
  PROVE  BadgeOf(r)'
<1>1. PICK L : L = latest[r]
  OBVIOUS
<1>2. CASE L = NoRun
  BY <1>1, <1>2 DEF BadgeOf
<1>3. CASE L # NoRun
  <2>1. PICK a : a = L.attempt
    OBVIOUS
  <2>2. /\ a \in 1..Len(attempts) /\ attempts[a] \notin Plans /\ RepoOf[attempts[a]] = r
        /\ L.status \in {"queued", "running", "done", "failed"} /\ a # y
        /\ L.status \in {"done", "failed"} => a \in started
        /\ NoFault /\ L.status \in {"queued", "running"} =>
              a \in cancelled \/ Waits(a) \/ Unfinished(a)
    BY <1>1, <1>3, <2>1 DEF BadgeOf, KeyOf
  <2>3. /\ a \in 1..Len(attempts') /\ attempts'[a] = attempts[a]
        /\ started \subseteq started' /\ cancelled \subseteq cancelled'
        /\ NoFault' => NoFault
        /\ NoFault' /\ Waits(a) => Waits(a)' \/ Unfinished(a)' \/ a \in cancelled
        /\ NoFault' /\ Unfinished(a) => Unfinished(a)'
    BY <2>2 DEF Advances, KeyOf
  <2>4. NoFault' /\ L.status \in {"queued", "running"} => a \in cancelled' \/ Waits(a)' \/ Unfinished(a)'
    BY <2>2, <2>3
  <2>5. latest'[r] = L /\ L.attempt = a
    BY <1>1, <2>1
  <2> QED
    BY <2>2, <2>3, <2>4, <2>5 DEF BadgeOf, KeyOf
<1> QED
  BY <1>2, <1>3

\* A run and what is stored of it.
LEMMA RunFields ==
  ASSUME NEW a \in Attempts, NEW s \in Status
  PROVE  RunOf(a, s).attempt = a /\ RunOf(a, s).status = s /\ RunOf(a, s) # NoRun
<1>1. RunOf(a, s) \in Runs
  BY DEF RunOf, Runs
<1> QED
  BY <1>1, NoRunAssumption DEF NoRunAssumption, RunOf

\* StoreLatest leaves the badge alone when it shows a newer run of another commit.
LEMMA StoreLatestBadge ==
  ASSUME IInv, RoleInv, HoldInv, NEW t \in Threads, StoreLatest(t)
  PROVE  LET q == RepoOf[KeyOf(cur[t])] IN
         /\ pc[t] = "latest" /\ cur[t] \in 1..Len(attempts) /\ cur[t] \in Attempts
         /\ KeyOf(cur[t]) \in Keys \ Plans /\ q \in Repos
         /\ \/ t \in Clients /\ out[t] = "queued" /\ Waits(cur[t])
            \/ /\ t \in Workers /\ out[t] \in {"running", "done", "failed"}
               /\ cur[t] \in started /\ active[KeyOf(cur[t])] = cur[t]
         /\ \/ Outdated(q, cur[t]) /\ latest' = latest
            \/ /\ ~Outdated(q, cur[t]) /\ latest'[q] = RunOf(cur[t], out[t])
               /\ \A r \in Repos \ {q} : latest'[r] = latest[r]
<1> DEFINE q == RepoOf[KeyOf(cur[t])]
<1>1. pc[t] = "latest"
  BY DEF StoreLatest
<1>2. cur[t] \in 1..Len(attempts) /\ cur[t] \in Attempts
  BY <1>1, CurInRange
<1>3. KeyOf(cur[t]) \in Keys \ Plans
  BY <1>1, <1>2, Slots DEF RoleInv
<1>4. q \in Repos
  BY <1>3, RunnerAssumption DEF RunnerAssumption
<1>5. ASSUME t \in Clients PROVE out[t] = "queued" /\ Waits(cur[t])
  BY <1>1, <1>5 DEF RoleInv, HoldInv, Announcing, Publication
<1>6. ASSUME t \in Workers
      PROVE  /\ out[t] \in {"running", "done", "failed"}
             /\ cur[t] \in started /\ active[KeyOf(cur[t])] = cur[t]
  <2>1. out[t] \in {"running", "done", "failed"}
    BY <1>1, <1>6, Publishes DEF Publication
  <2>2. Processing(t)
    BY <1>1 DEF Processing
  <2> QED
    BY <1>6, <2>1, <2>2 DEF IInv, Custody
<1>7. latest \in [Repos -> Runs \cup {NoRun}]
  BY DEF IInv, TypeOK
<1>8. \/ Outdated(q, cur[t]) /\ latest' = latest
      \/ /\ ~Outdated(q, cur[t]) /\ latest'[q] = RunOf(cur[t], out[t])
         /\ \A r \in Repos \ {q} : latest'[r] = latest[r]
  BY <1>4, <1>7 DEF StoreLatest
<1> QED
  BY <1>1, <1>2, <1>3, <1>4, <1>5, <1>6, <1>8, Roles

LEMMA CancelFallbackBadge ==
  ASSUME IInv, RecordsInv, NEW c \in Clients, CancelFallback(c)
  PROVE  LET q == RepoOf[KeyOf(cur[c])] IN
         \/ latest' = latest
         \/ /\ q \in Repos /\ \A r \in Repos \ {q} : latest'[r] = latest[r]
            /\ latest'[q] \in LatestStored(q)
<1> DEFINE q == RepoOf[KeyOf(cur[c])]
<1>1. KeyOf(cur[c]) \in Keys
  BY CancelFallbackEffect, CurInRange, Slots, Roles
<1>2. q \in Repos /\ latest \in [Repos -> Runs \cup {NoRun}]
  BY <1>1, RunnerAssumption DEF RunnerAssumption, IInv, TypeOK
<1>3. latest' = latest \/ \E z \in LatestStored(q) : latest' = [latest EXCEPT ![q] = z]
  BY DEF CancelFallback
<1> QED
  BY <1>2, <1>3

\* What is stored for a repository is the outcome of one of its normal analyses.
LEMMA Stored ==
  ASSUME IInv, RecordsInv, NEW q, NEW z \in LatestStored(q), z # NoRun
  PROVE  /\ z.attempt \in started /\ z.status \in {"done", "failed"}
         /\ KeyOf(z.attempt) \notin Plans /\ RepoOf[KeyOf(z.attempt)] = q
<1>1. PICK k \in Keys \ Plans : RepoOf[k] = q /\ z = records[k]
  BY DEF LatestStored, History
<1> QED
  BY <1>1 DEF RecordsInv

LEMMA LatestNext ==
  ASSUME IInv, RoleInv, HoldInv, PlaceInv, RecordsInv, LatestInv, [Next]_vars
  PROVE  LatestInv'
<1>1. \A r \in Repos : latest[r] # NoRun =>
         latest[r].attempt \in 1..Len(attempts) /\ latest[r].attempt # 0
  BY Slots DEF LatestInv, BadgeOf
<1>2. ASSUME NEW x, Advances(x, 0), latest' = latest PROVE LatestInv'
  BY <1>1, <1>2, BadgeStays DEF LatestInv
<1>3. ASSUME NEW t \in Threads, StoreLatest(t), Advances(0, cur[t]) PROVE LatestInv'
  <2>1. PICK y : y = cur[t]
    OBVIOUS
  <2>2. PICK q : q = RepoOf[KeyOf(y)]
    OBVIOUS
  <2>3. /\ pc[t] = "latest" /\ y \in 1..Len(attempts) /\ y \in Attempts
        /\ attempts[y] \notin Plans /\ q \in Repos
        /\ \/ t \in Clients /\ out[t] = "queued" /\ Waits(y)
           \/ t \in Workers /\ out[t] \in {"running", "done", "failed"} /\ y \in started
        /\ \/ Outdated(q, y) /\ latest' = latest
           \/ /\ ~Outdated(q, y) /\ latest'[q] = RunOf(y, out[t])
              /\ \A r \in Repos \ {q} : latest'[r] = latest[r]
    BY <1>3, <2>1, <2>2, StoreLatestBadge DEF KeyOf
  <2>4. ASSUME NEW r \in Repos, r # q PROVE BadgeOf(r)'
    <3>1. latest[r] # NoRun => latest[r].attempt # y
      BY <2>2, <2>4 DEF LatestInv, BadgeOf
    <3> QED
      BY <1>3, <2>1, <2>3, <2>4, <3>1, BadgeStays DEF LatestInv
  <2>5. CASE Outdated(q, y) /\ latest' = latest
    <3>1. latest[q].attempt # y
      BY <2>5 DEF Outdated
    <3> QED
      BY <1>3, <2>1, <2>3, <2>4, <2>5, <3>1, BadgeStays DEF LatestInv
  <2>6. CASE latest'[q] = RunOf(y, out[t])
    <3>1. out[t] \in Status
      BY <2>3 DEF Status, Terminal
    <3>2. latest'[q] # NoRun /\ latest'[q].attempt = y /\ latest'[q].status = out[t]
      BY <2>3, <2>6, <3>1, RunFields
    <3>3. y \in 1..Len(attempts') /\ attempts'[y] = attempts[y] /\ started \subseteq started'
      BY <1>3, <2>1, <2>3 DEF Advances
    <3>4. Waits(y) => Waits(y)'
      BY <1>3, CalmSteps DEF StaysPut
    <3>5. ASSUME t \in Workers, out[t] = "running" PROVE Unfinished(y)'
      <4>1. pc'[t] = "analyze" /\ cur'[t] = y
        BY <1>3, <2>1, <3>5, StoreLatestEffect, Publishes DEF Moves
      <4> QED
        BY <3>5, <4>1 DEF Unfinished
    <3>6. BadgeOf(q)'
      BY <2>2, <2>3, <3>2, <3>3, <3>4, <3>5 DEF BadgeOf, KeyOf
    <3> QED
      BY <2>4, <3>6 DEF LatestInv
  <2> QED
    BY <2>3, <2>5, <2>6
<1>4. ASSUME NEW c \in Clients, CancelFallback(c), Advances(0, 0) PROVE LatestInv'
  <2>1. PICK q : q = RepoOf[KeyOf(cur[c])]
    OBVIOUS
  <2>2. CASE latest' = latest
    BY <1>2, <1>4, <2>2
  <2>3. CASE /\ q \in Repos /\ \A r \in Repos \ {q} : latest'[r] = latest[r]
             /\ latest'[q] \in LatestStored(q)
    <3>1. ASSUME NEW r \in Repos, r # q PROVE BadgeOf(r)'
      BY <1>1, <1>4, <2>3, <3>1, BadgeStays DEF LatestInv
    <3>2. ASSUME latest'[q] # NoRun PROVE BadgeOf(q)'
      <4>1. PICK z \in LatestStored(q) : z = latest'[q]
        BY <2>3
      <4>2. /\ z.attempt \in started /\ z.status \in {"done", "failed"}
            /\ attempts[z.attempt] \notin Plans /\ RepoOf[attempts[z.attempt]] = q
        BY <3>2, <4>1, Stored DEF KeyOf
      <4>3. z.attempt \in 1..Len(attempts)
        BY <4>2 DEF IInv, TypeOK
      <4>4. /\ z.attempt \in 1..Len(attempts') /\ attempts'[z.attempt] = attempts[z.attempt]
            /\ z.attempt \in started'
        BY <1>4, <4>2, <4>3 DEF Advances
      <4> QED
        BY <4>1, <4>2, <4>4 DEF BadgeOf, KeyOf
    <3>3. latest'[q] = NoRun => BadgeOf(q)'
      BY DEF BadgeOf
    <3> QED
      BY <3>1, <3>2, <3>3 DEF LatestInv
  <2> QED
    BY <1>4, <2>1, <2>2, <2>3, CancelFallbackBadge
<1> QED
  BY <1>2, <1>3, <1>4, AdvancesNext

-----------------------------------------------------------------------------
(* The badge is that of the newest analysis. *)

\* What let a badge pass an attempt stays so.
LEMMA OvertakenStays ==
  ASSUME IInv, NEW x, NEW y, Advances(x, y), NEW a, Overtaken(a)
  PROVE  Overtaken(a)'
<1>1. PICK v \in cancelled, b \in 1..Len(attempts) : KeyOf(v) = KeyOf(b) /\ v < b /\ a <= b
  BY DEF Overtaken
<1>2. v \in 1..Len(attempts)
  BY DEF IInv, TypeOK
<1>3. v \in cancelled' /\ b \in 1..Len(attempts') /\ KeyOf(v)' = KeyOf(v) /\ KeyOf(b)' = KeyOf(b)
  BY <1>1, <1>2 DEF Advances, KeyOf
<1> QED
  BY <1>1, <1>3 DEF Overtaken

\* The attempts kept after a step were kept before it, or have just begun.
LEMMA KeptStays ==
  ASSUME IInv, NEW x, NEW y, Advances(x, y), NoFault', NEW r, NEW a, a \in Kept(r)', ~Unfinished(a)'
  PROVE  /\ a \in Kept(r) /\ a \in 1..Len(attempts)
         /\ a # y => ~Unfinished(a)
         /\ a # x => ~Unrecorded(a)
<1>1. /\ a \in started' /\ a \notin cancelled' /\ RepoOf[attempts'[a]] = r /\ attempts'[a] \notin Plans
  BY DEF Kept, KeyOf
<1>2. a \in started
  BY <1>1 DEF Advances
<1>3. a \in 1..Len(attempts)
  BY <1>2 DEF IInv, TypeOK
<1>4. attempts'[a] = attempts[a] /\ a \notin cancelled
  BY <1>1, <1>3 DEF Advances
<1>5. a \in Kept(r)
  BY <1>1, <1>2, <1>4 DEF Kept, KeyOf
<1>6. a # y => ~Unfinished(a)
  BY <1>1, <1>3, <1>4 DEF Advances, KeyOf
<1>7. Unrecorded(a)' => Unfinished(a)'
  BY DEF Unrecorded, Unfinished
<1>8. a # x => ~Unrecorded(a)
  BY <1>3, <1>7 DEF Advances
<1> QED
  BY <1>3, <1>5, <1>6, <1>8

\* The badge of repository r has attempt a, or let it pass.
Shows(r, a) == latest[r] # NoRun /\ (a <= latest[r].attempt \/ Overtaken(a))

\* An announcement that lowers the badge is that of a withdrawn attempt.
LEMMA LowersOvertaken ==
  ASSUME IInv, RoleInv, HoldInv, PlaceInv, NewestInv, LatestInv, NEW t \in Threads, StoreLatest(t),
         NEW q \in Repos, q = RepoOf[KeyOf(cur[t])], ~Outdated(q, cur[t]),
         NEW a \in 1..Len(attempts), Shows(q, a)
  PROVE  a <= cur[t] \/ Overtaken(a)
<1>1. PICK x : x = cur[t]
  OBVIOUS
<1>2. PICK b : b = latest[q].attempt
  OBVIOUS
<1>3. latest[q] # NoRun /\ b \in 1..Len(attempts) /\ (a <= b \/ Overtaken(a))
  BY <1>2 DEF Shows, LatestInv, BadgeOf
<1>4. /\ x \in 1..Len(attempts) /\ x \in Attempts /\ KeyOf(x) \in Keys
      /\ Waits(x) \/ active[KeyOf(x)] = x
  BY <1>1, StoreLatestBadge
<1>5. KeyOf(b) = KeyOf(x) \/ b <= x
  BY <1>1, <1>2, <1>3, <1>4, Slots DEF Outdated
<1>6. active[KeyOf(x)] = x \/ x \in cancelled
  BY <1>4 DEF PlaceInv
<1>7. ASSUME active[KeyOf(x)] = x, KeyOf(b) = KeyOf(x) PROVE b <= x
  BY <1>3, <1>4, <1>7, Slots DEF NewestInv
<1>8. ASSUME x \in cancelled, KeyOf(b) = KeyOf(x), ~(b <= x), a <= b PROVE Overtaken(a)
  <2>1. x < b
    BY <1>3, <1>4, <1>8, Slots
  <2> QED
    BY <1>3, <1>8, <2>1 DEF Overtaken
<1>9. a <= b /\ b <= x => a <= x
  BY <1>3, <1>4, Slots
<1> QED
  BY <1>1, <1>3, <1>5, <1>6, <1>7, <1>8, <1>9

LEMMA SettledNext ==
  ASSUME IInv, RoleInv, HoldInv, PlaceInv, BadgeInv, [Next]_vars
  PROVE  SettledInv'
<1> USE DEF BadgeInv
<1>1. SUFFICES ASSUME NoFault', NEW r \in Repos, NEW a, a \in Kept(r)', ~Unfinished(a)'
               PROVE  Shows(r, a)'
  BY DEF SettledInv, Shows
<1>2. ASSUME NEW x, NEW y, Advances(x, y) PROVE NoFault
  BY <1>1, <1>2 DEF Advances
<1>3. ASSUME NEW x, NEW y, Advances(x, y), a # y PROVE Shows(r, a)
  BY <1>1, <1>2, <1>3, KeptStays DEF SettledInv, Shows
<1>4. ASSUME NEW x, NEW y, Advances(x, y), Shows(r, a), latest'[r] = latest[r] PROVE Shows(r, a)'
  BY <1>4, OvertakenStays DEF Shows
<1>5. ASSUME NEW x, NEW y, Advances(x, y) PROVE a \in Kept(r) /\ a \in 1..Len(attempts) /\ a # 0
  BY <1>1, <1>5, KeptStays, Slots
<1>6. ASSUME NEW x, Advances(x, 0), latest' = latest PROVE Shows(r, a)'
  BY <1>3, <1>4, <1>5, <1>6
<1>7. ASSUME NEW t \in Threads, StoreLatest(t), Advances(0, cur[t]) PROVE Shows(r, a)'
  <2>1. PICK y : y = cur[t]
    OBVIOUS
  <2>2. PICK q : q = RepoOf[KeyOf(y)]
    OBVIOUS
  <2>3. /\ y \in 1..Len(attempts) /\ y \in Attempts /\ q \in Repos /\ out[t] \in Status
        /\ \/ Outdated(q, y) /\ latest' = latest
           \/ /\ ~Outdated(q, y) /\ latest'[q] = RunOf(y, out[t])
              /\ \A s \in Repos \ {q} : latest'[s] = latest[s]
    <3>1. out[t] \in Status
      BY DEF IInv, TypeOK
    <3> QED
      BY <1>7, <2>1, <2>2, <3>1, StoreLatestBadge
  <2>4. a \in Kept(r) /\ a \in 1..Len(attempts)
    BY <1>5, <1>7
  <2>5. a = y => r = q
    BY <2>2, <2>4 DEF Kept
  <2>6. a # y => Shows(r, a)
    BY <1>3, <1>7, <2>1
  <2>7. CASE Outdated(q, y) /\ latest' = latest
    <3>1. a = y => Shows(r, a)
      <4>1. latest[q] # NoRun /\ latest[q].attempt > y /\ latest[q].attempt \in 1..Len(attempts)
        BY <2>3, <2>7 DEF Outdated, LatestInv, BadgeOf
      <4> QED
        BY <2>3, <2>5, <4>1, Slots DEF Shows
    <3> QED
      BY <1>4, <1>7, <2>6, <2>7, <3>1
  <2>8. CASE /\ ~Outdated(q, y) /\ latest'[q] = RunOf(y, out[t])
             /\ \A s \in Repos \ {q} : latest'[s] = latest[s]
    <3>1. CASE r # q
      BY <1>4, <1>7, <2>5, <2>6, <2>8, <3>1
    <3>2. CASE r = q
      <4>1. latest'[r] # NoRun /\ latest'[r].attempt = y
        BY <2>3, <2>8, <3>2, RunFields
      <4>2. a <= y \/ Overtaken(a)
        <5>1. a = y => a <= y
          BY <2>3, Slots
        <5> QED
          BY <1>7, <2>1, <2>2, <2>3, <2>4, <2>6, <2>8, <3>2, <5>1, LowersOvertaken
      <4> QED
        BY <1>7, <4>1, <4>2, OvertakenStays DEF Shows
    <3> QED
      BY <3>1, <3>2
  <2> QED
    BY <2>3, <2>7, <2>8
<1>8. ASSUME NEW c \in Clients, CancelFallback(c), Advances(0, 0) PROVE Shows(r, a)'
  <2>1. PICK q : q = RepoOf[KeyOf(cur[c])]
    OBVIOUS
  <2>2. /\ a \in Kept(r) /\ a \in 1..Len(attempts) /\ a # 0 /\ NoFault /\ Shows(r, a)
    BY <1>2, <1>3, <1>5, <1>8
  <2>3. CASE latest'[r] = latest[r]
    BY <1>4, <1>8, <2>2, <2>3
  <2>4. CASE r = q /\ latest'[q] \in LatestStored(q)
    <3>1. PICK z \in LatestStored(q) : z = latest'[q]
      BY <2>4
    <3>2. PICK k : k = KeyOf(a)
      OBVIOUS
    <3>3. k \in Keys \ Plans /\ RepoOf[k] = q /\ a \in started
      BY <2>2, <2>4, <3>2, Slots DEF Kept
    <3>4. ~Unrecorded(a)
      BY <1>1, <1>8, <2>2, KeptStays
    <3>5. records[k] # NoRun /\ a <= records[k].attempt
      BY <2>2, <3>2, <3>3, <3>4 DEF RecordsInv
    <3>6. records[k] \in History(q)
      BY <3>3, <3>5 DEF History
    <3>7. z \in History(q) /\ records[k].attempt <= z.attempt
      BY <3>1, <3>6 DEF LatestStored
    <3>8. z # NoRun
      BY <3>7 DEF History
    <3>9. records[k].attempt \in 1..Len(attempts) /\ z.attempt \in 1..Len(attempts)
      <4>1. records[k].attempt \in started /\ z.attempt \in started
        BY <3>3, <3>5, <3>8, Stored DEF RecordsInv
      <4> QED
        BY <4>1 DEF IInv, TypeOK
    <3>10. a <= z.attempt
      BY <2>2, <3>5, <3>7, <3>9, Slots
    <3> QED
      BY <2>4, <3>1, <3>8, <3>10 DEF Shows
  <2> QED
    BY <1>8, <2>1, <2>3, <2>4, CancelFallbackBadge
<1> QED
  BY <1>6, <1>7, <1>8, AdvancesNext

-----------------------------------------------------------------------------
LEMMA NextDelivery ==
  ASSUME DeliveryInv, [Next]_vars
  PROVE  DeliveryInv'
<1> USE DEF DeliveryInv
<1>1. IInv'
  BY NextIInv
<1>2. RoleInv' /\ HoldInv' /\ PlaceInv'
  BY RoleNext, HoldNext, PlaceNext
<1>3. DeliveredInv' /\ ListedInv' /\ EventsInv'
  BY DeliveredNext, ListedNext, EventsNext
<1>4. BadgeInv'
  BY NewestNext, RecordsNext, LatestNext, SettledNext DEF BadgeInv
<1> QED
  BY <1>1, <1>2, <1>3, <1>4

THEOREM DeliveryHolds == Spec => []DeliveryInv
BY InitDelivery, NextDelivery, PTL DEF Spec

\* The events of an attempt reach the browsers in order ("queued", "running", one
\* outcome), and a withdrawn one is never announced as running.
THEOREM EventsAreOrdered == Spec => []StreamOrder
<1>1. DeliveryInv => StreamOrder
  <2> SUFFICES ASSUME DeliveryInv, NEW a \in Attempts
               PROVE  stream[a] \in IF a \in cancelled THEN StreamsWithdrawn ELSE StreamsKept
    BY DEF StreamOrder
  <2>1. AttemptEvents(a)
    BY DEF DeliveryInv, EventsInv
  <2>2. CASE a \in cancelled
    BY <2>1, <2>2 DEF AttemptEvents
  <2>3. CASE a \notin cancelled
    BY <2>1, <2>3, Texts DEF AttemptEvents, StreamsKept, Running
  <2> QED
    BY <2>2, <2>3
<1> QED
  BY <1>1, DeliveryHolds, PTL

\* An accepted job is never lost while the process lives: it waits, it is being
\* analyzed, its slot was given back after the analysis, or it was withdrawn; and
\* the activity list shows it.
THEOREM AcceptedIsDelivered == Spec => []AcceptedNotLost
<1>1. DeliveryInv => AcceptedNotLost
  <2> SUFFICES ASSUME DeliveryInv PROVE AcceptedNotLost
    OBVIOUS
  <2>1. \A a : Waits(a) \/ Sent(a) \/ InHand(a) => a \in InFlight
    BY Roles DEF Waits, InQueue, Sent, Sending, InHand, Processing, InFlight
  <2> QED
    BY <2>1 DEF DeliveryInv, DeliveredInv, ListedInv, AcceptedNotLost
<1> QED
  BY <1>1, DeliveryHolds, PTL

\* While no write failed and the process did not stop, the badge of a quiet
\* repository shows the outcome of its newest analysis, whatever order the workers
\* finished in, but for what the announcement of a withdrawn attempt let pass.
THEOREM BadgeIsRight == Spec => []BadgeIsNewest
<1>1. DeliveryInv => BadgeIsNewest
  <2> SUFFICES ASSUME DeliveryInv, NoFault, NEW r \in Repos, Quiet(r)
               PROVE  \/ latest[r] = NoRun /\ Kept(r) = {}
                      \/ /\ latest[r] # NoRun
                         /\ \/ latest[r].attempt \in cancelled
                            \/ /\ latest[r].status \in {"done", "failed"}
                               /\ latest[r].attempt \in Kept(r)
                               /\ \A a \in Kept(r) : a <= latest[r].attempt \/ Overtaken(a)
    BY DEF BadgeIsNewest, NoFault
  <2>1. \A a : RepoOf[KeyOf(a)] = r => ~Waits(a) /\ ~Unfinished(a)
    BY Roles DEF Quiet, InFlight, Waits, InQueue, Unfinished, Publication
  <2>2. \A a \in Kept(r) : latest[r] # NoRun /\ (a <= latest[r].attempt \/ Overtaken(a))
    BY <2>1 DEF DeliveryInv, BadgeInv, SettledInv, Kept
  <2>3. BadgeOf(r)
    BY DEF DeliveryInv, BadgeInv, LatestInv
  <2>4. CASE latest[r] = NoRun
    BY <2>2, <2>4
  <2>5. CASE latest[r] # NoRun /\ latest[r].attempt \notin cancelled
    <3>1. latest[r].status \in {"done", "failed"} /\ latest[r].attempt \in started
      BY <2>1, <2>3, <2>5 DEF BadgeOf
    <3>2. latest[r].attempt \in Kept(r)
      BY <2>3, <2>5, <3>1 DEF BadgeOf, Kept
    <3> QED
      BY <2>2, <2>5, <3>1, <3>2
  <2> QED
    BY <2>4, <2>5
<1> QED
  BY <1>1, DeliveryHolds, PTL
=============================================================================
