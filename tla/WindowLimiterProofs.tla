------------------------- MODULE WindowLimiterProofs -------------------------
(***************************************************************************)
(* The limiter keeps its promises for any number of keys, any limit, any   *)
(* window and any sample: LimiterInv is inductive, and it implies that a   *)
(* key gets at most Limit events in a window and is refused for nothing    *)
(* but its own events.                                                     *)
(***************************************************************************)
EXTENDS WindowLimiter, FiniteSetTheorems, TLAPS

\* What the invariant says of a window whose counts are c: used of the
\* counts a call starts from, which are empty when it opens a window.
Sound(c, got, gone, no) ==
    /\ c \in [Callers -> 0..Limit] /\ got \in [Callers -> 0..Enough]
    /\ gone \subseteq Callers /\ no \subseteq Callers
    /\ Cardinality(Present(c)) <= MaxKeys
    /\ \A k \in Callers : c[k] <= got[k]
    /\ \A k \in Callers \ gone : c[k] = got[k]
    /\ \A k \in no : got[k] >= Limit

\* A window that was just opened is sound.
LEMMA EmptyIsSound == Sound(NoEvents, NoEvents, {}, {})
<1>1. Present(NoEvents) = {}
    BY DEF Present, NoEvents
<1>2. Cardinality(Present(NoEvents)) = 0
    BY <1>1, FS_EmptySet
<1> QED BY <1>2, LimiterAssumption DEF Sound, NoEvents

\* LimiterInv is the soundness of the counts the limiter holds.
LEMMA InvIsSound ==
    LimiterInv <=> age \in 0..Window /\ Sound(counts, admitted, evicted, refused)
BY DEF LimiterInv, TypeOK, MapIsBounded, OwnBudgetOnly, Sound

\* Whether the call opens a window or not, it starts from sound counts.
LEMMA BaseIsSound ==
    ASSUME LimiterInv
    PROVE  Sound(Base(counts, NoEvents), Base(admitted, NoEvents),
                 Base(evicted, {}), Base(refused, {}))
BY InvIsSound, EmptyIsSound DEF Base

\* Making room touches no count but the victim's, which is not the caller's,
\* and leaves a place for the caller.
LEMMA RoomIsMade ==
    ASSUME NEW c \in [Callers -> 0..Limit], Cardinality(Present(c)) <= MaxKeys,
           NEW k \in Callers, NEW kept \in Room(c, k)
    PROVE  /\ kept \in [Callers -> 0..Limit]
           /\ kept[k] = c[k]
           /\ \A x \in Callers : kept[x] = c[x] \/ (kept[x] = 0 /\ c[x] > 0)
           /\ Cardinality(Present(kept) \cup {k}) <= MaxKeys
<1>1. IsFiniteSet(Present(c)) /\ Cardinality(Present(c)) \in Nat
    BY LimiterAssumption, FS_Subset, FS_CardinalityType DEF Present
<1>2. CASE c[k] = 0 /\ Cardinality(Present(c)) >= MaxKeys
    <2>1. PICK v \in Victims(c) : kept = [c EXCEPT ![v] = 0]
        BY <1>2 DEF Room
    <2>2. v \in Callers /\ c[v] > 0 /\ v \in Present(c) /\ v # k
        BY <1>2 DEF Victims, Present
    <2>3. kept \in [Callers -> 0..Limit]
        BY <2>1, <2>2, LimiterAssumption
    <2>4. Present(kept) = Present(c) \ {v}
        BY <2>1, <2>2, <2>3 DEF Present
    <2>5. IsFiniteSet(Present(kept)) /\ Cardinality(Present(kept)) = Cardinality(Present(c)) - 1
        BY <1>1, <2>2, <2>4, FS_RemoveElement
    <2>6. k \notin Present(kept)
        BY <1>2, <2>4 DEF Present
    <2>7. Cardinality(Present(kept) \cup {k}) = Cardinality(Present(kept)) + 1
        BY <2>5, <2>6, FS_AddElement
    <2> QED BY <1>1, <2>1, <2>2, <2>3, <2>5, <2>7, LimiterAssumption
<1>3. CASE ~(c[k] = 0 /\ Cardinality(Present(c)) >= MaxKeys)
    <2>1. kept = c
        BY <1>3 DEF Room
    <2>2. CASE c[k] = 0
        <3>1. k \notin Present(c)
            BY <2>2 DEF Present
        <3>2. Cardinality(Present(c) \cup {k}) = Cardinality(Present(c)) + 1
            BY <1>1, <3>1, FS_AddElement
        <3> QED BY <1>1, <1>3, <2>1, <2>2, <3>2, LimiterAssumption
    <2>3. CASE c[k] # 0
        <3>1. Present(c) \cup {k} = Present(c)
            BY <2>3, LimiterAssumption DEF Present
        <3> QED BY <2>1, <3>1
    <2> QED BY <2>2, <2>3
<1> QED BY <1>2, <1>3

\* An event of k counted, and what k got since the window started.
Counted(f, k)  == [f EXCEPT ![k] = @ + 1]
Credited(f, k) == [f EXCEPT ![k] = OneMore(@)]

\* Counting an event that found fewer than Limit keeps the counts sound.
LEMMA AdmitIsSound ==
    ASSUME NEW c, NEW got, NEW gone, NEW no, Sound(c, got, gone, no),
           NEW k \in Callers, NEW kept \in Room(c, k), kept[k] < Limit
    PROVE  Sound(Counted(kept, k), Credited(got, k),
                 gone \cup {v \in Callers : c[v] > 0 /\ kept[v] = 0}, no)
<1> DEFINE after == Counted(kept, k)
           have  == Credited(got, k)
           lost  == gone \cup {v \in Callers : c[v] > 0 /\ kept[v] = 0}
<1>1. /\ c \in [Callers -> 0..Limit] /\ Cardinality(Present(c)) <= MaxKeys
      /\ got \in [Callers -> 0..Enough]
      /\ gone \subseteq Callers /\ no \subseteq Callers
    BY DEF Sound
<1>2. /\ kept \in [Callers -> 0..Limit]
      /\ kept[k] = c[k]
      /\ \A x \in Callers : kept[x] = c[x] \/ (kept[x] = 0 /\ c[x] > 0)
      /\ Cardinality(Present(kept) \cup {k}) <= MaxKeys
    BY <1>1, RoomIsMade
<1>3. after \in [Callers -> 0..Limit] /\ have \in [Callers -> 0..Enough]
    BY <1>1, <1>2, LimiterAssumption DEF Counted, Credited, OneMore
<1>4. Present(after) = Present(kept) \cup {k}
    BY <1>2, LimiterAssumption DEF Counted, Present
<1>5. \A x \in Callers : after[x] <= have[x]
    BY <1>1, <1>2, <1>3, LimiterAssumption DEF Counted, Credited, OneMore, Sound
<1>6. \A x \in Callers \ lost : after[x] = have[x]
    BY <1>1, <1>2, <1>3, LimiterAssumption DEF Counted, Credited, OneMore, Sound
<1>7. \A x \in no : have[x] >= Limit
    BY <1>1, <1>3, LimiterAssumption DEF Counted, Credited, OneMore, Sound
<1> QED BY <1>1, <1>2, <1>3, <1>4, <1>5, <1>6, <1>7 DEF Sound

\* Refusing a key that had its Limit events keeps the counts sound.
LEMMA RefuseIsSound ==
    ASSUME NEW c, NEW got, NEW gone, NEW no, Sound(c, got, gone, no),
           NEW k \in Callers, NEW kept \in Room(c, k), kept[k] >= Limit
    PROVE  Sound(kept, got, gone \cup {v \in Callers : c[v] > 0 /\ kept[v] = 0}, no \cup {k})
<1>1. /\ c \in [Callers -> 0..Limit] /\ Cardinality(Present(c)) <= MaxKeys
      /\ got \in [Callers -> 0..Enough]
      /\ gone \subseteq Callers /\ no \subseteq Callers
    BY DEF Sound
<1>2. /\ kept \in [Callers -> 0..Limit]
      /\ kept[k] = c[k]
      /\ \A x \in Callers : kept[x] = c[x] \/ (kept[x] = 0 /\ c[x] > 0)
      /\ Cardinality(Present(kept) \cup {k}) <= MaxKeys
    BY <1>1, RoomIsMade
<1>3. Present(kept) \cup {k} = Present(kept)
    BY <1>2, LimiterAssumption DEF Present
<1>4. \A x \in Callers : kept[x] <= got[x]
    BY <1>1, <1>2 DEF Sound
<1>5. \A x \in no \cup {k} : got[x] >= Limit
    BY <1>1, <1>2, <1>4, LimiterAssumption DEF Sound
<1> QED BY <1>1, <1>2, <1>3, <1>4, <1>5 DEF Sound

\* A call opens a window or leaves the age alone.
LEMMA OpenedAge == ASSUME LimiterInv, NEW kept, Opened(kept) PROVE age' \in 0..Window
BY InvIsSound, LimiterAssumption DEF Opened

\* The initial state is sound.
LEMMA InitInv == Init => LimiterInv
BY EmptyIsSound, InvIsSound, LimiterAssumption DEF Init

\* Every step of the limiter keeps it sound.
LEMMA StepInv == LimiterInv /\ [Next]_vars => LimiterInv'
<1> SUFFICES ASSUME LimiterInv, [Next]_vars PROVE LimiterInv'
    OBVIOUS
<1> SUFFICES age' \in 0..Window /\ Sound(counts', admitted', evicted', refused')
    BY DEF LimiterInv, TypeOK, MapIsBounded, OwnBudgetOnly, Sound, Present
<1>0. age \in 0..Window /\ Sound(counts, admitted, evicted, refused)
    BY InvIsSound
<1>1. CASE Tick
    BY <1>0, <1>1, LimiterAssumption DEF Tick
<1>2. ASSUME NEW k \in Callers, Admit(k)
      PROVE  age' \in 0..Window /\ Sound(counts', admitted', evicted', refused')
    <2>1. PICK kept \in Room(Base(counts, NoEvents), k) :
              /\ kept[k] < Limit
              /\ counts' = [kept EXCEPT ![k] = @ + 1]
              /\ admitted' = [Base(admitted, NoEvents) EXCEPT ![k] = OneMore(@)]
              /\ refused' = Base(refused, {})
              /\ Opened(kept)
        BY <1>2 DEF Admit
    <2> DEFINE c    == Base(counts, NoEvents)
               got  == Base(admitted, NoEvents)
               gone == Base(evicted, {})
               no   == Base(refused, {})
    <2>2. Sound(c, got, gone, no)
        BY BaseIsSound
    <2>3. /\ kept \in Room(c, k) /\ kept[k] < Limit
          /\ counts' = Counted(kept, k)
          /\ admitted' = Credited(got, k)
          /\ refused' = no
          /\ evicted' = gone \cup {v \in Callers : c[v] > 0 /\ kept[v] = 0}
        BY <2>1 DEF Opened, Counted, Credited
    <2> HIDE DEF c, got, gone, no
    <2>4. Sound(counts', admitted', evicted', refused')
        BY <2>2, <2>3, AdmitIsSound
    <2> QED BY <2>1, <2>4, OpenedAge
<1>3. ASSUME NEW k \in Callers, Refuse(k)
      PROVE  age' \in 0..Window /\ Sound(counts', admitted', evicted', refused')
    <2>1. PICK kept \in Room(Base(counts, NoEvents), k) :
              /\ kept[k] >= Limit
              /\ counts' = kept
              /\ admitted' = Base(admitted, NoEvents)
              /\ refused' = Base(refused, {}) \cup {k}
              /\ Opened(kept)
        BY <1>3 DEF Refuse
    <2>2. Sound(counts', admitted', evicted', refused')
        BY <2>1, BaseIsSound, RefuseIsSound DEF Opened
    <2> QED BY <2>1, <2>2, OpenedAge
<1>4. CASE UNCHANGED vars
    BY <1>0, <1>4 DEF vars
<1> QED BY <1>1, <1>2, <1>3, <1>4 DEF Next

\* The counts of the limiter are sound in every reachable state.
THEOREM LimiterIsSound == Spec => []LimiterInv
BY InitInv, StepInv, PTL DEF Spec

\* The variables keep their types.
THEOREM LimiterTypes == Spec => []TypeOK
<1>1. LimiterInv => TypeOK
    BY DEF LimiterInv
<1> QED BY <1>1, LimiterIsSound, PTL

\* The memory of a limiter is bounded whatever keys call it (maxLimiterKeys).
THEOREM LimiterMemory == Spec => []MapIsBounded
<1>1. LimiterInv => MapIsBounded
    BY DEF LimiterInv
<1> QED BY <1>1, LimiterIsSound, PTL

\* A key that was not forgotten gets at most Limit events in a window.
THEOREM LimiterLimits == Spec => []WithinLimit
<1>1. LimiterInv => WithinLimit
    BY LimiterAssumption DEF LimiterInv, WithinLimit, TypeOK
<1> QED BY <1>1, LimiterIsSound, PTL

\* No key loses its budget to the events of another one.
THEOREM LimiterIsolates == Spec => []OwnBudgetOnly
<1>1. LimiterInv => OwnBudgetOnly
    BY DEF LimiterInv
<1> QED BY <1>1, LimiterIsSound, PTL
=============================================================================
