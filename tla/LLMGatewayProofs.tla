--------------------------- MODULE LLMGatewayProofs ---------------------------
(***************************************************************************)
(* Every place and every slot of the gateway is given back once, and what  *)
(* an account consumes beyond its quota is bounded: proofs for any number  *)
(* of requests, accounts and days.                                         *)
(***************************************************************************)
EXTENDS LLMGateway, FiniteSetTheorems, TLAPS

\* The requests that hold a place of an account, and those that hold a slot.
Inside  == {"entered", "waiting", "relayed", "answered", "recorded"}
Relayed == {"relayed", "answered", "recorded"}
Placed(a) == Of(a) \cap In(Inside)

\* The requests of an account that passed the check of a day and may still be counted.
Pending(a, d) ==
    {r \in Of(a) : day[r] = d /\ pc[r] \in {"checked", "entered", "waiting", "relayed", "answered"}}

\* The bound of a day: the quota, a request of each goroutine, and what was erased.
Limit(a, d) == Most(a) + erased[a][d]

\* Nothing is counted on a day to come, and the stored count, or that of a copy, is
\* never more than what was consumed on the day it is of.
PastOnly ==
    /\ \A r \in Requests : day[r] <= today
    /\ \A a \in Principals :
        /\ usedDay[a] <= today
        /\ \A d \in 0..MaxDay : d > today => counted[a][d] = 0
        /\ used[a] <= counted[a][usedDay[a]]
    /\ \A x \in copies : x.day <= today /\ x.tokens <= counted[x.account][x.day]

\* What the pending requests of a day may still add fits the bound, as the check of
\* the last of them saw less than the quota.
RoomForPending ==
    \A a \in Principals \ straddled :
        /\ counted[a][today] <= Today(a, today) + erased[a][today]
        /\ \A d \in 0..MaxDay :
              counted[a][d] + Cardinality(Pending(a, d)) * MaxCost <= Limit(a, d)

\* The inductive invariant.
GatewayIInv == GatewayInv /\ PastOnly /\ RoomForPending

-------------------------------------------------------------------------------
(* Counting. *)

LEMMA Products ==
  /\ \A c, n \in Nat : n * c \in Nat /\ (n + 1) * c = n * c + c
  /\ \A c, m, n \in Nat : m <= n => m * c <= n * c
<1>1. \A c, n \in Nat : n * c \in Nat /\ (n + 1) * c = n * c + c
  BY Z3
<1>2. ASSUME NEW c \in Nat, NEW m \in Nat, NEW n \in Nat, m <= n PROVE m * c <= n * c
  <2>1. n - m \in Nat /\ n = m + (n - m) BY <1>2
  <2>2. (m + (n - m)) * c = m * c + (n - m) * c BY <2>1, Z3
  <2>3. (n - m) * c \in Nat /\ m * c \in Nat BY <1>1, <2>1
  <2> QED BY <2>1, <2>2, <2>3
<1> QED BY <1>1, <1>2

\* Fewer of the same cost fit where more did.
LEMMA FewerFit ==
  ASSUME NEW c \in Nat, NEW m \in Nat, NEW n \in Nat, m <= n,
         NEW x \in Int, NEW y \in Int, x + n * c <= y
  PROVE  x + m * c <= y
<1>1. m * c <= n * c /\ m * c \in Nat /\ n * c \in Nat BY Products
<1> QED BY <1>1

\* What is counted is a finite set.
LEMMA FiniteParts ==
  /\ IsFiniteSet(Requests)
  /\ \A S : S \subseteq Requests => IsFiniteSet(S) /\ Cardinality(S) \in Nat
BY GatewayAssumption, FS_Subset, FS_CardinalityType

\* A request that comes in or leaves changes a count by one, if it was not, or was, in.
LEMMA OneMore ==
  ASSUME NEW S, NEW T, NEW r, S \subseteq Requests, r \notin S, T = S \cup {r}
  PROVE  Cardinality(T) = Cardinality(S) + 1
BY FiniteParts, FS_AddElement

LEMMA OneLess ==
  ASSUME NEW S, NEW T, NEW r, S \subseteq Requests, r \in S, T = S \ {r}
  PROVE  Cardinality(S) = Cardinality(T) + 1
<1>1. T \subseteq Requests /\ r \notin T /\ S = T \cup {r} OBVIOUS
<1> QED BY <1>1, OneMore

LEMMA Smaller ==
  ASSUME NEW S, NEW T, S \subseteq Requests, T \subseteq S
  PROVE  Cardinality(T) <= Cardinality(S)
BY FiniteParts, FS_Subset

-------------------------------------------------------------------------------
(* Places and slots. *)

States == {"idle", "checked", "entered", "waiting", "relayed", "answered", "recorded"}

\* A request that stays inside, or outside, keeps the count of its account.
LEMMA SamePlaces ==
  ASSUME TypeOK, InFlightIsExact, NEW r \in Requests, NEW to \in States,
         pc' = [pc EXCEPT ![r] = to], pc[r] \in Inside <=> to \in Inside, inflight' = inflight
  PROVE  InFlightIsExact'
<1>1. \A a : Placed(a)' = Placed(a)
  BY DEF TypeOK, Placed, Of, In
<1> QED BY <1>1 DEF InFlightIsExact, Placed, Inside

\* enter takes a place...
LEMMA PlaceTaken ==
  ASSUME TypeOK, InFlightIsExact, NEW r \in Requests, Enter(r)
  PROVE  InFlightIsExact' /\ inflight' \in [Principals -> 0..Parallel]
<1> DEFINE b == Account[r]
<1>1. b \in Principals BY DEF Principals
<1>2. Placed(b)' = Placed(b) \cup {r} /\ r \notin Placed(b) /\ Placed(b) \subseteq Requests
  BY DEF Enter, Goto, TypeOK, Placed, Of, In, Inside
<1>3. Cardinality(Placed(b)') = Cardinality(Placed(b)) + 1 BY <1>2, OneMore
<1>4. \A a \in Principals \ {b} : Placed(a)' = Placed(a)
  BY DEF Enter, Goto, TypeOK, Placed, Of, In, Inside
<1>5. \A a \in Principals : inflight'[a] = IF a = b THEN inflight[a] + 1 ELSE inflight[a]
  BY <1>1 DEF Enter, TypeOK
<1>6. \A a \in Principals : inflight'[a] = Cardinality(Placed(a)')
  BY <1>3, <1>4, <1>5 DEF InFlightIsExact, Placed, Inside
<1>7. inflight' \in [Principals -> 0..Parallel]
  <2>1. inflight \in [Principals -> 0..Parallel] BY DEF TypeOK
  <2> QED BY <2>1, <1>1, GatewayAssumption DEF Enter
<1> QED BY <1>6, <1>7 DEF InFlightIsExact, Placed, Inside

\* ...and leave gives it back.
LEMMA PlaceGivenBack ==
  ASSUME TypeOK, InFlightIsExact, NEW r \in Requests, pc[r] \in Inside, Leave(r)
  PROVE  InFlightIsExact' /\ inflight' \in [Principals -> 0..Parallel]
<1> DEFINE b == Account[r]
<1>1. b \in Principals BY DEF Principals
<1>2. Placed(b)' = Placed(b) \ {r} /\ r \in Placed(b) /\ Placed(b) \subseteq Requests
  BY DEF Leave, TypeOK, Placed, Of, In, Inside
<1>3. Cardinality(Placed(b)) = Cardinality(Placed(b)') + 1 /\ Cardinality(Placed(b)') \in Nat
  BY <1>2, OneLess, FiniteParts
<1>4. \A a \in Principals \ {b} : Placed(a)' = Placed(a)
  BY DEF Leave, TypeOK, Placed, Of, In, Inside
<1>5. \A a \in Principals : inflight'[a] = IF a = b THEN inflight[a] - 1 ELSE inflight[a]
  BY <1>1 DEF Leave, TypeOK
<1>6. \A a \in Principals : inflight[a] = Cardinality(Placed(a))
  BY DEF InFlightIsExact, Placed, Inside
<1>7. \A a \in Principals : inflight'[a] = Cardinality(Placed(a)')
  BY <1>3, <1>4, <1>5, <1>6
<1>8. inflight[b] \in 1..Parallel BY <1>1, <1>3, <1>6, GatewayAssumption DEF TypeOK
<1>9. inflight' \in [Principals -> 0..Parallel]
  <2>1. inflight \in [Principals -> 0..Parallel] BY DEF TypeOK
  <2> QED BY <2>1, <1>1, <1>8, GatewayAssumption DEF Leave
<1> QED BY <1>7, <1>9 DEF InFlightIsExact, Placed, Inside

LEMMA SameSlots ==
  ASSUME TypeOK, SlotsAreExact, NEW r \in Requests, NEW to \in States,
         pc' = [pc EXCEPT ![r] = to], pc[r] \in Relayed <=> to \in Relayed, slots' = slots
  PROVE  SlotsAreExact'
<1>1. In(Relayed)' = In(Relayed)
  BY DEF TypeOK, In
<1> QED BY <1>1 DEF SlotsAreExact, Relayed

LEMMA SlotTaken ==
  ASSUME TypeOK, SlotsAreExact, NEW r \in Requests, TakeSlot(r)
  PROVE  SlotsAreExact' /\ slots' \in 0..Slots
<1>1. In(Relayed)' = In(Relayed) \cup {r} /\ r \notin In(Relayed) /\ In(Relayed) \subseteq Requests
  BY DEF TakeSlot, Goto, TypeOK, In, Relayed
<1>2. Cardinality(In(Relayed)') = Cardinality(In(Relayed)) + 1 BY <1>1, OneMore
<1> QED BY <1>2, GatewayAssumption DEF SlotsAreExact, Relayed, TakeSlot, TypeOK

LEMMA SlotGivenBack ==
  ASSUME TypeOK, SlotsAreExact, NEW r \in Requests, pc[r] \in Relayed, Leave(r), slots' = slots - 1
  PROVE  SlotsAreExact' /\ slots' \in 0..Slots
<1>1. In(Relayed)' = In(Relayed) \ {r} /\ r \in In(Relayed) /\ In(Relayed) \subseteq Requests
  BY DEF Leave, TypeOK, In, Relayed
<1>2. Cardinality(In(Relayed)) = Cardinality(In(Relayed)') + 1 /\ Cardinality(In(Relayed)') \in Nat
  BY <1>1, OneLess, FiniteParts
<1> QED BY <1>2, GatewayAssumption DEF SlotsAreExact, Relayed, TypeOK

-------------------------------------------------------------------------------
(* The quota. *)

LEMMA MostIsInteger == \A a : Most(a) \in Int /\ Most(a) = Quota - 1 + Cardinality(Of(a)) * MaxCost
<1> SUFFICES ASSUME NEW a PROVE Most(a) \in Int BY DEF Most
<1>1. Cardinality(Of(a)) \in Nat BY FiniteParts DEF Of
<1> QED BY <1>1, Products, GatewayAssumption DEF Most

LEMMA LimitIsInteger ==
  ASSUME TypeOK, NEW a \in Principals, NEW d \in 0..MaxDay
  PROVE  Limit(a, d) \in Int /\ erased[a][d] \in Nat /\ counted[a][d] \in Nat
<1>1. erased[a][d] \in Nat /\ counted[a][d] \in Nat BY GatewayAssumption DEF TypeOK
<1> QED BY <1>1, MostIsInteger DEF Limit

\* What is stored of today is a number.
LEMMA TodayIsNatural ==
  ASSUME TypeOK, NEW a \in Principals, NEW d
  PROVE  Today(a, d) \in Nat
BY GatewayAssumption DEF TypeOK, Today

\* A step that counts nothing and adds no pending request keeps the room.
LEMMA FewerPending ==
  ASSUME TypeOK, RoomForPending, UNCHANGED <<today, usage>>,
         \A a \in Principals, d \in 0..MaxDay : Pending(a, d)' \subseteq Pending(a, d)
  PROVE  RoomForPending'
<1> SUFFICES ASSUME NEW a \in Principals \ straddled, NEW d \in 0..MaxDay
             PROVE  counted[a][d] + Cardinality(Pending(a, d)') * MaxCost <= Limit(a, d)
  BY DEF RoomForPending, Today, usage, Limit, Most, Of
<1>1. Pending(a, d)' \subseteq Pending(a, d) /\ Pending(a, d) \subseteq Requests BY DEF Pending, Of
<1>2. /\ Cardinality(Pending(a, d)') \in Nat /\ Cardinality(Pending(a, d)) \in Nat
      /\ Cardinality(Pending(a, d)') <= Cardinality(Pending(a, d))
  BY <1>1, FiniteParts, Smaller
<1>3. counted[a][d] \in Nat /\ MaxCost \in Nat BY GatewayAssumption DEF TypeOK
<1>4. counted[a][d] + Cardinality(Pending(a, d)) * MaxCost <= Limit(a, d) BY DEF RoomForPending
<1> QED BY <1>2, <1>3, <1>4, LimitIsInteger, FewerFit

\* The check of a request sees less than the quota: whatever is pending then fits.
LEMMA CheckedFits ==
  ASSUME TypeOK, RoomForPending, NEW r \in Requests, Check(r)
  PROVE  RoomForPending'
<1> DEFINE b == Account[r]
<1>1. b \in Principals BY DEF Principals
<1>2. UNCHANGED <<today, usedDay, used, counted, erased, straddled>> BY DEF Check, usage
<1> SUFFICES ASSUME NEW a \in Principals \ straddled, NEW d \in 0..MaxDay
             PROVE  counted[a][d] + Cardinality(Pending(a, d)') * MaxCost <= Limit(a, d)
  BY <1>2 DEF RoomForPending, Today, Limit, Most, Of
<1>3. counted[a][d] \in Nat BY GatewayAssumption DEF TypeOK
<1>4. CASE a = b /\ d = today
  <2>1. counted[a][d] <= Quota - 1 + erased[a][d]
    <3>1. counted[a][today] <= Today(a, today) + erased[a][today] BY DEF RoomForPending
    <3>2. Today(a, today) < Quota BY <1>4 DEF Check, UnderQuota
    <3> QED BY <3>1, <3>2, <1>3, <1>4, LimitIsInteger, TodayIsNatural, GatewayAssumption
  <2>2. Pending(a, d)' \subseteq Of(a) /\ Of(a) \subseteq Requests BY DEF Pending, Of
  <2>3. /\ Cardinality(Pending(a, d)') \in Nat /\ Cardinality(Of(a)) \in Nat
        /\ Cardinality(Pending(a, d)') <= Cardinality(Of(a))
    BY <2>2, FiniteParts, Smaller
  <2>4. counted[a][d] + Cardinality(Of(a)) * MaxCost <= Limit(a, d)
    <3>1. Cardinality(Of(a)) * MaxCost \in Nat BY <2>3, Products, GatewayAssumption
    <3> QED BY <1>3, <2>1, <3>1, LimitIsInteger, GatewayAssumption DEF Limit, Most
  <2> QED BY <1>3, <2>3, <2>4, LimitIsInteger, FewerFit, GatewayAssumption
<1>5. CASE ~(a = b /\ d = today)
  <2>1. Pending(a, d)' \subseteq Pending(a, d)
    BY <1>5 DEF Pending, Of, Check, Goto, TypeOK
  <2>2. Pending(a, d) \subseteq Requests BY DEF Pending, Of
  <2>3. /\ Cardinality(Pending(a, d)') \in Nat /\ Cardinality(Pending(a, d)) \in Nat
        /\ Cardinality(Pending(a, d)') <= Cardinality(Pending(a, d))
    BY <2>1, <2>2, FiniteParts, Smaller
  <2>4. counted[a][d] + Cardinality(Pending(a, d)) * MaxCost <= Limit(a, d) BY DEF RoomForPending
  <2> QED BY <1>3, <2>3, <2>4, LimitIsInteger, FewerFit, GatewayAssumption
<1> QED BY <1>4, <1>5

\* What is recorded was pending: the count grows by what the pending requests lose.
LEMMA RecordedFits ==
  ASSUME TypeOK, PastOnly, RoomForPending, NEW r \in Requests, Record(r)
  PROVE  RoomForPending'
<1> DEFINE b == Account[r]
           e == day[r]
<1>1. b \in Principals /\ e \in 0..MaxDay /\ cost[r] \in 0..MaxCost BY DEF Principals, TypeOK
<1>2. SUFFICES ASSUME NEW a \in Principals \ straddled'
      PROVE  /\ counted'[a][today] <= Today(a, today)' + erased[a][today]
             /\ \A d \in 0..MaxDay : counted'[a][d] + Cardinality(Pending(a, d)') * MaxCost <= Limit(a, d)
  BY DEF RoomForPending, Record, Limit, Most, Of
<1>3. a \in Principals \ straddled BY <1>2 DEF Record
<1>4. counted'[a] = IF a = b THEN [counted[b] EXCEPT ![e] = @ + cost[r]] ELSE counted[a]
  BY <1>1, <1>3 DEF Record, TypeOK
<1>5. a = b => e = today BY <1>2, <1>3 DEF Record
<1>6. today \in 0..MaxDay /\ today' = today BY DEF TypeOK, Record
<1>7. counted'[a][today] <= Today(a, today)' + erased[a][today]
  <2>1. counted[a][today] <= Today(a, today) + erased[a][today] BY <1>3 DEF RoomForPending
  <2>2. CASE a = b
    <3>1. used'[a] = Base(a, e) + cost[r] /\ usedDay'[a] = e
      BY <2>2, <1>1 DEF Record, TypeOK
    <3>2. Today(a, today)' = Today(a, today) + cost[r]
      BY <3>1, <2>2, <1>5, <1>6 DEF Base, Today
    <3>3. counted'[a][today] = counted[a][today] + cost[r] BY <1>4, <1>5, <2>2, <1>1 DEF TypeOK
    <3> QED BY <2>1, <3>2, <3>3, <1>1, <1>3, <1>6, LimitIsInteger, TodayIsNatural, GatewayAssumption
  <2>3. CASE a # b
    <3>1. used'[a] = used[a] /\ usedDay'[a] = usedDay[a] /\ counted'[a] = counted[a]
      BY <2>3, <1>3, <1>4 DEF Record, TypeOK
    <3> QED BY <3>1, <2>1, <1>6 DEF Today
  <2> QED BY <2>2, <2>3
<1>8. ASSUME NEW d \in 0..MaxDay
      PROVE  counted'[a][d] + Cardinality(Pending(a, d)') * MaxCost <= Limit(a, d)
  <2>1. counted[a][d] \in Nat /\ MaxCost \in Nat BY <1>3, GatewayAssumption DEF TypeOK
  <2>2. Pending(a, d) \subseteq Requests BY DEF Pending, Of
  <2>3. counted[a][d] + Cardinality(Pending(a, d)) * MaxCost <= Limit(a, d) BY <1>3 DEF RoomForPending
  <2>4. CASE a = b /\ d = e
    <3>1. r \in Pending(a, d) /\ Pending(a, d)' = Pending(a, d) \ {r}
      BY <2>4 DEF Record, Goto, Pending, Of, TypeOK
    <3>2. /\ Cardinality(Pending(a, d)) = Cardinality(Pending(a, d)') + 1
          /\ Cardinality(Pending(a, d)') \in Nat
      BY <3>1, <2>2, OneLess, FiniteParts
    <3>3. /\ Cardinality(Pending(a, d)) * MaxCost = Cardinality(Pending(a, d)') * MaxCost + MaxCost
          /\ Cardinality(Pending(a, d)') * MaxCost \in Nat
      BY <3>2, <2>1, Products
    <3>4. counted'[a][d] = counted[a][d] + cost[r] BY <1>4, <1>1, <1>3, <2>4 DEF TypeOK
    <3> QED BY <3>3, <3>4, <2>1, <2>3, <1>1, LimitIsInteger, <1>3
  <2>5. CASE ~(a = b /\ d = e)
    <3>1. counted'[a][d] = counted[a][d] BY <1>4, <1>1, <1>3, <2>5 DEF TypeOK
    <3>2. Pending(a, d)' \subseteq Pending(a, d)
      BY <2>5 DEF Record, Goto, Pending, Of, TypeOK
    <3>3. /\ Cardinality(Pending(a, d)') \in Nat /\ Cardinality(Pending(a, d)) \in Nat
          /\ Cardinality(Pending(a, d)') <= Cardinality(Pending(a, d))
      BY <3>2, <2>2, FiniteParts, Smaller
    <3> QED BY <3>1, <3>3, <2>1, <2>3, LimitIsInteger, <1>3, FewerFit
  <2> QED BY <2>4, <2>5
<1> QED BY <1>2, <1>7, <1>8, <1>6

\* A day that begins has nothing counted yet.
LEMMA NewDay ==
  ASSUME TypeOK, PastOnly, RoomForPending, Midnight
  PROVE  RoomForPending'
<1> SUFFICES ASSUME NEW a \in Principals \ straddled
             PROVE  counted[a][today + 1] <= Today(a, today + 1) + erased[a][today + 1]
  BY DEF RoomForPending, Midnight, usage, Today, Pending, Limit, Most, Of
<1>1. today + 1 \in 0..MaxDay /\ today + 1 > today BY GatewayAssumption DEF TypeOK, Midnight
<1>2. counted[a][today + 1] = 0 BY <1>1 DEF PastOnly
<1> QED BY <1>1, <1>2, LimitIsInteger, TodayIsNatural

\* A record that is read is not ahead of what was counted.
LEMMA CopiesChange ==
  ASSUME GatewayIInv,
         \/ \E w \in Writers, a \in Principals : ReadAccount(w, a) \/ ReadAccountFails(w, a)
         \/ \E x \in copies : DropCopy(x)
  PROVE  GatewayIInv'
<1> USE DEF GatewayIInv, GatewayInv
<1>1. UNCHANGED <<requests, usedDay, used, counted, erased, straddled>>
  BY DEF ReadAccount, ReadAccountFails, DropCopy
<1>2. 0 \in 0..MaxDay /\ 0 \in 0..MaxTotal /\ today \in Nat BY GatewayAssumption DEF TypeOK
<1>3. /\ copies' \subseteq [by : Writers, account : Principals, day : 0..MaxDay, tokens : 0..MaxTotal]
      /\ \A x \in copies' : x.day <= today /\ x.tokens <= counted[x.account][x.day]
  <2>1. ASSUME NEW w \in Writers, NEW a \in Principals, ReadAccount(w, a)
        PROVE  copies' = copies \cup {Copy(w, a, usedDay[a], used[a])}
    BY <2>1 DEF ReadAccount
  <2>2. ASSUME NEW w \in Writers, NEW a \in Principals, ReadAccountFails(w, a)
        PROVE  copies' = copies \cup {Copy(w, a, 0, 0)} /\ counted[a][0] \in Nat
    BY <2>2, <1>2, LimitIsInteger DEF ReadAccountFails
  <2>3. ASSUME NEW x \in copies, DropCopy(x) PROVE copies' \subseteq copies
    BY <2>3 DEF DropCopy
  <2> QED BY <2>1, <2>2, <2>3, <1>2 DEF TypeOK, PastOnly, Copy
<1>4. TypeOK' BY <1>1, <1>3 DEF TypeOK, requests
<1>5. PastOnly' BY <1>1, <1>3 DEF PastOnly, requests
<1>6. RoomForPending' BY <1>1 DEF RoomForPending, Today, Pending, Limit, Most, Of, requests
<1>7. InFlightIsExact' /\ SlotsAreExact'
  BY <1>1 DEF InFlightIsExact, SlotsAreExact, In, Of, requests
<1> QED BY <1>4, <1>5, <1>6, <1>7

\* A record that is written back erases at most what the count of today loses.
LEMMA RecordErased ==
  ASSUME GatewayIInv, NEW x \in copies, WriteAccount(x)
  PROVE  GatewayIInv'
<1> USE DEF GatewayIInv, GatewayInv
<1> DEFINE b == x.account
           left == IF x.day = today THEN x.tokens ELSE 0
           lost == IF left < Today(b, today) THEN Today(b, today) - left ELSE 0
<1>1. UNCHANGED <<requests, counted, straddled>> /\ copies' \subseteq copies BY DEF WriteAccount
<1>2. b \in Principals /\ x.day \in 0..MaxDay /\ x.tokens \in 0..MaxTotal /\ today \in 0..MaxDay
  BY DEF TypeOK
<1>3. /\ left \in Nat /\ lost \in Nat /\ Today(b, today) \in Nat
      /\ Today(b, today) <= left + lost
  BY <1>2, TodayIsNatural, GatewayAssumption
<1>4. /\ used'[b] = x.tokens /\ usedDay'[b] = x.day
      /\ \A a \in Principals \ {b} : used'[a] = used[a] /\ usedDay'[a] = usedDay[a]
  BY <1>2 DEF WriteAccount, TypeOK
<1>5. erased' = [erased EXCEPT ![b] = [erased[b] EXCEPT ![today] = erased[b][today] + lost]]
  BY <1>2 DEF WriteAccount, TypeOK
<1>6. /\ erased[b][today] + lost <= MaxTotal
      /\ \A a \in Principals, d \in 0..MaxDay :
           erased'[a][d] = IF a = b /\ d = today THEN erased[b][today] + lost ELSE erased[a][d]
  <2>1. erased \in [Principals -> [0..MaxDay -> 0..MaxTotal]] BY DEF TypeOK
  <2>2. \A a \in Principals, d \in 0..MaxDay :
           erased'[a][d] = IF a = b /\ d = today THEN erased[b][today] + lost ELSE erased[a][d]
    BY <1>2, <1>5, <2>1
  <2>3. erased'[b][today] <= MaxTotal BY DEF WriteAccount
  <2> QED BY <1>2, <2>2, <2>3
<1>7. TypeOK'
  <2>1. erased[b][today] + lost \in 0..MaxTotal
    BY <1>2, <1>3, <1>6, LimitIsInteger, GatewayAssumption
  <2>2. erased' \in [Principals -> [0..MaxDay -> 0..MaxTotal]]
    <3> HIDE DEF lost
    <3> QED BY <1>2, <1>5, <2>1 DEF TypeOK
  <2>3. used' \in [Principals -> 0..MaxTotal] /\ usedDay' \in [Principals -> 0..MaxDay]
    BY <1>2 DEF WriteAccount, TypeOK
  <2> QED BY <1>1, <2>2, <2>3 DEF TypeOK, requests
<1>8. PastOnly' BY <1>1, <1>4 DEF PastOnly, requests
<1>9. RoomForPending'
  <2> SUFFICES ASSUME NEW a \in Principals \ straddled
               PROVE  /\ counted[a][today] <= Today(a, today)' + erased'[a][today]
                      /\ \A d \in 0..MaxDay :
                            counted[a][d] + Cardinality(Pending(a, d)) * MaxCost <= Limit(a, d)'
    BY <1>1 DEF RoomForPending, Pending, Of, requests
  <2>1. /\ counted[a][today] <= Today(a, today) + erased[a][today]
        /\ counted[a][today] \in Nat /\ erased[a][today] \in Nat /\ Today(a, today) \in Nat
    BY <1>2, LimitIsInteger, TodayIsNatural DEF RoomForPending
  <2>2. counted[a][today] <= Today(a, today)' + erased'[a][today]
    <3>1. CASE a = b
      <4>1. Today(a, today)' = left BY <3>1, <1>1, <1>4 DEF Today, requests
      <4>2. erased'[a][today] = erased[a][today] + lost BY <3>1, <1>2, <1>6
      <4> HIDE DEF left, lost
      <4> QED BY <3>1, <4>1, <4>2, <2>1, <1>3
    <3>2. CASE a # b
      <4>1. Today(a, today)' = Today(a, today) BY <3>2, <1>1, <1>4 DEF Today, requests
      <4> QED BY <3>2, <4>1, <2>1, <1>2, <1>6
    <3> QED BY <3>1, <3>2
  <2>3. ASSUME NEW d \in 0..MaxDay
        PROVE  counted[a][d] + Cardinality(Pending(a, d)) * MaxCost <= Limit(a, d)'
    <3>1. counted[a][d] + Cardinality(Pending(a, d)) * MaxCost <= Limit(a, d) BY DEF RoomForPending
    <3>2. erased[a][d] <= erased'[a][d] /\ erased'[a][d] \in Nat
      <4> HIDE DEF lost
      <4> QED BY <1>2, <1>3, <1>6, LimitIsInteger
    <3>3. Cardinality(Pending(a, d)) * MaxCost \in Nat
      <4>1. Pending(a, d) \subseteq Requests BY DEF Pending, Of
      <4> QED BY <4>1, FiniteParts, Products, GatewayAssumption
    <3>4. Limit(a, d)' = Most(a) + erased'[a][d] BY DEF Limit, Most, Of
    <3> QED BY <3>1, <3>2, <3>3, <3>4, LimitIsInteger, MostIsInteger DEF Limit
  <2> QED BY <2>2, <2>3
<1>10. InFlightIsExact' /\ SlotsAreExact'
  BY <1>1 DEF InFlightIsExact, SlotsAreExact, In, Of, requests
<1> QED BY <1>7, <1>8, <1>9, <1>10

-------------------------------------------------------------------------------
(* The steps. *)

\* A step of a request that neither checks nor records.
LEMMA QuietStep ==
  ASSUME GatewayIInv, NEW r \in Requests, NEW to \in States, UNCHANGED <<today, usage>>,
         pc' = [pc EXCEPT ![r] = to],
         to = "checked" => pc[r] = "checked",
         to \in {"entered", "waiting", "relayed", "answered"}
            => pc[r] \in {"checked", "entered", "waiting", "relayed"},
         \/ day' = day
         \/ to = "idle" /\ day' = [day EXCEPT ![r] = 0],
         InFlightIsExact', SlotsAreExact', inflight' \in [Principals -> 0..Parallel],
         slots' \in 0..Slots, cost' \in [Requests -> 0..MaxCost]
  PROVE  GatewayIInv'
<1> USE DEF GatewayIInv, GatewayInv
<1>1. \A a \in Principals, d \in 0..MaxDay : Pending(a, d)' \subseteq Pending(a, d)
  BY DEF Pending, Of, TypeOK
<1>2. RoomForPending' BY <1>1, FewerPending
<1>3. /\ day' \in [Requests -> 0..MaxDay] /\ \A q \in Requests : day'[q] = day[q] \/ day'[q] = 0
  <2>1. CASE day' = day BY <2>1 DEF TypeOK
  <2>2. CASE day' = [day EXCEPT ![r] = 0]
    <3>1. 0 \in 0..MaxDay /\ day \in [Requests -> 0..MaxDay] BY GatewayAssumption DEF TypeOK
    <3> QED BY <2>2, <3>1
  <2> QED BY <2>1, <2>2
<1>4. pc' \in [Requests -> States] BY DEF TypeOK, States
<1>5. TypeOK' BY <1>3, <1>4 DEF TypeOK, usage, States
<1>6. PastOnly'
  <2>1. today \in Nat BY GatewayAssumption DEF TypeOK
  <2> QED BY <1>3, <2>1 DEF PastOnly, usage
<1> QED BY <1>2, <1>5, <1>6

LEMMA GatewayInit == Init => GatewayIInv
<1> SUFFICES ASSUME Init PROVE GatewayIInv OBVIOUS
<1> USE DEF Init
<1>1. TypeOK BY GatewayAssumption DEF TypeOK, Principals
<1>2. InFlightIsExact
  <2>1. \A a : Placed(a) = {} BY DEF Placed, In, Inside
  <2> QED BY <2>1, FS_EmptySet DEF InFlightIsExact, Placed, Inside
<1>3. SlotsAreExact
  <2>1. In(Relayed) = {} BY DEF In, Relayed
  <2> QED BY <2>1, FS_EmptySet DEF SlotsAreExact, Relayed
<1>4. PastOnly BY GatewayAssumption DEF PastOnly
<1>5. RoomForPending
  <2> SUFFICES ASSUME NEW a \in Principals, NEW d \in 0..MaxDay
               PROVE  counted[a][d] + Cardinality(Pending(a, d)) * MaxCost <= Limit(a, d)
    BY GatewayAssumption DEF RoomForPending, Today
  <2>1. Pending(a, d) = {} BY DEF Pending, Of
  <2>2. Cardinality(Pending(a, d)) = 0 BY <2>1, FS_EmptySet
  <2>3. Cardinality(Of(a)) \in Nat BY FiniteParts DEF Of
  <2>4. Cardinality(Of(a)) * MaxCost \in Nat /\ 0 * MaxCost = 0 BY <2>3, Products, GatewayAssumption
  <2> QED BY <2>2, <2>4, GatewayAssumption DEF Limit, Most
<1> QED BY <1>1, <1>2, <1>3, <1>4, <1>5 DEF GatewayIInv, GatewayInv

LEMMA GatewayNext == GatewayIInv /\ [Next]_vars => GatewayIInv'
<1> SUFFICES ASSUME GatewayIInv, [Next]_vars PROVE GatewayIInv' OBVIOUS
<1> USE DEF GatewayIInv, GatewayInv
<1>1. ASSUME NEW r \in Requests, Check(r) PROVE GatewayIInv'
  <2>1. pc' = [pc EXCEPT ![r] = "checked"] /\ pc[r] = "idle" BY <1>1 DEF Check, Goto
  <2>2. InFlightIsExact' BY <2>1, <1>1, SamePlaces DEF Check, States, Inside
  <2>3. SlotsAreExact' BY <2>1, <1>1, SameSlots DEF Check, States, Relayed
  <2>4. TypeOK' BY <1>1, <2>1 DEF TypeOK, Check, usage
  <2>5. PastOnly' BY <1>1 DEF PastOnly, Check, usage, TypeOK
  <2>6. RoomForPending' BY <1>1, CheckedFits
  <2> QED BY <2>2, <2>3, <2>4, <2>5, <2>6
<1>2. ASSUME NEW r \in Requests, TakeSlot(r) PROVE GatewayIInv'
  <2>1. pc' = [pc EXCEPT ![r] = "relayed"] /\ pc[r] = "waiting" BY <1>2 DEF TakeSlot, Goto
  <2>2. InFlightIsExact' BY <2>1, <1>2, SamePlaces DEF TakeSlot, States, Inside
  <2>3. SlotsAreExact' /\ slots' \in 0..Slots BY <1>2, SlotTaken
  <2> QED BY <2>1, <2>2, <2>3, <1>2, QuietStep DEF TakeSlot, States, TypeOK
<1>3. ASSUME NEW r \in Requests, Enter(r) PROVE GatewayIInv'
  <2>1. pc' = [pc EXCEPT ![r] = "entered"] /\ pc[r] = "checked" BY <1>3 DEF Enter, Goto
  <2>2. SlotsAreExact' BY <2>1, <1>3, SameSlots DEF Enter, States, Relayed
  <2>3. InFlightIsExact' /\ inflight' \in [Principals -> 0..Parallel] BY <1>3, PlaceTaken
  <2> QED BY <2>1, <2>2, <2>3, <1>3, QuietStep DEF Enter, States, TypeOK
<1>4. ASSUME NEW r \in Requests, EnterRefused(r) PROVE GatewayIInv'
  <2>1. pc' = [pc EXCEPT ![r] = "idle"] /\ pc[r] = "checked" BY <1>4 DEF EnterRefused, Goto
  <2>2. SlotsAreExact' BY <2>1, <1>4, SameSlots DEF EnterRefused, States, Relayed
  <2>3. InFlightIsExact' BY <2>1, <1>4, SamePlaces DEF EnterRefused, States, Inside
  <2> QED BY <2>1, <2>2, <2>3, <1>4, QuietStep DEF EnterRefused, States, TypeOK
<1>5. ASSUME NEW r \in Requests, Accept(r) PROVE GatewayIInv'
  <2>1. pc' = [pc EXCEPT ![r] = "waiting"] /\ pc[r] = "entered" BY <1>5 DEF Accept, Goto
  <2>2. SlotsAreExact' BY <2>1, <1>5, SameSlots DEF Accept, States, Relayed
  <2>3. InFlightIsExact' BY <2>1, <1>5, SamePlaces DEF Accept, States, Inside
  <2> QED BY <2>1, <2>2, <2>3, <1>5, QuietStep DEF Accept, States, TypeOK
<1>6. ASSUME NEW r \in Requests, NEW n \in 0..MaxCost, Answered(r, n) PROVE GatewayIInv'
  <2>1. pc' = [pc EXCEPT ![r] = "answered"] /\ pc[r] = "relayed" BY <1>6 DEF Answered, Goto
  <2>2. SlotsAreExact' BY <2>1, <1>6, SameSlots DEF Answered, States, Relayed
  <2>3. InFlightIsExact' BY <2>1, <1>6, SamePlaces DEF Answered, States, Inside
  <2>4. cost' \in [Requests -> 0..MaxCost] BY <1>6 DEF Answered, TypeOK
  <2> QED BY <2>1, <2>2, <2>3, <2>4, <1>6, QuietStep DEF Answered, States, TypeOK
\* A request leaves, without a slot or with one.
<1>7. ASSUME NEW r \in Requests, Leave(r), UNCHANGED <<today, usage>>,
             \/ pc[r] \in {"entered", "waiting"} /\ slots' = slots
             \/ pc[r] \in Relayed /\ slots' = slots - 1
      PROVE  GatewayIInv'
  <2>1. pc' = [pc EXCEPT ![r] = "idle"] /\ pc[r] \in Inside BY <1>7 DEF Leave, Inside, Relayed
  <2>2. InFlightIsExact' /\ inflight' \in [Principals -> 0..Parallel]
    BY <1>7, <2>1, PlaceGivenBack
  <2>3. SlotsAreExact' /\ slots' \in 0..Slots
    <3>1. CASE pc[r] \in Relayed /\ slots' = slots - 1 BY <3>1, <1>7, SlotGivenBack
    <3>2. CASE pc[r] \in {"entered", "waiting"} /\ slots' = slots
      BY <3>2, <2>1, SameSlots DEF States, Relayed, TypeOK
    <3> QED BY <3>1, <3>2, <1>7
  <2>4. cost' \in [Requests -> 0..MaxCost] BY <1>7, GatewayAssumption DEF Leave, TypeOK
  <2> QED BY <2>1, <2>2, <2>3, <2>4, <1>7, QuietStep DEF Leave, States
<1>8. ASSUME NEW r \in Requests, Record(r) PROVE GatewayIInv'
  <2>1. pc' = [pc EXCEPT ![r] = "recorded"] /\ pc[r] = "answered" BY <1>8 DEF Record, Goto
  <2>2. SlotsAreExact' BY <2>1, <1>8, SameSlots DEF Record, States, Relayed
  <2>3. InFlightIsExact' BY <2>1, <1>8, SamePlaces DEF Record, States, Inside
  <2>4. RoomForPending' BY <1>8, RecordedFits
  <2> DEFINE b == Account[r]
             e == day[r]
  <2>5. b \in Principals /\ e \in 0..MaxDay /\ e <= today /\ cost[r] \in 0..MaxCost
    BY DEF Principals, TypeOK, PastOnly
  <2>6. counted' = [counted EXCEPT ![b] = [counted[b] EXCEPT ![e] = counted[b][e] + cost[r]]]
    BY <1>8, <2>5 DEF Record, TypeOK
  <2>7. counted'[b][e] = counted[b][e] + cost[r] /\ counted'[b][e] <= MaxTotal
    <3>1. counted[b] \in [0..MaxDay -> 0..MaxTotal] /\ DOMAIN counted = Principals BY <2>5 DEF TypeOK
    <3>2. counted'[b][e] = counted[b][e] + cost[r] BY <3>1, <2>5, <2>6
    <3> QED BY <3>2, <1>8 DEF Record
  <2>8. Base(b, e) \in Nat /\ Base(b, e) <= counted[b][e]
    <3>1. used[b] \in Nat /\ counted[b][e] \in Nat
      BY <2>5, LimitIsInteger, GatewayAssumption DEF TypeOK
    <3>2. used[b] <= counted[b][usedDay[b]] BY <2>5 DEF PastOnly
    <3> QED BY <3>1, <3>2 DEF Base
  <2>9. used'[b] = Base(b, e) + cost[r] /\ used'[b] \in 0..MaxTotal /\ used'[b] <= counted'[b][e]
    <3>1. used'[b] = Base(b, e) + cost[r] BY <1>8, <2>5 DEF Record, TypeOK
    <3>2. counted[b][e] \in Nat /\ cost[r] \in Nat /\ MaxTotal \in Nat
      BY <2>5, GatewayAssumption DEF TypeOK
    <3> QED BY <3>1, <3>2, <2>7, <2>8
  <2>10. TypeOK'
    <3>1. used' \in [Principals -> 0..MaxTotal] BY <1>8, <2>5, <2>9 DEF Record, TypeOK
    <3>2. usedDay' \in [Principals -> 0..MaxDay] BY <1>8, <2>5 DEF Record, TypeOK
    <3>3. counted[b][e] + cost[r] \in 0..MaxTotal
      BY <2>5, <2>7, LimitIsInteger, GatewayAssumption
    <3>4. counted' \in [Principals -> [0..MaxDay -> 0..MaxTotal]] BY <2>5, <2>6, <3>3 DEF TypeOK
    <3>5. straddled' \subseteq Principals BY <1>8, <2>5 DEF Record, TypeOK
    <3> QED BY <3>1, <3>2, <3>4, <3>5, <1>8, <2>1 DEF Record, TypeOK
  <2>11. PastOnly'
    <3>1. \A q \in Requests : day'[q] <= today'
      <4>1. \A q \in Requests : day[q] <= today BY DEF PastOnly
      <4> QED BY <4>1, <1>8 DEF Record
    <3>2. ASSUME NEW a \in Principals
          PROVE  /\ usedDay'[a] <= today'
                 /\ \A d \in 0..MaxDay : d > today' => counted'[a][d] = 0
                 /\ used'[a] <= counted'[a][usedDay'[a]]
      <4>1. CASE a = b
        <5>1. usedDay'[a] = e BY <4>1, <1>8, <2>5 DEF Record, TypeOK
        <5>2. \A d \in 0..MaxDay : d > today => counted'[a][d] = 0
          BY <4>1, <2>5, <2>6 DEF PastOnly, TypeOK
        <5> QED BY <4>1, <5>1, <5>2, <2>5, <2>9, <1>8 DEF Record
      <4>2. CASE a # b
        <5>1. usedDay'[a] = usedDay[a] /\ used'[a] = used[a] /\ counted'[a] = counted[a]
          BY <4>2, <1>8, <2>6 DEF Record, TypeOK
        <5> QED BY <5>1, <1>8 DEF Record, PastOnly
      <4> QED BY <4>1, <4>2
    <3>3. ASSUME NEW x \in copies' PROVE x.day <= today' /\ x.tokens <= counted'[x.account][x.day]
      <4>1. x \in copies /\ today' = today BY <1>8 DEF Record
      <4>2. /\ x.account \in Principals /\ x.day \in 0..MaxDay /\ x.tokens \in Nat
            /\ x.day <= today /\ x.tokens <= counted[x.account][x.day]
        BY <4>1, GatewayAssumption DEF TypeOK, PastOnly
      <4>3. counted[x.account][x.day] <= counted'[x.account][x.day]
        <5>1. counted[x.account][x.day] \in Nat /\ counted[b][e] \in Nat /\ cost[r] \in Nat
          BY <4>2, <2>5, LimitIsInteger
        <5>2. CASE x.account = b /\ x.day = e BY <5>1, <5>2, <2>7
        <5>3. CASE ~(x.account = b /\ x.day = e)
          <6>1. counted'[x.account][x.day] = counted[x.account][x.day]
            <7>1. counted \in [Principals -> [0..MaxDay -> 0..MaxTotal]] BY DEF TypeOK
            <7> QED BY <5>3, <2>5, <2>6, <4>2, <7>1
          <6> QED BY <6>1, <5>1
        <5> QED BY <5>2, <5>3
      <4>4. counted[x.account][x.day] \in Nat /\ counted'[x.account][x.day] \in Nat
        <5>1. counted' \in [Principals -> [0..MaxDay -> 0..MaxTotal]] BY <2>10 DEF TypeOK
        <5> QED BY <4>2, <5>1, LimitIsInteger, GatewayAssumption
      <4> QED BY <4>1, <4>2, <4>3, <4>4
    <3> QED BY <3>1, <3>2, <3>3 DEF PastOnly
  <2> QED BY <2>2, <2>3, <2>4, <2>10, <2>11
<1>9. ASSUME NEW r \in Requests, RecordFails(r) PROVE GatewayIInv'
  <2>1. pc' = [pc EXCEPT ![r] = "recorded"] /\ pc[r] = "answered" BY <1>9 DEF RecordFails, Goto
  <2>2. SlotsAreExact' BY <2>1, <1>9, SameSlots DEF RecordFails, States, Relayed
  <2>3. InFlightIsExact' BY <2>1, <1>9, SamePlaces DEF RecordFails, States, Inside
  <2> QED BY <2>1, <2>2, <2>3, <1>9, QuietStep DEF RecordFails, States, TypeOK
<1>10. ASSUME Midnight PROVE GatewayIInv'
  <2>1. RoomForPending' BY <1>10, NewDay
  <2>2. TypeOK'
    <3>1. today' \in 0..MaxDay BY <1>10, GatewayAssumption DEF Midnight, TypeOK
    <3> QED BY <3>1, <1>10 DEF Midnight, TypeOK, usage
  <2>3. PastOnly' BY <1>10, GatewayAssumption DEF Midnight, PastOnly, usage, TypeOK
  <2>4. InFlightIsExact' /\ SlotsAreExact'
    BY <1>10 DEF Midnight, InFlightIsExact, SlotsAreExact, In, Of
  <2> QED BY <2>1, <2>2, <2>3, <2>4
<1>11. CASE UNCHANGED vars
  <2>1. TypeOK' /\ PastOnly' BY <1>11 DEF vars, usage, TypeOK, PastOnly
  <2>2. InFlightIsExact' /\ SlotsAreExact'
    BY <1>11 DEF vars, InFlightIsExact, SlotsAreExact, In, Of
  <2>3. RoomForPending' BY <1>11 DEF vars, usage, RoomForPending, Of, Pending, Today, Limit, Most
  <2> QED BY <2>1, <2>2, <2>3
<1>12. ASSUME NEW r \in Requests, GoOn(r) PROVE GatewayIInv'
  <2>1. CASE BadRequest(r) BY <2>1, <1>7 DEF BadRequest
  <2>2. CASE GiveUp(r) BY <2>2, <1>7 DEF GiveUp
  <2>3. CASE Fails(r) BY <2>3, <1>7 DEF Fails, Relayed
  <2>4. CASE Reply(r) BY <2>4, <1>7 DEF Reply, Relayed
  <2> QED BY <1>12, <1>3, <1>4, <1>5, <1>6, <1>8, <1>9, <2>1, <2>2, <2>3, <2>4 DEF GoOn
<1> QED BY <1>1, <1>2, <1>10, <1>11, <1>12, CopiesChange, RecordErased DEF Next

\* Whichever way a request ends, and in whatever order, its place and its slot are
\* given back once; and the strengthening holds.
THEOREM GatewayIsSound == Spec => []GatewayIInv
<1> QED BY GatewayInit, GatewayNext, PTL DEF Spec

\* The places taken are those of the requests between enter and leave, the slots
\* those of the requests that were relayed.
THEOREM PlacesAreGivenBack == Spec => []GatewayInv
<1>1. GatewayIInv => GatewayInv BY DEF GatewayIInv
<1> QED BY <1>1, GatewayIsSound, PTL

\* The quota is checked before a request and counted after it: beyond the quota goes
\* at most what the goroutines that serve the account consume in one request each, and
\* what stale records erased; the stored count lacks no more than that.
THEOREM OvershootIsBounded == Spec => []QuotaOvershootIsBounded
<1>1. GatewayIInv => QuotaOvershootIsBounded
  <2> SUFFICES ASSUME GatewayIInv, NEW a \in Principals \ straddled
               PROVE  /\ \A d \in 0..MaxDay : counted[a][d] <= Limit(a, d)
                      /\ Today(a, today) <= counted[a][today]
                      /\ counted[a][today] <= Today(a, today) + erased[a][today]
    BY DEF QuotaOvershootIsBounded, Limit
  <2>0. TypeOK /\ today \in 0..MaxDay BY DEF GatewayIInv, GatewayInv, TypeOK
  <2>1. ASSUME NEW d \in 0..MaxDay PROVE counted[a][d] <= Limit(a, d)
    <3>1. Pending(a, d) \subseteq Requests BY DEF Pending, Of
    <3>2. Cardinality(Pending(a, d)) * MaxCost \in Nat
      BY <3>1, FiniteParts, Products, GatewayAssumption
    <3>3. counted[a][d] + Cardinality(Pending(a, d)) * MaxCost <= Limit(a, d)
      BY DEF GatewayIInv, RoomForPending
    <3> QED BY <2>0, <3>2, <3>3, LimitIsInteger
  <2>2. Today(a, today) <= counted[a][today]
    BY <2>0, LimitIsInteger DEF GatewayIInv, PastOnly, Today
  <2>3. counted[a][today] <= Today(a, today) + erased[a][today]
    BY DEF GatewayIInv, RoomForPending
  <2> QED BY <2>1, <2>2, <2>3
<1> QED BY <1>1, GatewayIsSound, PTL
===============================================================================
