--------------------------- MODULE DeviceLoginProofs ---------------------------
(***************************************************************************)
(* The pending requests stay bounded and their two maps agree, a login     *)
(* never yields two tokens, and an approval in time is not reported as     *)
(* expired: proofs for any number of logins, machines, accounts and codes. *)
(***************************************************************************)
EXTENDS DeviceLogin, FiniteSetTheorems, TLAPS

States  == {"absent", "waiting", "approved", "denied"}
Places  == {"none", "sent", "issuing", "done"}
Replies == {"none", "invalid_grant", "expired_token", "access_denied",
            "authorization_pending", "slow_down", "refused", "token"}
Ends    == {"idle", "waiting", "polling", "token", "denied", "expired", "error"}

\* The inductive form of MapsAgree: the code of a pending request is a code.
PairedInv == \A l \in Live : codeOf[l] \in Codes

MapsInv == TypeOK /\ MapsAgree /\ PairedInv /\ PendingIsBounded /\ OneTokenPerMachine

-------------------------------------------------------------------------------
(* The types. *)

LEMMA Delivery == \A r \in Deliveries : r[1] \in Logins /\ r[2] \in {1, 2} /\ r = <<r[1], r[2]>>
BY DEF Deliveries

LEMMA PacedTime == \A n \in Nat : Paced(n) \in Times
BY DeviceAssumption DEF Paced, Times

\* What deleting requests leaves behind.
LEMMA DeleteTypes ==
  ASSUME TypeOK, NEW gone, Delete(gone)
  PROVE  /\ codeOf' \in [Logins -> Codes \cup {None}] /\ byUser' \in [Codes -> Logins \cup {None}]
         /\ status' \in [Logins -> States] /\ userKey' \in [Logins -> Accounts \cup {None}]
         /\ UNCHANGED <<machine, expires, pace, lastPoll>>
BY DEF TypeOK, Delete, States

LEMMA RegisterTypes ==
  ASSUME TypeOK, NEW l \in Logins, NEW u \in Codes, Register(l, u), now + TTL + Interval <= MaxTime
  PROVE  /\ codeOf' \in [Logins -> Codes \cup {None}] /\ byUser' \in [Codes -> Logins \cup {None}]
         /\ status' \in [Logins -> States] /\ userKey' \in [Logins -> Accounts \cup {None}]
         /\ expires' \in [Logins -> Times] /\ pace' \in [Logins -> Times]
         /\ lastPoll' \in [Logins -> Times] /\ machine' = machine
<1>1. now + TTL \in Times /\ Interval \in Times /\ 0 \in Times /\ now + Interval \in Times
  BY DeviceAssumption DEF TypeOK, Times
<1> QED BY <1>1 DEF TypeOK, Register, States

LEMMA FinishTypes ==
  ASSUME TypeOK, NEW r \in Deliveries, NEW what \in Replies, Finish(r, what)
  PROVE  /\ poll' \in [Deliveries -> Places] /\ grant' \in [Deliveries -> Accounts \cup {None}]
         /\ reply' \in [Logins -> Replies] /\ late' \subseteq Logins
BY Delivery DEF TypeOK, Finish, Answer, OnTime, Places, Replies

LEMMA FaultTypes == ASSUME TypeOK, Fault PROVE faults' \in 0..MaxFaults
BY DeviceAssumption DEF TypeOK, Fault

LEMMA TypeStart ==
  ASSUME TypeOK, NEW l \in Logins, NEW u \in Codes, Start(l, u) \/ StartLost(l, u)
  PROVE  TypeOK'
<1>1. now + TTL + Interval <= MaxTime /\ Register(l, u) BY DEF Start, StartLost
<1>2. now + TTL \in Times /\ Interval \in Times /\ now + Interval \in Times
  BY <1>1, DeviceAssumption DEF TypeOK, Times
<1>3. CASE Start(l, u)
  BY <1>1, <1>2, <1>3, RegisterTypes DEF Start, TypeOK, States, server, ghosts
<1>4. CASE StartLost(l, u)
  BY <1>1, <1>4, RegisterTypes, FaultTypes DEF StartLost, TypeOK, States, server, ghosts
<1> QED BY <1>3, <1>4

LEMMA TypeRefused ==
  ASSUME TypeOK, NEW l \in Logins, StartRefused(l)
  PROVE  TypeOK'
<1>1. Delete(Overdue) BY DEF StartRefused
<1> QED BY <1>1, DeleteTypes DEF StartRefused, TypeOK, States, server, ghosts

LEMMA TypeServe ==
  ASSUME TypeOK, NEW r \in Deliveries, Serve(r)
  PROVE  TypeOK'
<1> DEFINE l == r[1]
<1>0. l \in Logins BY Delivery
<1>1. UNCHANGED <<now, tokens, client, ghosts, faults>> BY DEF Serve
<1>2. CASE PollEnds(r, l)
  <2>1. CASE Finish(r, "invalid_grant") /\ UNCHANGED grants
    BY <1>1, <2>1, FinishTypes DEF TypeOK, grants, client, ghosts, Places, Replies
  <2>2. ASSUME NEW what \in Replies, Finish(r, what), Delete({l}) PROVE TypeOK'
    BY <1>1, <2>2, FinishTypes, DeleteTypes DEF TypeOK, client, ghosts, Places, Replies, States
  <2> QED BY <1>2, <2>1, <2>2 DEF PollEnds, Replies
<1>3. CASE PollWaits(r, l)
  <2>1. \E what \in Replies : Finish(r, what) BY <1>3 DEF PollWaits, Replies
  <2>2. pace' \in [Logins -> Times]
    <3>1. Paced(pace[l] + Interval) \in Times BY <1>0, PacedTime, DeviceAssumption DEF TypeOK, Times
    <3> QED BY <1>0, <1>3, <3>1 DEF PollWaits, TypeOK
  <2>3. lastPoll' \in [Logins -> Times] BY <1>0, <1>3 DEF PollWaits, TypeOK
  <2> QED BY <1>1, <1>3, <2>1, <2>2, <2>3, FinishTypes
          DEF PollWaits, TypeOK, client, ghosts, Places, Replies
<1>4. CASE Take(r, l)
  <2>1. poll' \in [Deliveries -> Places] BY <1>4 DEF Take, TypeOK, Places
  <2>2. grant' \in [Deliveries -> Accounts \cup {None}] BY <1>0, <1>4 DEF Take, TypeOK
  <2> QED BY <1>1, <1>4, <2>1, <2>2, DeleteTypes DEF Take, OnTime, TypeOK, client, ghosts, Places, States
<1> QED BY <1>2, <1>3, <1>4 DEF Serve

LEMMA TypeHub ==
  ASSUME TypeOK, NEW r \in Deliveries, Issue(r) \/ IssueRefused(r) \/ IssueFails(r)
  PROVE  TypeOK'
<1>0. r[1] \in Logins BY Delivery
<1>1. CASE Issue(r)
  <2>1. tokens' \in [Accounts -> SUBSET Logins] BY <1>0, <1>1 DEF Issue, Others, TypeOK
  <2>2. handed' \in [Logins -> Nat] BY <1>0, <1>1 DEF Issue, TypeOK
  <2> QED BY <1>1, <2>1, <2>2, FinishTypes DEF Issue, TypeOK, grants, client, Places, Replies
<1>2. CASE IssueRefused(r)
  BY <1>2, FinishTypes DEF IssueRefused, TypeOK, grants, client, ghosts, Places, Replies
<1>3. CASE IssueFails(r)
  BY <1>3, FinishTypes, FaultTypes DEF IssueFails, TypeOK, grants, client, ghosts, Places, Replies
<1> QED BY <1>1, <1>2, <1>3

LEMMA TypeCLI ==
  ASSUME TypeOK, NEW l \in Logins, CLI(l)
  PROVE  TypeOK'
<1>0. <<l, 1>> \in Deliveries BY DEF Deliveries
<1>1. CASE SendPoll(l)
  BY <1>0, <1>1 DEF SendPoll, OnTime, TypeOK, grants, ghosts
<1>2. CASE Receive(l)
  <2>1. wait' \in [Logins -> Times] /\ wake' \in [Logins -> Times]
    <3>1. CASE reply[l] \in {"authorization_pending", "slow_down"}
      <4>1. wait' = [wait EXCEPT ![l] = Paced(IF reply[l] = "slow_down" THEN wait[l] + Interval ELSE wait[l])]
        BY <1>2, <3>1 DEF Receive
      <4>2. wait' \in [Logins -> Times] BY <4>1, PacedTime, DeviceAssumption DEF TypeOK, Times
      <4>3. wake' = [wake EXCEPT ![l] = Paced(now + wait'[l])] BY <1>2, <3>1 DEF Receive
      <4>4. Paced(now + wait'[l]) \in Times BY <4>2, PacedTime DEF TypeOK, Times
      <4> QED BY <4>2, <4>3, <4>4 DEF TypeOK
    <3> QED BY <1>2, <3>1 DEF Receive, TypeOK
  <2>2. cli' \in [Logins -> Ends]
    <3>1. CASE reply[l] \in {"authorization_pending", "slow_down"} BY <1>2, <3>1 DEF Receive, TypeOK, Ends
    <3>2. CASE reply[l] \notin {"authorization_pending", "slow_down"}
      <4>1. Ended(reply[l]) \in Ends BY <1>2, <3>2 DEF Receive, TypeOK, Ends, Ended
      <4> QED BY <1>2, <3>2, <4>1 DEF Receive, TypeOK, Ends
    <3> QED BY <3>1, <3>2
  <2>3. UNCHANGED <<now, grants, tokens, server, deadline, ghosts, faults>>
        /\ reply' = [reply EXCEPT ![l] = "none"] /\ late' = late \ {l}
    BY <1>2 DEF Receive, OnTime
  <2> QED BY <2>1, <2>2, <2>3 DEF TypeOK, grants, server, ghosts, Ends
<1>3. CASE GiveUp(l)
  BY <1>3 DEF GiveUp, OnTime, TypeOK, grants, server, ghosts
<1>4. CASE Disconnect(l)
  BY <1>4, FaultTypes DEF Disconnect, OnTime, TypeOK, grants, server, ghosts
<1> QED BY <1>1, <1>2, <1>3, <1>4 DEF CLI

LEMMA TypeBrowser ==
  ASSUME TypeOK, Browser
  PROVE  TypeOK'
<1>1. ASSUME NEW a \in Accounts, NEW u \in Codes, NEW approve \in BOOLEAN, Decide(u, a, approve)
      PROVE  TypeOK'
  <2> DEFINE l == byUser[u]
  <2>0. l \in Logins BY <1>1 DEF Decide, TypeOK
  <2>1. Record(l, a, approve) BY <1>1 DEF Decide
  <2>2. decided' \in [Logins -> [by : Accounts \cup {None}, approve : BOOLEAN, at : Times]]
    BY <2>0, <2>1 DEF Record, TypeOK
  <2>3. status' \in [Logins -> States] /\ userKey' \in [Logins -> Accounts \cup {None}]
    BY <2>0, <2>1 DEF Record, TypeOK, States
  <2> QED BY <2>1, <2>2, <2>3 DEF Record, TypeOK, States, server, client
<1>2. ASSUME NEW a \in Accounts, NEW l \in Logins, Revoke(a, l) PROVE TypeOK'
  BY <1>2 DEF Revoke, TypeOK, grants, server, client, ghosts
<1> QED BY <1>1, <1>2 DEF Browser

LEMMA TypeRest ==
  ASSUME TypeOK, Restart \/ Tick \/ \E l \in Logins : Duplicate(l)
  PROVE  TypeOK'
<1>1. CASE Restart
  <2>1. Delete(Live) /\ Fault BY <1>1 DEF Restart
  <2>2. poll' \in [Deliveries -> Places] /\ grant' \in [Deliveries -> Accounts \cup {None}]
    BY <1>1 DEF Restart, TypeOK, Places
  <2>3. cli' \in [Logins -> Ends] BY <1>1 DEF Restart, TypeOK, Ends
  <2>4. late' \subseteq Logins BY <1>1 DEF Restart, TypeOK
  <2>5. UNCHANGED <<now, tokens, reply, wake, wait, deadline, ghosts>> BY <1>1 DEF Restart
  <2> QED BY <2>1, <2>2, <2>3, <2>4, <2>5, DeleteTypes, FaultTypes
          DEF TypeOK, ghosts, Places, States, Ends
<1>2. CASE Tick
  <2>1. now' \in Times BY <1>2, DeviceAssumption DEF Tick, TypeOK, Times
  <2> QED BY <1>2, <2>1 DEF Tick, TypeOK, grants, server, client, ghosts
<1>3. ASSUME NEW l \in Logins, Duplicate(l) PROVE TypeOK'
  <2>1. <<l, 2>> \in Deliveries BY DEF Deliveries
  <2> QED BY <1>3, <2>1, FaultTypes DEF Duplicate, TypeOK, grants, client, ghosts
<1> QED BY <1>1, <1>2, <1>3

LEMMA TypeInit == Init => TypeOK
<1> SUFFICES ASSUME Init PROVE TypeOK OBVIOUS
<1>1. Interval \in Times /\ 0 \in Times /\ 0 \in 0..MaxFaults BY DeviceAssumption DEF Times
<1>2. Undecided \in [by : Accounts \cup {None}, approve : BOOLEAN, at : Times]
  BY <1>1 DEF Undecided
<1> QED BY <1>1, <1>2 DEF Init, TypeOK

LEMMA TypeNext == TypeOK /\ [Next]_vars => TypeOK'
<1> SUFFICES ASSUME TypeOK, [Next]_vars PROVE TypeOK' OBVIOUS
<1>1. CASE UNCHANGED vars BY <1>1 DEF vars, TypeOK, grants, server, client, ghosts
<1>2. ASSUME NEW l \in Logins,
             (\E u \in Codes : Start(l, u) \/ StartLost(l, u)) \/ StartRefused(l) \/ CLI(l)
      PROVE  TypeOK'
  BY <1>2, TypeStart, TypeRefused, TypeCLI
<1>3. CASE Hub BY <1>3, TypeServe, TypeHub DEF Hub
<1> QED BY <1>1, <1>2, <1>3, TypeBrowser, TypeRest DEF Next

-------------------------------------------------------------------------------
(* The maps of deviceFlows. *)

LEMMA FiniteLogins ==
  \A S : S \subseteq Logins => IsFiniteSet(S) /\ Cardinality(S) \in Nat
BY DeviceAssumption, FS_Subset, FS_CardinalityType

LEMMA FewerLogins ==
  ASSUME NEW S, NEW T, S \subseteq Logins, T \subseteq S, Cardinality(S) <= MaxPending
  PROVE  Cardinality(T) <= MaxPending
<1>1. Cardinality(T) <= Cardinality(S) /\ Cardinality(S) \in Nat /\ Cardinality(T) \in Nat
  BY FiniteLogins, FS_Subset
<1> QED BY <1>1, DeviceAssumption

\* Requests are deleted, or nothing is, and no new ones are made.
LEMMA MapsDelete ==
  ASSUME MapsInv, TypeOK', UNCHANGED tokens, NEW gone \in SUBSET Logins, Delete(gone)
  PROVE  MapsInv'
<1>1. Live' = Live \ gone BY DEF MapsInv, TypeOK, Delete, Live, States
<1>2. PendingIsBounded' BY <1>1, FewerLogins DEF MapsInv, PendingIsBounded, Live
<1>3. MapsAgree' /\ PairedInv'
  BY <1>1, DeviceAssumption DEF MapsInv, MapsAgree, PairedInv, Delete, TypeOK, Live
<1>4. OneTokenPerMachine' BY DEF MapsInv, OneTokenPerMachine, Delete
<1> QED BY <1>2, <1>3, <1>4 DEF MapsInv

LEMMA MapsKept ==
  ASSUME MapsInv, TypeOK', UNCHANGED <<codeOf, byUser, machine, tokens>>, Live' = Live
  PROVE  MapsInv'
BY DEF MapsInv, MapsAgree, PairedInv, PendingIsBounded, OneTokenPerMachine

\* A request is registered where the sweep left room, under a code no pending request has.
LEMMA MapsRegister ==
  ASSUME MapsInv, TypeOK', UNCHANGED tokens, NEW l \in Logins, NEW u \in Codes,
         status[l] = "absent", ~Full, Register(l, u)
  PROVE  MapsInv'
<1> DEFINE K == Live \ Overdue
<1>1. Live' = K \cup {l} /\ l \notin K
  BY DEF MapsInv, TypeOK, Register, Live, Overdue
<1>2. PendingIsBounded'
  <2>1. Cardinality(K \cup {l}) = Cardinality(K) + 1 BY <1>1, FiniteLogins, FS_AddElement DEF Live
  <2>2. Cardinality(K) \in Nat /\ Cardinality(K) < MaxPending
    BY FiniteLogins, DeviceAssumption DEF Full, Live
  <2> QED BY <1>1, <2>1, <2>2, DeviceAssumption DEF PendingIsBounded
<1>3. PairedInv' BY <1>1 DEF MapsInv, PairedInv, Register, TypeOK, Live
<1>4. MapsAgree'
  <2>1. \A k \in Live' : byUser'[codeOf'[k]] = k
    <3>1. codeOf'[l] = u /\ byUser'[u] = l BY DEF Register, MapsInv, TypeOK
    <3>2. ASSUME NEW k \in K PROVE byUser'[codeOf'[k]] = k
      <4>1. k \in Live /\ k \notin Overdue /\ k # l /\ codeOf'[k] = codeOf[k]
        BY <1>1, <3>2 DEF Register, MapsInv, TypeOK, Live
      <4>2. byUser[codeOf[k]] = k /\ codeOf[k] \in Codes BY <4>1 DEF MapsInv, MapsAgree, PairedInv
      <4>3. codeOf[k] # u BY <4>1, <4>2, DeviceAssumption DEF Register, Live
      <4> QED BY <4>1, <4>2, <4>3 DEF Register
    <3> QED BY <1>1, <3>1, <3>2
  <2>2. ASSUME NEW c \in Codes, byUser'[c] # None
        PROVE  byUser'[c] \in Live' /\ codeOf'[byUser'[c]] = c
    <3>1. CASE c = u BY <1>1, <3>1 DEF Register, MapsInv, TypeOK
    <3>2. CASE c # u
      <4>1. byUser'[c] = byUser[c] /\ byUser[c] # None /\ byUser[c] \notin Overdue
        BY <2>2, <3>2 DEF Register
      <4>2. byUser[c] \in K /\ codeOf[byUser[c]] = c BY <4>1 DEF MapsInv, MapsAgree
      <4>3. byUser[c] # l /\ byUser[c] \in Logins BY <1>1, <4>2 DEF Live
      <4> QED BY <1>1, <4>1, <4>2, <4>3 DEF Register
    <3> QED BY <3>1, <3>2
  <2> QED BY <2>1, <2>2 DEF MapsAgree
<1>5. OneTokenPerMachine' BY DEF MapsInv, OneTokenPerMachine, Register
<1> QED BY <1>2, <1>3, <1>4, <1>5 DEF MapsInv

\* A token takes the place of the one its machine had.
LEMMA MapsIssue ==
  ASSUME MapsInv, TypeOK', NEW r \in Deliveries, Issue(r)
  PROVE  MapsInv'
<1>1. Live' = Live BY DEF Issue, grants, Live
<1>2. OneTokenPerMachine'
  <2>1. ASSUME NEW a \in Accounts
        PROVE  tokens'[a] = tokens[a] \/ tokens'[a] = Others(a, r[1]) \cup {r[1]}
    <3>1. tokens \in [Accounts -> SUBSET Logins] BY DEF MapsInv, TypeOK
    <3>2. tokens' = [tokens EXCEPT ![grant[r]] = Others(grant[r], r[1]) \cup {r[1]}] BY DEF Issue
    <3>3. CASE a = grant[r] BY <3>1, <3>2, <3>3
    <3>4. CASE a # grant[r] BY <3>1, <3>2, <3>4
    <3> QED BY <3>3, <3>4
  <2>2. machine' = machine BY DEF Issue, grants
  <2> SUFFICES ASSUME NEW a \in Accounts, NEW j \in tokens'[a], NEW k \in tokens'[a],
                      machine[j] = machine[k]
               PROVE  j = k
    BY <2>2 DEF OneTokenPerMachine
  <2>3. CASE tokens'[a] = tokens[a] BY <2>3 DEF MapsInv, OneTokenPerMachine
  <2>4. CASE tokens'[a] = Others(a, r[1]) \cup {r[1]}
    <3>1. \A i \in Others(a, r[1]) : i \in tokens[a] /\ machine[i] # machine[r[1]] BY DEF Others
    <3> QED BY <2>4, <3>1 DEF MapsInv, OneTokenPerMachine
  <2> QED BY <2>1, <2>3, <2>4
<1> QED BY <1>1, <1>2 DEF MapsInv, MapsAgree, PairedInv, PendingIsBounded, Issue, grants

\* A login that has not started has no pending request.
FreshInv == \A l \in Logins : cli[l] = "idle" => status[l] = "absent"

LEMMA MapsNext == MapsInv /\ FreshInv /\ [Next]_vars => MapsInv'
<1> SUFFICES ASSUME MapsInv, FreshInv, [Next]_vars PROVE MapsInv' OBVIOUS
<1>0. TypeOK' BY TypeNext DEF MapsInv
<1>1. ASSUME UNCHANGED <<grants, tokens>> PROVE MapsInv'
  <2>1. Live' = Live BY <1>1 DEF grants, Live
  <2> QED BY <1>0, <1>1, <2>1, MapsKept DEF grants
<1>2. CASE UNCHANGED vars BY <1>1, <1>2 DEF vars
<1>3. ASSUME NEW l \in Logins, NEW u \in Codes, Start(l, u) \/ StartLost(l, u) PROVE MapsInv'
  <2>1. status[l] = "absent" BY <1>3 DEF FreshInv, Start, StartLost
  <2> QED BY <1>0, <1>3, <2>1, MapsRegister DEF Start, StartLost
<1>4. ASSUME NEW l \in Logins, StartRefused(l) PROVE MapsInv'
  BY <1>0, <1>4, MapsDelete DEF StartRefused, Overdue, Live
<1>5. ASSUME NEW l \in Logins, CLI(l) \/ Duplicate(l) PROVE MapsInv'
  BY <1>1, <1>5 DEF CLI, SendPoll, Receive, GiveUp, Disconnect, Duplicate
<1>6. ASSUME NEW r \in Deliveries, Serve(r) PROVE MapsInv'
  <2>0. {r[1]} \in SUBSET Logins BY Delivery
  <2>1. UNCHANGED tokens BY <1>6 DEF Serve
  <2>2. CASE PollEnds(r, r[1]) BY <1>0, <1>1, <2>0, <2>1, <2>2, MapsDelete DEF PollEnds
  <2>3. CASE PollWaits(r, r[1])
    <3>1. Live' = Live BY <2>3 DEF PollWaits, Live
    <3> QED BY <1>0, <2>1, <2>3, <3>1, MapsKept DEF PollWaits
  <2>4. CASE Take(r, r[1]) BY <1>0, <2>0, <2>1, <2>4, MapsDelete DEF Take
  <2> QED BY <1>6, <2>2, <2>3, <2>4 DEF Serve
<1>7. ASSUME NEW r \in Deliveries, Issue(r) PROVE MapsInv' BY <1>0, <1>7, MapsIssue
<1>8. ASSUME NEW r \in Deliveries, IssueRefused(r) \/ IssueFails(r) PROVE MapsInv'
  BY <1>1, <1>8 DEF IssueRefused, IssueFails
<1>9. ASSUME NEW a \in Accounts, NEW u \in Codes, NEW approve \in BOOLEAN, Decide(u, a, approve)
      PROVE  MapsInv'
  <2>1. byUser[u] \in Live /\ Record(byUser[u], a, approve) BY <1>9 DEF Decide, MapsInv, MapsAgree
  <2>2. Live' = Live BY <2>1 DEF Record, MapsInv, TypeOK, Live
  <2> QED BY <1>0, <2>1, <2>2, MapsKept DEF Record
<1>10. ASSUME NEW a \in Accounts, NEW l \in Logins, Revoke(a, l) PROVE MapsInv'
  <2>1. Live' = Live BY <1>10 DEF Revoke, grants, Live
  <2>2. \A b \in Accounts : tokens'[b] \subseteq tokens[b] BY <1>10 DEF Revoke, MapsInv, TypeOK
  <2>3. OneTokenPerMachine' BY <1>10, <2>2 DEF Revoke, grants, OneTokenPerMachine, MapsInv
  <2> QED BY <1>0, <1>10, <2>1, <2>3
          DEF Revoke, grants, MapsInv, MapsAgree, PairedInv, PendingIsBounded
<1>11. CASE Restart BY <1>0, <1>11, MapsDelete DEF Restart, Live
<1>12. CASE Tick BY <1>1, <1>12 DEF Tick
<1> QED BY <1>2, <1>3, <1>4, <1>5, <1>6, <1>7, <1>8, <1>9, <1>10, <1>11, <1>12
        DEF Next, Hub, Browser

-------------------------------------------------------------------------------
(* One decision, one grant, one token. *)

Issuing(l) == {i \in {1, 2} : poll[<<l, i>>] = "issuing"}

\* What is known of a login: nothing before it starts, one request that carries its
\* grant or one token after it was approved.
Decided(l) ==
    /\ cli[l] = "idle" =>
        /\ status[l] = "absent" /\ handed[l] = 0 /\ decided[l] = Undecided
        /\ \A i \in {1, 2} : poll[<<l, i>>] = "none"
    /\ handed[l] <= 1
    /\ status[l] # "absent" => handed[l] = 0 /\ \A i \in {1, 2} : poll[<<l, i>>] # "issuing"
    /\ status[l] = "waiting" => decided[l] = Undecided
    /\ status[l] = "approved" =>
        userKey[l] \in Accounts /\ decided[l].approve /\ decided[l].by = userKey[l]
    /\ poll[<<l, 1>>] = "issuing" => poll[<<l, 2>>] # "issuing"
    /\ \A i \in {1, 2} :
        IF poll[<<l, i>>] = "issuing"
        THEN /\ handed[l] = 0
             /\ grant[<<l, i>>] \in Accounts
             /\ decided[l].approve /\ decided[l].by = grant[<<l, i>>]
        ELSE grant[<<l, i>>] = None

TokensInv == \A a \in Accounts : \A l \in tokens[a] : decided[l].approve /\ decided[l].by = a

DecisionInv == TokensInv /\ \A l \in Logins : Decided(l)

LEMMA FreshLogins == DecisionInv => FreshInv
BY DEF DecisionInv, Decided, FreshInv

\* Nothing that Decided looks at changes, except that the request may be swept.
LEMMA DecidedKept ==
  ASSUME TypeOK, NEW l \in Logins, Decided(l),
         cli'[l] = cli[l] \/ (cli[l] # "idle" /\ cli'[l] # "idle"),
         handed'[l] = handed[l], decided'[l] = decided[l],
         (status'[l] = status[l] /\ userKey'[l] = userKey[l]) \/ status'[l] = "absent",
         \A i \in {1, 2} : poll'[<<l, i>>] = poll[<<l, i>>] /\ grant'[<<l, i>>] = grant[<<l, i>>]
  PROVE  Decided(l)'
BY DEF Decided

\* A request gets off the hub without a grant, or reaches it.
LEMMA DecidedMoves ==
  ASSUME TypeOK, NEW l \in Logins, Decided(l), cli[l] # "idle", cli'[l] # "idle",
         handed'[l] = handed[l], decided'[l] = decided[l],
         (status'[l] = status[l] /\ userKey'[l] = userKey[l]) \/ status'[l] = "absent",
         \A i \in {1, 2} :
            \/ poll'[<<l, i>>] = poll[<<l, i>>] /\ grant'[<<l, i>>] = grant[<<l, i>>]
            \/ poll'[<<l, i>>] # "issuing" /\ grant'[<<l, i>>] = None
  PROVE  Decided(l)'
BY DEF Decided

LEMMA DecisionStart ==
  ASSUME TypeOK, DecisionInv, NEW l \in Logins, NEW u \in Codes, Start(l, u) \/ StartLost(l, u)
  PROVE  DecisionInv'
<1>0. Register(l, u) /\ cli[l] = "idle" /\ cli'[l] # "idle"
      /\ UNCHANGED <<tokens, poll, grant, handed, decided>>
      /\ \A k \in Logins \ {l} : cli'[k] = cli[k]
  BY DEF Start, StartLost, server, ghosts, TypeOK
<1>1. Decided(l)'
  <2>1. status'[l] = "waiting" /\ userKey' \in [Logins -> Accounts \cup {None}]
    BY <1>0 DEF Register, TypeOK
  <2> QED BY <1>0, <2>1 DEF DecisionInv, Decided
<1>2. ASSUME NEW k \in Logins \ {l} PROVE Decided(k)'
  <2>1. (status'[k] = status[k] /\ userKey'[k] = userKey[k]) \/ status'[k] = "absent"
    BY <1>0 DEF Register, TypeOK
  <2> QED BY <1>0, <2>1, DecidedKept DEF DecisionInv
<1> QED BY <1>0, <1>1, <1>2 DEF DecisionInv, TokensInv

LEMMA DecisionRefused ==
  ASSUME TypeOK, DecisionInv, NEW l \in Logins, StartRefused(l)
  PROVE  DecisionInv'
<1>1. UNCHANGED <<tokens, poll, grant, handed, decided>> BY DEF StartRefused, server, ghosts
<1>2. ASSUME NEW k \in Logins PROVE Decided(k)'
  <2>1. (status'[k] = status[k] /\ userKey'[k] = userKey[k]) \/ status'[k] = "absent"
    BY DEF StartRefused, Delete, TypeOK
  <2>2. CASE k = l
    <3>1. status'[l] = "absent" /\ cli'[l] = "error" /\ decided[l] = Undecided
      <4>1. cli[l] = "idle" /\ cli' = [cli EXCEPT ![l] = "error"] BY DEF StartRefused
      <4>2. status[l] = "absent" /\ decided[l] = Undecided BY <4>1 DEF DecisionInv, Decided
      <4> QED BY <4>1, <4>2, <2>1, <2>2 DEF TypeOK
    <3> QED BY <1>1, <2>2, <3>1 DEF DecisionInv, Decided
  <2>3. CASE k # l
    <3>1. cli'[k] = cli[k] BY <2>3 DEF StartRefused, TypeOK
    <3> QED BY <1>1, <2>1, <3>1, DecidedKept DEF DecisionInv
  <2> QED BY <2>2, <2>3
<1> QED BY <1>1, <1>2 DEF DecisionInv, TokensInv

\* Nothing is served for a login that has not started.
LEMMA Started ==
  ASSUME TypeOK, DecisionInv, NEW r \in Deliveries, poll[r] # "none"
  PROVE  cli[r[1]] # "idle"
<1>1. r[1] \in Logins /\ r[2] \in {1, 2} /\ poll[<<r[1], r[2]>>] # "none" BY Delivery
<1>2. Decided(r[1]) BY <1>1 DEF DecisionInv
<1>3. cli[r[1]] = "idle" => \A i \in {1, 2} : poll[<<r[1], i>>] = "none" BY <1>2 DEF Decided
<1> QED BY <1>1, <1>3

LEMMA DecisionServe ==
  ASSUME TypeOK, DecisionInv, NEW r \in Deliveries, Serve(r)
  PROVE  DecisionInv'
<1> DEFINE l == r[1]
<1>0. l \in Logins /\ cli[l] # "idle" /\ r = <<l, r[2]>> /\ r[2] \in {1, 2} /\ poll[r] = "sent"
  BY Delivery, Started DEF Serve
<1>1. UNCHANGED <<tokens, cli, handed, decided>> BY DEF Serve, client, ghosts
<1> SUFFICES \A k \in Logins : Decided(k)' BY <1>1 DEF DecisionInv, TokensInv
<1>2. ASSUME NEW what, Finish(r, what),
             \A k \in Logins : (status'[k] = status[k] /\ userKey'[k] = userKey[k]) \/ status'[k] = "absent"
      PROVE  \A k \in Logins : Decided(k)'
  <2>1. ASSUME NEW k \in Logins, NEW i \in {1, 2}
        PROVE  IF <<k, i>> = r THEN poll'[<<k, i>>] # "issuing" /\ grant'[<<k, i>>] = None
               ELSE poll'[<<k, i>>] = poll[<<k, i>>] /\ grant'[<<k, i>>] = grant[<<k, i>>]
    <3>1. <<k, i>> \in Deliveries BY DEF Deliveries
    <3> QED BY <1>2, <3>1 DEF Finish, TypeOK
  <2>2. Decided(l)' BY <1>0, <1>1, <1>2, <2>1, DecidedMoves DEF DecisionInv
  <2>3. ASSUME NEW k \in Logins \ {l} PROVE Decided(k)'
    <3>1. \A i \in {1, 2} : <<k, i>> # r BY <1>0, <2>3
    <3> QED BY <1>1, <1>2, <2>1, <3>1, DecidedKept DEF DecisionInv
  <2> QED BY <2>2, <2>3
<1>3. CASE PollEnds(r, l)
  <2>1. CASE Finish(r, "invalid_grant") /\ UNCHANGED grants
    <3>1. status' = status /\ userKey' = userKey BY <2>1 DEF grants
    <3> QED BY <1>2, <2>1, <3>1
  <2>2. ASSUME NEW what, Finish(r, what), Delete({l}) PROVE \A k \in Logins : Decided(k)'
    <3>1. \A k \in Logins : (status'[k] = status[k] /\ userKey'[k] = userKey[k]) \/ status'[k] = "absent"
      BY <2>2 DEF Delete, TypeOK
    <3> QED BY <1>2, <2>2, <3>1
  <2> QED BY <1>3, <2>1, <2>2 DEF PollEnds
<1>4. CASE PollWaits(r, l)
  <2>1. PICK what \in Replies : Finish(r, what) BY <1>4 DEF PollWaits, Replies
  <2>2. status' = status /\ userKey' = userKey BY <1>4 DEF PollWaits
  <2> QED BY <1>2, <2>1, <2>2
<1>5. CASE Take(r, l)
  <2>1. ASSUME NEW k \in Logins, NEW i \in {1, 2}
        PROVE  IF <<k, i>> = r THEN poll'[<<k, i>>] = "issuing" /\ grant'[<<k, i>>] = userKey[l]
               ELSE poll'[<<k, i>>] = poll[<<k, i>>] /\ grant'[<<k, i>>] = grant[<<k, i>>]
    <3>1. <<k, i>> \in Deliveries BY DEF Deliveries
    <3> QED BY <1>5, <3>1 DEF Take, TypeOK
  <2>2. Decided(l)'
    <3>1. status[l] = "approved" /\ status'[l] = "absent" BY <1>0, <1>5 DEF Take, Delete
    <3> QED BY <1>0, <1>1, <2>1, <3>1 DEF DecisionInv, Decided
  <2>3. ASSUME NEW k \in Logins \ {l} PROVE Decided(k)'
    <3>1. \A i \in {1, 2} : <<k, i>> # r BY <1>0, <2>3
    <3>2. status'[k] = status[k] /\ userKey'[k] = userKey[k]
      BY <1>5, <2>3 DEF Take, Delete, TypeOK
    <3> QED BY <1>1, <2>1, <3>1, <3>2, DecidedKept DEF DecisionInv
  <2> QED BY <2>2, <2>3
<1> QED BY <1>3, <1>4, <1>5 DEF Serve

LEMMA DecisionIssue ==
  ASSUME TypeOK, DecisionInv, NEW r \in Deliveries, Issue(r) \/ IssueRefused(r) \/ IssueFails(r)
  PROVE  DecisionInv'
<1> DEFINE l == r[1]
<1>0. l \in Logins /\ cli[l] # "idle" /\ r = <<l, r[2]>> /\ r[2] \in {1, 2} /\ poll[r] = "issuing"
  BY Delivery, Started DEF Issue, IssueRefused, IssueFails
<1>1. UNCHANGED <<status, userKey, cli, decided>>
  BY DEF Issue, IssueRefused, IssueFails, client, ghosts, grants
<1>2. PICK what \in Replies : Finish(r, what) BY DEF Issue, IssueRefused, IssueFails, Replies
<1>3. ASSUME NEW k \in Logins, NEW i \in {1, 2}
      PROVE  IF <<k, i>> = r THEN poll'[<<k, i>>] # "issuing" /\ grant'[<<k, i>>] = None
             ELSE poll'[<<k, i>>] = poll[<<k, i>>] /\ grant'[<<k, i>>] = grant[<<k, i>>]
  <2>1. <<k, i>> \in Deliveries BY DEF Deliveries
  <2> QED BY <1>2, <2>1 DEF Finish, TypeOK
<1>4. \A k \in Logins \ {l} : handed'[k] = handed[k]
  BY DEF Issue, IssueRefused, IssueFails, ghosts, TypeOK
<1>5. ASSUME NEW k \in Logins \ {l} PROVE Decided(k)'
  <2>1. \A i \in {1, 2} : <<k, i>> # r BY <1>0, <1>5
  <2> QED BY <1>1, <1>3, <1>4, <2>1, DecidedKept DEF DecisionInv
<1>6. CASE Issue(r)
  <2>1. Decided(l) BY <1>0 DEF DecisionInv
  <2>2. status[l] = "absent" /\ handed[l] = 0 /\ decided[l].approve /\ decided[l].by = grant[r]
    BY <1>0, <2>1 DEF Decided
  <2>3. handed'[l] = 1 BY <1>0, <1>6, <2>2 DEF Issue, TypeOK
  <2>4. \A i \in {1, 2} : poll'[<<l, i>>] # "issuing" /\ grant'[<<l, i>>] = None
    BY <1>0, <1>3, <2>1 DEF Decided
  <2>5. Decided(l)' BY <1>0, <1>1, <2>2, <2>3, <2>4 DEF Decided
  <2>6. ASSUME NEW a \in Accounts, NEW k \in tokens'[a] PROVE decided[k].approve /\ decided[k].by = a
    <3>1. tokens'[a] = tokens[a] \/ (a = grant[r] /\ tokens'[a] = Others(a, l) \cup {l})
      BY <1>6 DEF Issue, TypeOK
    <3>2. k \in tokens[a] \/ (a = grant[r] /\ k = l) BY <3>1, <2>6 DEF Others
    <3> QED BY <2>2, <3>2 DEF DecisionInv, TokensInv
  <2>7. TokensInv' BY <1>1, <2>6 DEF TokensInv
  <2> QED BY <1>5, <2>5, <2>7 DEF DecisionInv
<1>7. CASE IssueRefused(r) \/ IssueFails(r)
  <2>1. UNCHANGED <<tokens, handed>> BY <1>7 DEF IssueRefused, IssueFails, ghosts
  <2>2. Decided(l)' BY <1>0, <1>1, <1>3, <2>1, DecidedMoves DEF DecisionInv
  <2> QED BY <1>1, <1>5, <2>1, <2>2 DEF DecisionInv, TokensInv
<1> QED BY <1>6, <1>7

LEMMA DecisionCLI ==
  ASSUME TypeOK, DecisionInv, NEW l \in Logins, CLI(l)
  PROVE  DecisionInv'
<1>1. UNCHANGED <<status, userKey, tokens, grant, handed, decided>>
  BY DEF CLI, SendPoll, Receive, GiveUp, Disconnect, grants, ghosts, server
<1>2. cli[l] # "idle" /\ \A k \in Logins \ {l} : cli'[k] = cli[k]
  BY DEF CLI, SendPoll, Receive, GiveUp, Disconnect, TypeOK
<1>3. cli'[l] # "idle"
  <2>1. CASE Receive(l)
    <3>1. reply[l] \notin {"authorization_pending", "slow_down"} => Ended(reply[l]) # "idle"
      <4>1. reply[l] # "none" /\ reply[l] \in Replies BY <2>1 DEF Receive, TypeOK, Replies
      <4> QED BY <4>1 DEF Ended, Replies
    <3>2. CASE reply[l] \in {"authorization_pending", "slow_down"}
      BY <2>1, <3>2 DEF Receive, TypeOK
    <3>3. CASE reply[l] \notin {"authorization_pending", "slow_down"}
      BY <2>1, <3>1, <3>3 DEF Receive, TypeOK
    <3> QED BY <3>2, <3>3
  <2> QED BY <2>1 DEF CLI, SendPoll, GiveUp, Disconnect, TypeOK
<1>4. ASSUME NEW k \in Logins, NEW i \in {1, 2}
      PROVE  \/ poll'[<<k, i>>] = poll[<<k, i>>]
             \/ k = l /\ poll[<<k, i>>] = "none" /\ poll'[<<k, i>>] = "sent"
  <2>1. <<k, i>> \in Deliveries /\ <<l, 1>> \in Deliveries BY DEF Deliveries
  <2>2. CASE SendPoll(l) BY <2>1, <2>2 DEF SendPoll, TypeOK
  <2> QED BY <2>2 DEF CLI, Receive, GiveUp, Disconnect, server
<1>5. ASSUME NEW k \in Logins \ {l} PROVE Decided(k)'
  BY <1>1, <1>2, <1>4, DecidedKept DEF DecisionInv
<1>6. Decided(l)'
  <2>1. Decided(l) BY DEF DecisionInv
  <2> QED BY <1>1, <1>2, <1>3, <1>4, <2>1 DEF Decided
<1> QED BY <1>1, <1>5, <1>6 DEF DecisionInv, TokensInv

LEMMA DecisionRecord ==
  ASSUME TypeOK, DecisionInv, NEW l \in Logins, NEW a \in Accounts, NEW approve \in BOOLEAN,
         status[l] = "waiting", Record(l, a, approve)
  PROVE  DecisionInv'
<1>0. Record(l, a, approve) OBVIOUS
<1>1. UNCHANGED <<tokens, poll, grant, cli, handed>> BY <1>0 DEF Record, server, client
<1>2. ASSUME NEW k \in Logins \ {l} PROVE Decided(k)'
  <2>1. status'[k] = status[k] /\ userKey'[k] = userKey[k] /\ decided'[k] = decided[k]
    BY <1>0, <1>2 DEF Record, TypeOK
  <2> QED BY <1>1, <2>1, DecidedKept DEF DecisionInv
<1>3. decided[l] = Undecided BY <1>0 DEF DecisionInv, Decided
<1>4. decided'[l] = [by |-> a, approve |-> approve, at |-> now] BY <1>0, <1>3 DEF Record, TypeOK
<1>5. Decided(l)'
  <2>1. status'[l] = (IF approve THEN "approved" ELSE "denied") /\ (approve => userKey'[l] = a)
    BY <1>0 DEF Record, TypeOK
  <2>2. Decided(l) BY <1>0 DEF DecisionInv
  <2>3. cli[l] # "idle" /\ handed[l] = 0 /\ \A i \in {1, 2} : poll[<<l, i>>] # "issuing" /\ grant[<<l, i>>] = None
    BY <1>0, <2>2 DEF Decided
  <2>4. CASE approve = TRUE BY <1>1, <1>4, <2>1, <2>3, <2>4 DEF Decided
  <2>5. CASE approve = FALSE BY <1>1, <1>4, <2>1, <2>3, <2>5 DEF Decided
  <2> QED BY <2>4, <2>5
<1>6. TokensInv'
  <2>1. \A b \in Accounts : l \notin tokens[b] BY <1>3 DEF DecisionInv, TokensInv, Undecided
  <2>2. \A b \in Accounts : \A k \in tokens[b] : k \in Logins \ {l} BY <2>1 DEF TypeOK
  <2>3. \A k \in Logins \ {l} : decided'[k] = decided[k] BY <1>0 DEF Record, TypeOK
  <2> QED BY <1>1, <2>2, <2>3 DEF DecisionInv, TokensInv
<1> QED BY <1>2, <1>5, <1>6 DEF DecisionInv

LEMMA DecisionRest ==
  ASSUME TypeOK, DecisionInv,
         \/ Restart \/ Tick \/ UNCHANGED vars
         \/ \E l \in Logins : Duplicate(l) \/ \E a \in Accounts : Revoke(a, l)
  PROVE  DecisionInv'
<1>1. CASE Restart
  <2>0. UNCHANGED <<tokens, handed, decided>> BY <1>1 DEF Restart, ghosts
  <2>1. ASSUME NEW k \in Logins PROVE Decided(k)'
    <3>1. status'[k] = "absent"
      BY <1>1 DEF Restart, Delete, TypeOK, Live
    <3>2. cli'[k] = cli[k] \/ (cli[k] # "idle" /\ cli'[k] # "idle")
      BY <1>1 DEF Restart
    <3>3. ASSUME NEW i \in {1, 2}
          PROVE  poll'[<<k, i>>] # "issuing" /\ grant'[<<k, i>>] = None
                 /\ (poll[<<k, i>>] = "none" => poll'[<<k, i>>] = "none")
      <4>1. <<k, i>> \in Deliveries BY DEF Deliveries
      <4> QED BY <1>1, <4>1 DEF Restart
    <3> QED BY <2>0, <3>1, <3>2, <3>3 DEF DecisionInv, Decided
  <2> QED BY <2>0, <2>1 DEF DecisionInv, TokensInv
<1>2. CASE Tick \/ UNCHANGED vars
  BY <1>2, DecidedKept DEF Tick, vars, grants, server, client, ghosts, DecisionInv, TokensInv
<1>3. ASSUME NEW l \in Logins, Duplicate(l) PROVE DecisionInv'
  <2>0. UNCHANGED <<tokens, handed, decided, status, userKey, cli, grant>>
    BY <1>3 DEF Duplicate, grants, client, ghosts
  <2>1. ASSUME NEW k \in Logins, NEW i \in {1, 2}
        PROVE  \/ poll'[<<k, i>>] = poll[<<k, i>>]
               \/ k = l /\ poll[<<k, i>>] = "none" /\ poll'[<<k, i>>] = "sent"
    <3>1. <<k, i>> \in Deliveries /\ <<l, 2>> \in Deliveries BY DEF Deliveries
    <3> QED BY <1>3, <3>1 DEF Duplicate, TypeOK
  <2>2. \A k \in Logins \ {l} : Decided(k)' BY <2>0, <2>1, DecidedKept DEF DecisionInv
  <2>3. Decided(l)'
    <3>1. Decided(l) /\ cli[l] # "idle" BY <1>3 DEF DecisionInv, Decided, Duplicate
    <3> QED BY <2>0, <2>1, <3>1 DEF Decided
  <2> QED BY <2>0, <2>2, <2>3 DEF DecisionInv, TokensInv
<1>4. ASSUME NEW l \in Logins, NEW a \in Accounts, Revoke(a, l) PROVE DecisionInv'
  <2>0. UNCHANGED <<status, userKey, cli, poll, grant, handed, decided>>
    BY <1>4 DEF Revoke, grants, server, client, ghosts
  <2>1. \A k \in Logins : Decided(k)' BY <2>0, DecidedKept DEF DecisionInv
  <2>2. \A b \in Accounts : tokens'[b] \subseteq tokens[b] BY <1>4 DEF Revoke, TypeOK
  <2> QED BY <2>0, <2>1, <2>2 DEF DecisionInv, TokensInv
<1> QED BY <1>1, <1>2, <1>3, <1>4

LEMMA DecisionNext == TypeOK /\ DecisionInv /\ [Next]_vars => DecisionInv'
<1> SUFFICES ASSUME TypeOK, DecisionInv, [Next]_vars PROVE DecisionInv' OBVIOUS
<1>1. ASSUME NEW l \in Logins,
             (\E u \in Codes : Start(l, u) \/ StartLost(l, u)) \/ StartRefused(l) \/ CLI(l)
      PROVE  DecisionInv'
  BY <1>1, DecisionStart, DecisionRefused, DecisionCLI
<1>2. CASE Hub BY <1>2, DecisionServe, DecisionIssue DEF Hub
<1>3. ASSUME NEW a \in Accounts, NEW u \in Codes, NEW approve \in BOOLEAN, Decide(u, a, approve)
      PROVE  DecisionInv'
  BY <1>3, DecisionRecord DEF Decide, TypeOK
<1> QED BY <1>1, <1>2, <1>3, DecisionRest DEF Next, Browser

-------------------------------------------------------------------------------
(* An approval in time. *)

Late(l) == decided[l].at + Interval + 3 > expires[l]

\* The times recorded for a login are past, a decision follows the polls that waited for it.
Clock(l) ==
    /\ lastPoll[l] <= now /\ decided[l].at <= now
    /\ decided[l].approve => lastPoll[l] <= decided[l].at

\* Without a fault, the CLI polls within a tick of the time it is to wake up, the hub
\* answers within one more, and no poll is early.
OnPace(l) ==
    /\ poll[<<l, 2>>] = "none"
    /\ cli[l] \in {"waiting", "polling"} =>
        /\ wait[l] = Interval /\ deadline[l] = expires[l]
        /\ status[l] # "absent" => pace[l] = Interval
    /\ cli[l] = "waiting" =>
        /\ poll[<<l, 1>>] = "none"
        /\ now <= wake[l] \/ (now = wake[l] + 1 /\ l \in late)
        /\ wake[l] <= now + Interval
        /\ lastPoll[l] + Interval <= wake[l] \/ wake[l] > MaxTime
    /\ cli[l] = "polling" =>
        \/ /\ poll[<<l, 1>>] = "sent" /\ reply[l] = "none"
           /\ wake[l] <= now /\ lastPoll[l] + Interval <= wake[l]
           /\ now <= wake[l] + 1 \/ (now = wake[l] + 2 /\ l \in late)
        \/ poll[<<l, 1>>] = "issuing" /\ reply[l] = "none"
        \/ /\ poll[<<l, 1>>] = "none" /\ reply[l] = "authorization_pending"
           /\ now <= lastPoll[l] \/ (now = lastPoll[l] + 1 /\ l \in late)
        \/ /\ poll[<<l, 1>>] = "none" /\ status[l] = "absent"
           /\ reply[l] \in {"invalid_grant", "expired_token", "access_denied", "refused", "token"}
    /\ status[l] = "waiting" =>
        cli[l] \in {"waiting", "polling", "error"} \/ (cli[l] = "expired" /\ now >= expires[l])

\* Without a fault, an approved request is on its way to its token, or was approved late.
OnItsWay(l) == decided[l].approve =>
    \/ Late(l)
    \/ cli[l] \in {"token", "error"}
    \/ /\ cli[l] = "waiting" \/ (cli[l] = "polling" /\ poll[<<l, 1>>] = "sent")
       /\ status[l] = "approved" /\ wake[l] <= decided[l].at + Interval + 1
    \/ /\ cli[l] = "polling" /\ poll[<<l, 1>>] = "none"
       /\ reply[l] = "authorization_pending" /\ status[l] = "approved"
    \/ cli[l] = "polling" /\ poll[<<l, 1>>] = "issuing"
    \/ cli[l] = "polling" /\ poll[<<l, 1>>] = "none" /\ reply[l] \in {"token", "refused"}

Timely(l) == Clock(l) /\ (faults = 0 => OnPace(l) /\ OnItsWay(l))

TimeInv == now <= MaxTime /\ \A l \in Logins : Timely(l)

\* The inductive invariant.
DeviceIInv == MapsInv /\ DecisionInv /\ TimeInv

LEMMA TimeTypes ==
  ASSUME TypeOK, NEW l \in Logins
  PROVE  /\ now \in Nat /\ wake[l] \in Nat /\ wait[l] \in Nat /\ deadline[l] \in Nat
         /\ expires[l] \in Nat /\ pace[l] \in Nat /\ lastPoll[l] \in Nat
         /\ decided[l].at \in Nat /\ decided[l].by \in Accounts \cup {None}
         /\ decided[l].approve \in BOOLEAN
         /\ faults \in Nat /\ Interval \in Nat \ {0} /\ MaxTime \in Nat /\ TTL \in Nat
BY DeviceAssumption DEF TypeOK, Times

\* A fault leaves nothing to show but that the recorded times are past.
LEMMA ClockKept ==
  ASSUME TypeOK, NEW l \in Logins, Timely(l), faults' # 0, now' = now,
         lastPoll'[l] = lastPoll[l], decided'[l] = decided[l]
  PROVE  Timely(l)'
BY DEF Timely, Clock

LEMMA AfterFault == ASSUME TypeOK, Fault PROVE faults' # 0
BY DeviceAssumption DEF TypeOK, Fault

\* Nothing that concerns a login changes, except that its request may be swept.
LEMMA TimelyKept ==
  ASSUME TypeOK, NEW l \in Logins, Timely(l), UNCHANGED <<now, faults>>,
         status'[l] = status[l] \/ (status'[l] = "absent" /\ now > expires[l]),
         cli'[l] = cli[l], reply'[l] = reply[l], wake'[l] = wake[l], wait'[l] = wait[l],
         deadline'[l] = deadline[l], expires'[l] = expires[l], pace'[l] = pace[l],
         lastPoll'[l] = lastPoll[l], decided'[l] = decided[l],
         poll'[<<l, 1>>] = poll[<<l, 1>>], poll'[<<l, 2>>] = poll[<<l, 2>>],
         l \in late' <=> l \in late
  PROVE  Timely(l)'
<1>1. Clock(l)' BY DEF Timely, Clock
<1>2. SUFFICES ASSUME faults = 0 PROVE OnPace(l)' /\ OnItsWay(l)' BY <1>1 DEF Timely
<1>3. OnPace(l)' BY <1>2 DEF Timely, OnPace
<1>4. OnItsWay(l)'
  <2>1. CASE status'[l] = status[l] BY <1>2, <2>1 DEF Timely, OnItsWay, Late
  <2>2. CASE now > expires[l]
    <3>1. SUFFICES ASSUME decided[l].approve PROVE OnItsWay(l)' BY DEF OnItsWay
    <3>2. lastPoll[l] <= decided[l].at BY <3>1 DEF Timely, Clock
    <3> QED BY <1>2, <2>2, <3>1, <3>2, TimeTypes DEF Timely, OnPace, OnItsWay, Late
  <2> QED BY <2>1, <2>2
<1> QED BY <1>3, <1>4

LEMMA TimelyStart ==
  ASSUME TypeOK, DecisionInv, TimeInv, NEW l \in Logins, NEW u \in Codes,
         Start(l, u) \/ StartLost(l, u)
  PROVE  TimeInv'
<1>0. Register(l, u) /\ UNCHANGED <<now, decided, poll, reply, late>>
  BY DEF Start, StartLost, server, ghosts
<1>1. cli[l] = "idle" /\ decided[l] = Undecided /\ \A i \in {1, 2} : poll[<<l, i>>] = "none"
  BY DEF Start, StartLost, DecisionInv, Decided
<1>2. lastPoll'[l] = 0 /\ expires'[l] = now + TTL /\ pace'[l] = Interval /\ status'[l] = "waiting"
  BY <1>0 DEF Register, TypeOK
<1>3. \A k \in Logins \ {l} :
        /\ lastPoll'[k] = lastPoll[k] /\ expires'[k] = expires[k] /\ pace'[k] = pace[k]
        /\ status'[k] = status[k] \/ (status'[k] = "absent" /\ now > expires[k])
  BY <1>0 DEF Register, TypeOK, Overdue
<1>4. Clock(l)' BY <1>0, <1>1, <1>2, TimeTypes DEF Clock, Undecided, Timely
<1>5. CASE Start(l, u)
  <2>1. wake'[l] = now + Interval /\ wait'[l] = Interval /\ deadline'[l] = now + TTL
        /\ cli'[l] = "waiting" /\ faults' = faults
    BY <1>5 DEF Start, TypeOK
  <2>2. OnPace(l)' BY <1>0, <1>1, <1>2, <2>1, TimeTypes DEF OnPace
  <2>3. OnItsWay(l)' BY <1>0, <1>1 DEF OnItsWay, Undecided
  <2>4. ASSUME NEW k \in Logins \ {l} PROVE Timely(k)'
    <3>1. cli'[k] = cli[k] /\ wake'[k] = wake[k] /\ wait'[k] = wait[k] /\ deadline'[k] = deadline[k]
      BY <1>5, <2>4 DEF Start, TypeOK
    <3> QED BY <1>0, <1>3, <2>1, <3>1, TimelyKept DEF TimeInv
  <2> QED BY <1>0, <1>4, <2>2, <2>3, <2>4 DEF TimeInv, Timely
<1>6. CASE StartLost(l, u)
  <2>1. faults' # 0 BY <1>6, AfterFault DEF StartLost
  <2>2. Timely(l)' BY <1>4, <2>1 DEF Timely
  <2>3. ASSUME NEW k \in Logins \ {l} PROVE Timely(k)'
    BY <1>0, <1>3, <2>1, ClockKept DEF TimeInv
  <2> QED BY <1>0, <2>2, <2>3 DEF TimeInv
<1> QED BY <1>5, <1>6

LEMMA TimelyRefused ==
  ASSUME TypeOK, DecisionInv, TimeInv, NEW l \in Logins, StartRefused(l)
  PROVE  TimeInv'
<1>0. Delete(Overdue) /\ cli' = [cli EXCEPT ![l] = "error"] /\ cli[l] = "idle"
      /\ UNCHANGED <<now, decided, poll, reply, wake, wait, deadline, late, faults>>
  BY DEF StartRefused, server, ghosts
<1>1. decided[l] = Undecided /\ status[l] = "absent" BY <1>0 DEF DecisionInv, Decided
<1>2. \A k \in Logins :
        /\ lastPoll'[k] = lastPoll[k] /\ expires'[k] = expires[k] /\ pace'[k] = pace[k]
        /\ status'[k] = status[k] \/ (status'[k] = "absent" /\ now > expires[k])
  BY <1>0 DEF Delete, TypeOK, Overdue
<1>3. Timely(l)'
  <2>1. Timely(l) /\ cli'[l] = "error" /\ status'[l] = "absent" BY <1>0, <1>1, <1>2 DEF TimeInv, TypeOK
  <2> QED BY <1>0, <1>1, <1>2, <2>1 DEF Timely, Clock, OnPace, OnItsWay, Undecided
<1>4. ASSUME NEW k \in Logins \ {l} PROVE Timely(k)'
  <2>1. cli'[k] = cli[k] BY <1>0, <1>4 DEF TypeOK
  <2> QED BY <1>0, <1>2, <2>1, TimelyKept DEF TimeInv
<1> QED BY <1>0, <1>3, <1>4 DEF TimeInv

\* A step of the hub for one login leaves the others alone.
LEMMA TimelyOthers ==
  ASSUME TypeOK, TimeInv, NEW r \in Deliveries, NEW what, Finish(r, what),
         NEW k \in Logins, k # r[1], UNCHANGED <<now, client, decided>>,
         faults' = faults \/ faults' # 0,
         status'[k] = status[k], expires'[k] = expires[k], pace'[k] = pace[k],
         lastPoll'[k] = lastPoll[k]
  PROVE  Timely(k)'
<1>1. \A i \in {1, 2} : <<k, i>> \in Deliveries /\ <<k, i>> # r BY DEF Deliveries
<1>2. poll'[<<k, 1>>] = poll[<<k, 1>>] /\ poll'[<<k, 2>>] = poll[<<k, 2>>]
  BY <1>1 DEF Finish, TypeOK
<1>3. reply'[k] = reply[k] /\ (k \in late' <=> k \in late)
  BY DEF Finish, Answer, OnTime, TypeOK
<1>4. Timely(k) BY DEF TimeInv
<1>5. CASE faults' = faults BY <1>2, <1>3, <1>4, <1>5, TimelyKept DEF client
<1>6. CASE faults' # 0 BY <1>4, <1>6, ClockKept
<1> QED BY <1>5, <1>6

\* What the request of the CLI becomes.
LEMMA Answered ==
  ASSUME TypeOK, NEW r \in Deliveries, r[2] = 1, NEW what, Finish(r, what)
  PROVE  /\ poll'[<<r[1], 1>>] = "none" /\ reply'[r[1]] = what
         /\ poll'[<<r[1], 2>>] = poll[<<r[1], 2>>]
<1>1. r = <<r[1], 1>> /\ r[1] \in Logins /\ <<r[1], 2>> \in Deliveries /\ <<r[1], 2>> # r
  BY Delivery DEF Deliveries
<1> QED BY <1>1 DEF Finish, Answer, TypeOK

LEMMA TimelyServe ==
  ASSUME TypeOK, DecisionInv, TimeInv, NEW r \in Deliveries, Serve(r)
  PROVE  TimeInv'
<1> DEFINE l == r[1]
<1>0. l \in Logins /\ r = <<l, r[2]>> /\ r[2] \in {1, 2} /\ poll[r] = "sent"
      /\ UNCHANGED <<now, client, decided, faults>>
  BY Delivery DEF Serve, ghosts
<1>1. Timely(l) /\ Decided(l) BY <1>0 DEF TimeInv, DecisionInv
\* Without a fault, it is the CLI's own request.
<1>2. ASSUME faults = 0
      PROVE  r[2] = 1 /\ poll[<<l, 1>>] = "sent" /\ cli[l] # "waiting" /\ OnPace(l) /\ OnItsWay(l)
  BY <1>0, <1>1, <1>2 DEF Timely, OnPace
<1>3. SUFFICES \A k \in Logins : Timely(k)' BY <1>0 DEF TimeInv
<1>4. CASE PollEnds(r, l)
  <2>1. PICK what \in {"invalid_grant", "expired_token", "access_denied"} :
          /\ Finish(r, what) /\ status'[l] = "absent"
          /\ status[l] \in {"absent", "denied"} \/ now > expires[l]
          /\ UNCHANGED <<expires, pace, lastPoll>> /\ \A k \in Logins \ {l} : status'[k] = status[k]
    <3>1. CASE status[l] = "absent" /\ Finish(r, "invalid_grant") /\ UNCHANGED grants
      BY <3>1 DEF grants
    <3>2. CASE /\ status[l] = "denied" \/ now > expires[l]
               /\ Finish(r, "expired_token") \/ Finish(r, "access_denied")
               /\ Delete({l})
      BY <1>0, <3>2 DEF Delete, TypeOK
    <3> QED BY <1>4, <3>1, <3>2 DEF PollEnds
  <2>2. ASSUME NEW k \in Logins \ {l} PROVE Timely(k)' BY <1>0, <2>1, <2>2, TimelyOthers
  <2>3. Clock(l)' BY <1>0, <1>1, <2>1 DEF Timely, Clock
  <2>4. ASSUME faults = 0 PROVE OnPace(l)' /\ OnItsWay(l)'
    <3>1. poll'[<<l, 1>>] = "none" /\ reply'[l] = what /\ poll'[<<l, 2>>] = poll[<<l, 2>>]
      BY <1>2, <2>1, <2>4, Answered
    <3>2. OnPace(l)' BY <1>0, <1>2, <2>1, <2>4, <3>1 DEF OnPace, client
    <3>3. OnItsWay(l)'
      <4>1. SUFFICES ASSUME decided[l].approve, ~Late(l), cli[l] \notin {"token", "error"} PROVE FALSE
        BY <1>0, <2>1 DEF OnItsWay, Late, client
      <4>2. /\ cli[l] = "polling" /\ status[l] = "approved"
            /\ wake[l] <= decided[l].at + Interval + 1
        BY <1>2, <2>4, <4>1 DEF OnItsWay
      <4>3. now <= wake[l] + 2 /\ now > expires[l]
        BY <1>0, <1>2, <2>1, <2>4, <4>2, TimeTypes DEF OnPace
      <4> QED BY <1>0, <4>1, <4>2, <4>3, TimeTypes DEF Late
    <3> QED BY <3>2, <3>3
  <2> QED BY <1>0, <2>2, <2>3, <2>4 DEF Timely
<1>5. CASE PollWaits(r, l)
  <2>1. status[l] = "waiting" /\ decided[l] = Undecided BY <1>1, <1>5 DEF PollWaits, Decided
  <2>2. PICK what \in {"slow_down", "authorization_pending"} : Finish(r, what)
    BY <1>5 DEF PollWaits
  <2>3. UNCHANGED <<status, expires>> /\ lastPoll'[l] = now
        /\ \A k \in Logins \ {l} : lastPoll'[k] = lastPoll[k] /\ pace'[k] = pace[k]
    BY <1>0, <1>5 DEF PollWaits, TypeOK
  <2>4. ASSUME NEW k \in Logins \ {l} PROVE Timely(k)'
    BY <1>0, <2>2, <2>3, <2>4, TimelyOthers
  <2>5. Clock(l)' BY <1>0, <1>1, <2>1, <2>3, TimeTypes DEF Timely, Clock, Undecided
  <2>6. OnItsWay(l)' BY <1>0, <2>1 DEF OnItsWay, Undecided
  <2>7. ASSUME faults = 0 PROVE OnPace(l)'
    <3>1. poll'[<<l, 2>>] = poll[<<l, 2>>] BY <1>2, <2>2, <2>7, Answered
    <3>2. CASE cli[l] = "polling"
      <4>1. pace[l] = Interval /\ wake[l] <= now /\ lastPoll[l] + Interval <= wake[l]
        BY <1>2, <2>1, <2>7, <3>2 DEF OnPace
      <4>2. ~(now - lastPoll[l] < pace[l]) BY <1>0, <4>1, TimeTypes
      <4>3. Finish(r, "authorization_pending") /\ pace' = pace BY <1>5, <4>2 DEF PollWaits
      <4>4. poll'[<<l, 1>>] = "none" /\ reply'[l] = "authorization_pending"
        BY <1>2, <2>7, <4>3, Answered
      <4> QED BY <1>0, <1>2, <2>1, <2>3, <2>7, <3>1, <3>2, <4>3, <4>4, TimeTypes
               DEF OnPace, client
    <3>3. CASE cli[l] # "polling"
      BY <1>0, <1>2, <2>1, <2>3, <2>7, <3>1, <3>3 DEF OnPace, client
    <3> QED BY <3>2, <3>3
  <2> QED BY <1>0, <2>4, <2>5, <2>6, <2>7 DEF Timely
<1>6. CASE Take(r, l)
  <2>1. status'[l] = "absent" /\ UNCHANGED <<expires, pace, lastPoll, reply>>
        /\ late' = late \ {l} /\ poll' = [poll EXCEPT ![r] = "issuing"]
        /\ \A k \in Logins \ {l} : status'[k] = status[k]
    BY <1>0, <1>6 DEF Take, Delete, OnTime, TypeOK
  <2>2. ASSUME NEW k \in Logins \ {l} PROVE Timely(k)'
    <3>1. \A i \in {1, 2} : <<k, i>> \in Deliveries /\ <<k, i>> # r BY <1>0, <2>2 DEF Deliveries
    <3>2. poll'[<<k, 1>>] = poll[<<k, 1>>] /\ poll'[<<k, 2>>] = poll[<<k, 2>>]
      BY <2>1, <3>1 DEF TypeOK
    <3> QED BY <1>0, <2>1, <3>2, TimelyKept DEF TimeInv, client
  <2>3. Clock(l)' BY <1>0, <1>1, <2>1 DEF Timely, Clock
  <2>4. ASSUME faults = 0 PROVE OnPace(l)' /\ OnItsWay(l)'
    <3>1. <<l, 2>> \in Deliveries /\ <<l, 2>> # r /\ r = <<l, 1>>
      BY <1>0, <1>2, <2>4 DEF Deliveries
    <3>2. poll'[<<l, 1>>] = "issuing" /\ poll'[<<l, 2>>] = poll[<<l, 2>>]
      <4>1. poll \in [Deliveries -> Places] BY DEF TypeOK, Places
      <4>2. poll'[r] = "issuing" /\ \A q \in Deliveries \ {r} : poll'[q] = poll[q] BY <2>1, <4>1
      <4> QED BY <3>1, <4>2
    <3>3. cli[l] = "polling" => reply[l] = "none" BY <1>2, <2>4 DEF OnPace
    <3>4. OnPace(l)' BY <1>0, <1>2, <2>1, <2>4, <3>2, <3>3 DEF OnPace, client
    <3>5. OnItsWay(l)' BY <1>0, <1>2, <2>1, <2>4, <3>2 DEF OnItsWay, Late, client
    <3> QED BY <3>4, <3>5
  <2> QED BY <1>0, <2>2, <2>3, <2>4 DEF Timely
<1> QED BY <1>4, <1>5, <1>6 DEF Serve

LEMMA TimelyIssue ==
  ASSUME TypeOK, DecisionInv, TimeInv, NEW r \in Deliveries,
         Issue(r) \/ IssueRefused(r) \/ IssueFails(r)
  PROVE  TimeInv'
<1> DEFINE l == r[1]
<1>0. l \in Logins /\ r = <<l, r[2]>> /\ r[2] \in {1, 2} /\ poll[r] = "issuing"
      /\ UNCHANGED <<now, client, decided, grants>>
  BY Delivery DEF Issue, IssueRefused, IssueFails, ghosts
<1>1. PICK what \in {"token", "refused"} : Finish(r, what)
  BY DEF Issue, IssueRefused, IssueFails
<1>2. faults' = faults \/ faults' # 0
  BY AfterFault DEF Issue, IssueRefused, IssueFails
<1>3. ASSUME NEW k \in Logins \ {l} PROVE Timely(k)'
  BY <1>0, <1>1, <1>2, <1>3, TimelyOthers DEF grants
<1>4. Timely(l)'
  <2>1. Timely(l) /\ Decided(l) BY <1>0 DEF TimeInv, DecisionInv
  <2>2. CASE faults' # 0 BY <1>0, <2>1, <2>2, ClockKept DEF grants
  <2>3. CASE faults' = faults /\ faults = 0
    <3>1. r[2] = 1 /\ status[l] = "absent" BY <1>0, <2>1, <2>3 DEF Timely, OnPace, Decided
    <3>2. poll'[<<l, 1>>] = "none" /\ reply'[l] = what /\ poll'[<<l, 2>>] = poll[<<l, 2>>]
      BY <1>1, <3>1, Answered
    <3>3. OnPace(l) /\ OnItsWay(l) /\ Clock(l) /\ poll[<<l, 1>>] = "issuing"
      BY <1>0, <2>1, <2>3, <3>1 DEF Timely
    <3>4. OnPace(l)' BY <1>0, <2>3, <3>1, <3>2, <3>3 DEF OnPace, client, grants
    <3>5. OnItsWay(l)' BY <1>0, <3>1, <3>2, <3>3 DEF OnItsWay, Late, client, grants
    <3>6. Clock(l)' BY <1>0, <3>3 DEF Clock, grants
    <3> QED BY <3>4, <3>5, <3>6 DEF Timely
  <2> QED BY <1>2, <2>2, <2>3
<1> QED BY <1>0, <1>3, <1>4 DEF TimeInv

LEMMA TimelyCLI ==
  ASSUME TypeOK, DecisionInv, TimeInv, NEW l \in Logins, CLI(l)
  PROVE  TimeInv'
<1>0. UNCHANGED <<now, grants, deadline, ghosts>> /\ late' = late \ {l}
      /\ \A k \in Logins \ {l} : /\ cli'[k] = cli[k] /\ reply'[k] = reply[k]
                                 /\ wake'[k] = wake[k] /\ wait'[k] = wait[k]
  BY DEF CLI, SendPoll, Receive, GiveUp, Disconnect, OnTime, TypeOK
<1>1. Timely(l) /\ Decided(l) BY DEF TimeInv, DecisionInv
<1>2. CASE Disconnect(l)
  <2>1. faults' # 0 BY <1>2, AfterFault DEF Disconnect
  <2> QED BY <1>0, <2>1, ClockKept DEF TimeInv, grants, ghosts
<1>3. CASE SendPoll(l) \/ Receive(l) \/ GiveUp(l)
  <2>0. faults' = faults BY <1>3 DEF SendPoll, Receive, GiveUp
  <2>1. \A k \in Logins, i \in {1, 2} : poll'[<<k, i>>] = poll[<<k, i>>] \/ (k = l /\ i = 1)
    <3>1. ASSUME NEW k \in Logins, NEW i \in {1, 2}
          PROVE  poll'[<<k, i>>] = poll[<<k, i>>] \/ (k = l /\ i = 1)
      <4>1. <<k, i>> \in Deliveries BY DEF Deliveries
      <4> QED BY <1>3, <4>1 DEF SendPoll, Receive, GiveUp, server, TypeOK
    <3> QED BY <3>1
  <2>2. ASSUME NEW k \in Logins \ {l} PROVE Timely(k)'
    BY <1>0, <2>0, <2>1, <2>2, TimelyKept DEF TimeInv, grants, ghosts
  <2>3. Clock(l)' BY <1>0, <1>1 DEF Timely, Clock, grants, ghosts
  <2>4. SUFFICES ASSUME faults = 0 PROVE OnPace(l)' /\ OnItsWay(l)'
    BY <1>0, <2>0, <2>2, <2>3 DEF TimeInv, Timely
  <2>5. OnPace(l) /\ OnItsWay(l) /\ Clock(l) BY <1>1, <2>4 DEF Timely
  <2>6. CASE SendPoll(l)
    <3>1. cli[l] = "waiting" /\ cli'[l] = "polling" /\ now >= wake[l] /\ wake'[l] = wake[l]
          /\ wait'[l] = wait[l] /\ reply'[l] = "none"
      BY <2>6 DEF SendPoll, TypeOK
    <3>2. poll'[<<l, 1>>] = "sent"
      <4>1. <<l, 1>> \in Deliveries BY DEF Deliveries
      <4> QED BY <2>6, <4>1 DEF SendPoll, TypeOK
    <3>3. wake[l] <= MaxTime BY <3>1, TimeTypes DEF TimeInv
    <3>4. OnPace(l)'
      <4>1. UNCHANGED <<now, status, expires, pace, lastPoll>> /\ deadline' = deadline
        BY <1>0 DEF grants
      <4>2. poll'[<<l, 2>>] = "none" BY <2>1, <2>5 DEF OnPace
      <4>3. lastPoll[l] + Interval <= wake[l] /\ now <= wake[l] + 1 /\ wait[l] = Interval
            /\ deadline[l] = expires[l] /\ (status[l] # "absent" => pace[l] = Interval)
        BY <2>5, <3>1, <3>3, TimeTypes DEF OnPace
      <4>4. status[l] = "waiting" => cli'[l] = "polling" BY <3>1
      <4> QED BY <3>1, <3>2, <4>1, <4>2, <4>3, <4>4 DEF OnPace
    <3>5. OnItsWay(l)' BY <1>0, <2>5, <3>1, <3>2 DEF OnItsWay, Late, grants, ghosts
    <3> QED BY <3>4, <3>5
  <2>7. CASE Receive(l)
    <3>0. cli[l] = "polling" /\ reply[l] # "none" /\ reply'[l] = "none" /\ poll' = poll
      BY <2>7 DEF Receive, server, TypeOK
    <3>1. poll[<<l, 1>>] = "none" BY <2>5, <3>0 DEF OnPace
    <3>2. CASE reply[l] = "authorization_pending"
      <4>1. wait[l] = Interval BY <2>5, <3>0 DEF OnPace
      <4>2. Paced(wait[l]) = Interval BY <4>1, DeviceAssumption DEF Paced
      <4>3. wait'[l] = Interval /\ cli'[l] = "waiting" BY <2>7, <3>2, <4>2 DEF Receive, TypeOK
      <4>4. wake'[l] = Paced(now + Interval) BY <2>7, <3>2, <4>3 DEF Receive, TypeOK
      <4>5. wake'[l] \in Nat /\ now < wake'[l] /\ wake'[l] <= now + Interval
            /\ (wake'[l] = now + Interval \/ wake'[l] > MaxTime)
        BY <4>4, TimeTypes DEF Paced, TimeInv
      <4>6. now <= lastPoll[l] + 1 /\ lastPoll[l] <= now BY <2>5, <3>0, <3>2, TimeTypes DEF OnPace, Clock
      <4>7. UNCHANGED <<now, status, expires, pace, lastPoll, deadline, decided>>
        BY <1>0 DEF grants, ghosts
      <4>8. OnPace(l)'
        <5>1. deadline[l] = expires[l] /\ (status[l] # "absent" => pace[l] = Interval)
              /\ poll[<<l, 2>>] = "none"
          BY <2>5, <3>0 DEF OnPace
        <5>2. now <= wake'[l] /\ (lastPoll[l] + Interval <= wake'[l] \/ wake'[l] > MaxTime)
          BY <4>5, <4>6, TimeTypes
        <5> QED BY <3>0, <3>1, <4>3, <4>5, <4>7, <5>1, <5>2 DEF OnPace
      <4>9. OnItsWay(l)'
        <5>1. SUFFICES ASSUME decided[l].approve, ~Late(l) PROVE OnItsWay(l)'
          BY <4>7 DEF OnItsWay, Late
        <5>2. status[l] = "approved" BY <2>5, <3>0, <3>1, <3>2, <5>1 DEF OnItsWay
        <5>3. wake'[l] <= decided[l].at + Interval + 1
          BY <2>5, <4>5, <4>6, <5>1, TimeTypes DEF Clock
        <5> QED BY <4>3, <4>7, <5>2, <5>3 DEF OnItsWay
      <4> QED BY <4>8, <4>9
    <3>3. CASE reply[l] # "authorization_pending"
      <4>1. status[l] = "absent"
            /\ reply[l] \in {"invalid_grant", "expired_token", "access_denied", "refused", "token"}
        BY <2>5, <3>0, <3>3 DEF OnPace
      <4>2. cli'[l] = Ended(reply[l]) BY <2>7, <4>1 DEF Receive, TypeOK
      <4>3. cli'[l] \in {"token", "denied", "expired", "error"}
            /\ (reply[l] \in {"token", "refused"} => cli'[l] \in {"token", "error"})
        BY <4>1, <4>2 DEF Ended
      <4>4. OnPace(l)' BY <1>0, <2>5, <3>0, <4>1, <4>3 DEF OnPace, grants, ghosts
      <4>5. OnItsWay(l)'
        BY <1>0, <2>5, <3>0, <3>1, <3>3, <4>1, <4>3 DEF OnItsWay, Late, grants, ghosts
      <4> QED BY <4>4, <4>5
    <3> QED BY <3>2, <3>3
  <2>8. CASE GiveUp(l)
    <3>0. now >= deadline[l] /\ poll' = poll BY <2>8 DEF GiveUp, server
    <3>1. CASE cli[l] = "waiting"
      <4>1. cli'[l] = "expired" /\ deadline[l] = expires[l] BY <2>5, <2>8, <3>1 DEF GiveUp, OnPace, TypeOK
      <4>2. OnPace(l)' BY <1>0, <2>5, <3>0, <4>1 DEF OnPace, grants, ghosts
      <4>3. decided[l].approve => Late(l)
        <5>1. SUFFICES ASSUME decided[l].approve, ~Late(l) PROVE FALSE OBVIOUS
        <5>2. wake[l] <= decided[l].at + Interval + 1 /\ now <= wake[l] + 1
          BY <2>5, <3>1, <5>1, TimeTypes DEF OnItsWay, OnPace
        <5> QED BY <3>0, <4>1, <5>1, <5>2, TimeTypes DEF Late
      <4>4. OnItsWay(l)' BY <1>0, <4>3 DEF OnItsWay, Late, grants, ghosts
      <4> QED BY <4>2, <4>4
    <3>2. CASE cli[l] = "polling"
      <4>1. cli'[l] = "error" BY <2>8, <3>2 DEF GiveUp, TypeOK
      <4>2. OnPace(l)' BY <1>0, <2>5, <3>0, <4>1 DEF OnPace, grants, ghosts
      <4>3. OnItsWay(l)' BY <4>1 DEF OnItsWay
      <4> QED BY <4>2, <4>3
    <3> QED BY <2>8, <3>1, <3>2 DEF GiveUp
  <2> QED BY <1>3, <2>6, <2>7, <2>8
<1> QED BY <1>2, <1>3 DEF CLI

LEMMA TimelyRecord ==
  ASSUME TypeOK, DecisionInv, TimeInv, NEW l \in Logins, NEW a \in Accounts, NEW approve \in BOOLEAN,
         status[l] = "waiting", now <= expires[l], Record(l, a, approve)
  PROVE  TimeInv'
<1>0. decided[l] = Undecided /\ Timely(l) BY DEF DecisionInv, Decided, TimeInv
<1>1. UNCHANGED <<now, expires, pace, lastPoll, poll, reply, cli, wake, wait, deadline, late, faults>>
  BY DEF Record, server, client
<1>2. ASSUME NEW k \in Logins \ {l} PROVE Timely(k)'
  <2>1. status'[k] = status[k] /\ decided'[k] = decided[k] BY <1>2 DEF Record, TypeOK
  <2> QED BY <1>1, <2>1, TimelyKept DEF TimeInv
<1>3. decided'[l] = [by |-> a, approve |-> approve, at |-> now] BY <1>0 DEF Record, TypeOK
<1>4. decided'[l].at = now /\ decided'[l].approve = approve BY <1>3
<1>5. Clock(l)' BY <1>0, <1>1, <1>4, TimeTypes DEF Timely, Clock
<1>6. ASSUME faults = 0 PROVE OnPace(l)' /\ OnItsWay(l)'
  <2>0. OnPace(l) BY <1>0, <1>6 DEF Timely
  <2>1. status'[l] = (IF approve THEN "approved" ELSE "denied") BY DEF Record, TypeOK
  <2>2. OnPace(l)'
    <3>1. status[l] # "absent" /\ status'[l] \in {"approved", "denied"} BY <2>1
    <3> QED BY <1>1, <2>0, <3>1 DEF OnPace
  <2> SUFFICES OnItsWay(l)' BY <2>2
  <2>3. CASE approve = FALSE BY <1>4, <2>3 DEF OnItsWay
  <2>4. CASE approve = TRUE
    <3>1. status'[l] = "approved" BY <2>1, <2>4
    <3>2. CASE cli[l] = "expired" BY <1>1, <1>4, <2>0, <3>2, TimeTypes DEF OnPace, OnItsWay, Late
    <3>3. CASE cli[l] # "expired"
      <4>1. cli[l] \in {"waiting", "polling", "error"} BY <2>0, <3>3 DEF OnPace
      <4>2. cli[l] = "polling" => poll[<<l, 1>>] = "issuing"
                                  \/ (poll[<<l, 1>>] = "sent" /\ wake[l] <= now)
                                  \/ (poll[<<l, 1>>] = "none" /\ reply[l] = "authorization_pending")
        BY <2>0 DEF OnPace
      <4>3. cli[l] = "waiting" => wake[l] <= now + Interval BY <2>0 DEF OnPace
      <4>4. CASE cli[l] = "waiting"
        <5>1. wake'[l] <= decided'[l].at + Interval + 1 BY <1>1, <1>4, <4>3, <4>4, TimeTypes
        <5> QED BY <1>1, <3>1, <4>4, <5>1 DEF OnItsWay
      <4>5. CASE cli[l] = "polling" /\ poll[<<l, 1>>] = "sent"
        <5>1. wake'[l] <= decided'[l].at + Interval + 1 BY <1>1, <1>4, <4>2, <4>5, TimeTypes
        <5> QED BY <1>1, <3>1, <4>5, <5>1 DEF OnItsWay
      <4>6. CASE cli[l] = "polling" /\ poll[<<l, 1>>] # "sent" BY <1>1, <3>1, <4>2, <4>6 DEF OnItsWay
      <4>7. CASE cli[l] = "error" BY <1>1, <4>7 DEF OnItsWay
      <4> QED BY <4>1, <4>4, <4>5, <4>6, <4>7
    <3> QED BY <3>2, <3>3
  <2> QED BY <2>3, <2>4
<1> QED BY <1>1, <1>2, <1>5, <1>6 DEF TimeInv, Timely

LEMMA TimelyRest ==
  ASSUME TypeOK, DecisionInv, TimeInv,
         \/ Restart \/ UNCHANGED vars
         \/ \E l \in Logins : Duplicate(l) \/ \E a \in Accounts : Revoke(a, l)
  PROVE  TimeInv'
<1>1. CASE Restart
  <2>1. faults' # 0 /\ UNCHANGED <<now, lastPoll, decided>>
    BY <1>1, AfterFault DEF Restart, Delete, ghosts
  <2> QED BY <2>1, ClockKept DEF TimeInv
<1>2. CASE UNCHANGED vars
  <2>1. \A l \in Logins : Timely(l)'
    BY <1>2, TimelyKept DEF TimeInv, vars, grants, server, client, ghosts
  <2> QED BY <1>2, <2>1 DEF TimeInv, vars
<1>3. ASSUME NEW l \in Logins, Duplicate(l) PROVE TimeInv'
  <2>1. faults' # 0 /\ UNCHANGED <<now, lastPoll, decided>>
    BY <1>3, AfterFault DEF Duplicate, grants, ghosts
  <2> QED BY <2>1, ClockKept DEF TimeInv
<1>4. ASSUME NEW l \in Logins, NEW a \in Accounts, Revoke(a, l) PROVE TimeInv'
  <2>1. \A k \in Logins : Timely(k)'
    BY <1>4, TimelyKept DEF TimeInv, Revoke, grants, server, client, ghosts
  <2> QED BY <1>4, <2>1 DEF TimeInv, Revoke
<1> QED BY <1>1, <1>2, <1>3, <1>4

LEMMA TimelyTick ==
  ASSUME TypeOK, DecisionInv, TimeInv, Tick
  PROVE  TimeInv'
<1>0. now' = now + 1 /\ late = {} /\ now < MaxTime /\ late' = {l \in Logins : Busy(l)}
      /\ UNCHANGED <<grants, server, reply, client, ghosts, faults>>
  BY DEF Tick
<1>1. now' <= MaxTime BY <1>0, DeviceAssumption DEF TypeOK, Times
<1>2. ASSUME NEW l \in Logins PROVE Timely(l)'
  <2>0. Timely(l) BY DEF TimeInv
  <2>1. Clock(l)' BY <1>0, <2>0, TimeTypes DEF Timely, Clock, grants, ghosts
  <2>2. SUFFICES ASSUME faults = 0 PROVE OnPace(l)' /\ OnItsWay(l)' BY <1>0, <2>1 DEF Timely
  <2>3. OnPace(l) /\ OnItsWay(l) BY <2>0, <2>2 DEF Timely
  <2>4. cli[l] = "polling" \/ (cli[l] = "waiting" /\ now >= wake[l]) => l \in late'
    BY <1>0 DEF Busy
  <2>5. OnPace(l)'
    <3>1. CASE cli[l] = "waiting" BY <1>0, <2>3, <2>4, <3>1, TimeTypes DEF OnPace, grants, server, client
    <3>2. CASE cli[l] = "polling" BY <1>0, <2>3, <2>4, <3>2, TimeTypes DEF OnPace, grants, server, client
    <3>3. CASE cli[l] \notin {"waiting", "polling"}
      BY <1>0, <2>3, <3>3, TimeTypes DEF OnPace, grants, server, client
    <3> QED BY <3>1, <3>2, <3>3
  <2>6. OnItsWay(l)' BY <1>0, <2>3 DEF OnItsWay, Late, grants, server, client, ghosts
  <2> QED BY <2>5, <2>6
<1> QED BY <1>1, <1>2 DEF TimeInv

LEMMA TimeNext == TypeOK /\ DecisionInv /\ TimeInv /\ [Next]_vars => TimeInv'
<1> SUFFICES ASSUME TypeOK, DecisionInv, TimeInv, [Next]_vars PROVE TimeInv' OBVIOUS
<1>1. ASSUME NEW l \in Logins,
             (\E u \in Codes : Start(l, u) \/ StartLost(l, u)) \/ StartRefused(l) \/ CLI(l)
      PROVE  TimeInv'
  BY <1>1, TimelyStart, TimelyRefused, TimelyCLI
<1>2. CASE Hub BY <1>2, TimelyServe, TimelyIssue DEF Hub
<1>3. ASSUME NEW a \in Accounts, NEW u \in Codes, NEW approve \in BOOLEAN, Decide(u, a, approve)
      PROVE  TimeInv'
  BY <1>3, TimelyRecord DEF Decide, TypeOK
<1> QED BY <1>1, <1>2, <1>3, TimelyRest, TimelyTick DEF Next, Browser

-------------------------------------------------------------------------------
(* The theorems. *)

LEMMA DeviceInit == Init => DeviceIInv
<1> SUFFICES ASSUME Init PROVE DeviceIInv OBVIOUS
<1>1. TypeOK BY TypeInit
<1>2. Live = {} /\ Cardinality({}) = 0 BY FS_EmptySet DEF Live, Init
<1>3. MapsInv
  BY <1>1, <1>2, DeviceAssumption
     DEF MapsInv, MapsAgree, PairedInv, PendingIsBounded, OneTokenPerMachine, Init
<1>4. DecisionInv
  <2>1. \A l \in Logins, i \in {1, 2} : <<l, i>> \in Deliveries BY DEF Deliveries
  <2> QED BY <2>1 DEF DecisionInv, TokensInv, Decided, Init
<1>5. TimeInv
  <2>1. \A l \in Logins, i \in {1, 2} : <<l, i>> \in Deliveries BY DEF Deliveries
  <2>2. ASSUME NEW l \in Logins PROVE Timely(l)
    <3>1. cli[l] = "idle" /\ status[l] = "absent" /\ lastPoll[l] = 0 /\ decided[l] = Undecided
          /\ now = Interval /\ poll[<<l, 2>>] = "none"
      BY <2>1 DEF Init
    <3>2. Clock(l) BY <3>1, DeviceAssumption DEF Clock, Undecided
    <3>3. OnPace(l) BY <3>1 DEF OnPace
    <3>4. OnItsWay(l) BY <3>1 DEF OnItsWay, Undecided
    <3> QED BY <3>2, <3>3, <3>4 DEF Timely
  <2> QED BY <2>2, DeviceAssumption DEF TimeInv, Init
<1> QED BY <1>3, <1>4, <1>5 DEF DeviceIInv

LEMMA DeviceNext == DeviceIInv /\ [Next]_vars => DeviceIInv'
<1> SUFFICES ASSUME DeviceIInv, [Next]_vars PROVE DeviceIInv' OBVIOUS
<1>1. TypeOK BY DEF DeviceIInv, MapsInv
<1> QED BY <1>1, MapsNext, DecisionNext, TimeNext, FreshLogins DEF DeviceIInv

LEMMA TokenOnce == DeviceIInv => OneTokenPerLogin
<1> SUFFICES ASSUME DeviceIInv PROVE OneTokenPerLogin OBVIOUS
<1>1. ASSUME NEW r \in Deliveries, grant[r] # None
      PROVE  decided[r[1]].approve /\ decided[r[1]].by = grant[r]
  <2>1. r[1] \in Logins /\ r[2] \in {1, 2} /\ r = <<r[1], r[2]>> BY Delivery
  <2>2. Decided(r[1]) BY <2>1 DEF DeviceIInv, DecisionInv
  <2>3. grant[<<r[1], r[2]>>] # None BY <1>1, <2>1
  <2> QED BY <2>1, <2>2, <2>3 DEF Decided
<1> QED BY <1>1 DEF DeviceIInv, DecisionInv, TokensInv, Decided, OneTokenPerLogin

\* The inductive invariant of the device login: the two maps of deviceFlows name the
\* same requests, a login has one grant or one token and never more, and without a
\* fault the CLI and the hub keep pace.
THEOREM DeviceIsSound == Spec => []DeviceIInv
<1> QED BY DeviceInit, DeviceNext, PTL DEF Spec

\* However polls are duplicated, answers lost and the hub restarted, a login yields at
\* most one token, and that of the account whose decision came first.
THEOREM ApprovedOnce == Spec => []OneTokenPerLogin
<1>1. DeviceIInv => OneTokenPerLogin BY TokenOnce
<1> QED BY <1>1, DeviceIsSound, PTL

\* byUser and byDevice name the same pending requests, at most maxPendingDevices, a login
\* yields one token, and concurrent logins of a machine leave it one.
THEOREM PendingIsSound == Spec => []DeviceInv
<1>1. DeviceIInv => DeviceInv BY TokenOnce DEF DeviceIInv, MapsInv, DeviceInv
<1> QED BY <1>1, DeviceIsSound, PTL

\* Without a fault, a login that was approved at least Interval + 3 ticks before its
\* request expires does not end as expired.
THEOREM ApprovalArrives == Spec => []ApprovedInTimeIsKept
<1>1. DeviceIInv => ApprovedInTimeIsKept
  BY DEF DeviceIInv, TimeInv, Timely, OnItsWay, Late, ApprovedInTimeIsKept
<1> QED BY <1>1, DeviceIsSound, PTL

=============================================================================
