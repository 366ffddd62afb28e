----------------------------- MODULE RecordsProofs -----------------------------
(***************************************************************************)
(* Two records of the hub that are written back whole.  An account: no     *)
(* refresh token is presented twice unless an answer, a write or a re-read *)
(* was lost, it never holds too many agent tokens, and only a whole-record *)
(* write undoes what was done to them.  A repository: an open page with    *)
(* nothing under way shows what is stored, unless an event was lost,       *)
(* overtaken or late.  Proofs for any number of goroutines, credentials,   *)
(* tokens and requests.                                                    *)
(***************************************************************************)
EXTENDS HubAccount, RepoPage, FiniteSetTheorems, WellFoundedInduction, TLAPS

-------------------------------------------------------------------------------
(* The account.                                                                *)


\* The goroutine that holds Manager.mu, and no other, is between lock and unlock.
MutexInv == \A c \in Calls : pc[c] \in {"locked", "refresh", "save"} <=> mu = c

\* What was issued, has expired and was used, in the order of the numbers.
CredInv ==
    /\ cred <= issued /\ expired <= issued
    /\ \A p \in Procs : copyCred[p] <= issued
    /\ \A x \in consumed : x <= expired
    /\ \A s \in SignIns : pc[s] \in {"exchanged", "signed"} => got[s] > expired /\ got[s] <= issued
    /\ \A c \in Calls : pc[c] \in {"refresh", "save"} => copyCred[c] <= expired
    /\ \A c \in Calls : pc[c] = "save" => got[c] <= issued /\ \A x \in consumed : x < got[c]

\* A credential that was used is older than the stored one, or its successor is about
\* to be stored, or was lost.
SpentInv ==
    /\ \A x \in consumed \ orphaned :
        x < cred \/ \E c \in Calls : mu = c /\ pc[c] = "save" /\ copyCred[c] = x
    /\ \A c \in Calls : pc[c] = "refresh" /\ copyCred[c] \in consumed =>
                        copyCred[c] \in orphaned \/ c \in unread

\* The inductive invariant.
AccountIInv == AccountInv /\ MutexInv /\ CredInv /\ SpentInv

-------------------------------------------------------------------------------
(* Agent tokens. *)

LEMMA FiniteTokens ==
  \A S : S \subseteq TokenIds => IsFiniteSet(S) /\ Cardinality(S) \in Nat
BY AccountAssumption, FS_Subset, FS_CardinalityType

\* Removing tokens keeps the bound.
LEMMA FewerTokens ==
  ASSUME NEW S, NEW T, S \subseteq TokenIds, T \subseteq S, Cardinality(S) <= MaxTokens
  PROVE  Cardinality(T) <= MaxTokens
<1>1. Cardinality(T) <= Cardinality(S) /\ Cardinality(S) \in Nat /\ Cardinality(T) \in Nat
  BY FiniteTokens, FS_Subset
<1> QED BY <1>1, AccountAssumption

\* A token is issued only where one of those kept makes room for it.
LEMMA RoomForOne ==
  ASSUME AccountInv, NEW t \in TokenIds, NEW replace \in BOOLEAN, Issue(t, replace)
  PROVE  tokens' \subseteq TokenIds /\ Cardinality(tokens') <= MaxTokens
<1> DEFINE K == Kept(t, replace)
<1>1. K \subseteq tokens /\ K \subseteq TokenIds /\ t \notin K
  BY DEF Kept, Issue, AccountInv, TypeOK
<1>2. Cardinality(K \cup {t}) = Cardinality(K) + 1 BY <1>1, FiniteTokens, FS_AddElement
<1>3. Cardinality(K) \in Nat /\ Cardinality(K) < MaxTokens BY <1>1, FiniteTokens DEF Issue
<1>4. tokens' = K \cup {t} BY DEF Issue
<1> QED BY <1>1, <1>2, <1>3, <1>4, AccountAssumption

-------------------------------------------------------------------------------
(* The steps. *)

LEMMA AccountInit == Init => AccountIInv
<1> SUFFICES ASSUME Init PROVE AccountIInv OBVIOUS
<1> USE DEF Init
<1>1. TypeOK BY AccountAssumption DEF TypeOK, Serials
<1>2. Cardinality({}) <= MaxTokens BY FS_EmptySet, AccountAssumption
<1>3. AccountInv BY <1>1, <1>2 DEF AccountInv, TokensAreBounded
<1>4. MutexInv BY AccountAssumption DEF MutexInv, Procs
<1>5. CredInv BY DEF CredInv, Procs
<1>6. SpentInv BY DEF SpentInv, Procs
<1> QED BY <1>3, <1>4, <1>5, <1>6 DEF AccountIInv

\* Types and the bound of the tokens.
LEMMA AccountInvNext == AccountInv /\ [Next]_vars => AccountInv'
<1> SUFFICES ASSUME AccountInv, [Next]_vars PROVE AccountInv' OBVIOUS
<1> USE DEF AccountInv, TokensAreBounded
<1>0. \A i \in Serials : i < MaxIssued => i + 1 \in Serials BY AccountAssumption DEF Serials
<1>1. 0 \in Serials /\ 0 \in 0..MaxFailures BY AccountAssumption DEF Serials
<1>2. Cardinality({}) <= MaxTokens BY FS_EmptySet, AccountAssumption
\* A goroutine that reads the record, or ends, holds no more tokens than the record.
<1>3. ASSUME NEW p \in Procs, ReadRecord(p)
      PROVE  /\ copyCred' \in [Procs -> Serials] /\ copyTokens' \in [Procs -> SUBSET TokenIds]
             /\ \A q \in Procs : Cardinality(copyTokens'[q]) <= MaxTokens
  BY <1>3 DEF ReadRecord, TypeOK
<1>4. ASSUME NEW p \in Procs, Leave(p)
      PROVE  /\ pc' \in [Procs -> {"idle", "loaded", "locked", "refresh", "save",
                                    "exchanged", "signed", "known"}]
             /\ copyCred' \in [Procs -> Serials] /\ copyTokens' \in [Procs -> SUBSET TokenIds]
             /\ got' \in [Procs -> Serials]
             /\ \A q \in Procs : Cardinality(copyTokens'[q]) <= MaxTokens
  BY <1>4, <1>1, <1>2 DEF Leave, TypeOK
<1>5. ASSUME NEW c \in Calls, Call(c) PROVE AccountInv'
  <2> USE DEF TypeOK, forge, ghosts
  <2>0. c \in Procs BY DEF Procs
  <2>1. CASE LoadUser(c) BY <2>0, <2>1, <1>3 DEF LoadUser, Goto
  <2>2. CASE Lock(c) BY <2>0, <2>2 DEF Lock, Goto
  <2>3. CASE CannotServe(c) \/ StillValid(c) \/ Adopt(c)
    BY <2>0, <2>3, <1>4 DEF CannotServe, StillValid, Adopt, Return
  <2>4. CASE AskForge(c) BY <2>0, <2>4 DEF AskForge, Goto
  <2>5. CASE RereadFails(c)
    <3>1. failures' \in 0..MaxFailures BY <2>5, AccountAssumption DEF RereadFails
    <3> QED BY <2>0, <2>5, <3>1 DEF RereadFails, Goto
  <2>6. CASE Refreshed(c)
    <3>1. issued' \in Serials /\ consumed' \subseteq Serials
      BY <2>0, <2>6, <1>0 DEF Refreshed, Rotate, Serials
    <3> QED BY <2>0, <2>6, <3>1 DEF Refreshed, Rotate, Goto
  <2>7. CASE RefreshFails(c) BY <2>0, <2>7, <1>4 DEF RefreshFails, Return
  <2>8. CASE RefreshLost(c)
    <3>1. issued' \in Serials /\ consumed' \subseteq Serials /\ orphaned' \subseteq Serials
      BY <2>0, <2>8, <1>0 DEF RefreshLost, Rotate, Serials
    <3>2. failures' \in 0..MaxFailures BY <2>8, AccountAssumption DEF RefreshLost
    <3> QED BY <2>0, <2>8, <3>1, <3>2, <1>4 DEF RefreshLost, Rotate, Return
  <2>9. CASE Save(c) BY <2>0, <2>9, <1>4 DEF Save, Return
  <2>10. CASE SaveFails(c)
    <3>1. failures' \in 0..MaxFailures BY <2>10, AccountAssumption DEF SaveFails
    <3> QED BY <2>0, <2>10, <3>1, <1>4 DEF SaveFails, Return
  <2> QED BY <1>5, <2>1, <2>2, <2>3, <2>4, <2>5, <2>6, <2>7, <2>8, <2>9, <2>10 DEF Call
<1>6. ASSUME NEW s \in SignIns, SignIn(s) PROVE AccountInv'
  <2> USE DEF TypeOK, forge, ghosts
  <2>0. s \in Procs BY DEF Procs
  <2>1. CASE Exchange(s) BY <2>0, <2>1, <1>0 DEF Exchange, Goto, Serials
  <2>2. CASE LoadAccount(s) BY <2>0, <2>2, <1>3 DEF LoadAccount, Goto
  <2>5. CASE LoadAccountFails(s)
    <3>1. failures' \in 0..MaxFailures BY <2>5, AccountAssumption DEF LoadAccountFails
    <3>2. /\ copyTokens' \in [Procs -> SUBSET TokenIds]
          /\ \A q \in Procs : Cardinality(copyTokens'[q]) <= MaxTokens
      BY <2>0, <2>5, <1>2 DEF LoadAccountFails
    <3> QED BY <2>0, <2>5, <3>1, <3>2 DEF LoadAccountFails, Goto
  <2>3. CASE SaveAccount(s) BY <2>0, <2>3, <1>4 DEF SaveAccount
  <2>4. CASE SaveAccountFails(s)
    <3>1. failures' \in 0..MaxFailures BY <2>4, AccountAssumption DEF SaveAccountFails
    <3> QED BY <2>0, <2>4, <3>1, <1>4 DEF SaveAccountFails
  <2> QED BY <1>6, <2>1, <2>2, <2>3, <2>4, <2>5 DEF SignIn
<1>7. ASSUME NEW t \in TokenIds, Revoke(t) PROVE AccountInv'
  <2>1. tokens' \subseteq tokens /\ Cardinality(tokens') <= MaxTokens
    BY <1>7, FewerTokens DEF Revoke, TypeOK
  <2> QED BY <2>1, <1>7 DEF Revoke, TypeOK, forge
<1>8. ASSUME NEW t \in TokenIds, Lapse(t) PROVE AccountInv'
  BY <1>8 DEF Lapse, TypeOK, forge
<1>9. ASSUME NEW t \in TokenIds, NEW replace \in BOOLEAN, Issue(t, replace) PROVE AccountInv'
  <2>1. tokens' \subseteq TokenIds /\ Cardinality(tokens') <= MaxTokens BY <1>9, RoomForOne
  <2> QED BY <2>1, <1>9 DEF Issue, TypeOK, forge
<1>10. ASSUME NEW t \in TokenIds, NEW a \in Agents, Authenticate(a, t) PROVE AccountInv'
  <2>1. a \in Procs BY DEF Procs
  <2> QED BY <2>1, <1>10, <1>3 DEF Authenticate, Goto, TypeOK, forge, ghosts
<1>11. ASSUME NEW a \in Agents, Touch(a) PROVE AccountInv'
  <2>1. a \in Procs BY DEF Procs
  <2> QED BY <2>1, <1>11, <1>4 DEF Touch, TypeOK, forge, ghosts
<1>12. CASE Expire
  <2>1. expired' \in Serials BY <1>12, AccountAssumption DEF Expire, TypeOK, Serials
  <2> QED BY <2>1, <1>12 DEF Expire, TypeOK, ghosts
<1>13. CASE UNCHANGED vars BY <1>13 DEF vars, TypeOK, forge, ghosts
<1> QED BY <1>5, <1>6, <1>7, <1>8, <1>9, <1>10, <1>11, <1>12, <1>13 DEF Next

-------------------------------------------------------------------------------
(* The mutex. *)

\* A step of a goroutine that takes no part in the mutex.
LEMMA MutexKept ==
  ASSUME MutexInv, UNCHANGED mu, NEW p \in Procs, TypeOK,
         \A q \in Procs \ {p} : pc'[q] = pc[q],
         p \in Calls => (pc[p] \in {"locked", "refresh", "save"} <=> pc'[p] \in {"locked", "refresh", "save"})
  PROVE  MutexInv'
BY DEF MutexInv, Procs

LEMMA MutexNext == AccountIInv /\ [Next]_vars => MutexInv'
<1> SUFFICES ASSUME AccountIInv, [Next]_vars PROVE MutexInv' OBVIOUS
<1> USE DEF AccountIInv, AccountInv
<1>1. ASSUME NEW c \in Calls, Call(c) PROVE MutexInv'
  <2>0. c \in Procs /\ c # None BY AccountAssumption DEF Procs
  <2>1. CASE LoadUser(c) \/ AskForge(c) \/ RereadFails(c) \/ Refreshed(c)
    <3>1. UNCHANGED mu /\ \A q \in Procs \ {c} : pc'[q] = pc[q]
      BY <2>1, <2>0 DEF LoadUser, AskForge, RereadFails, Refreshed, Goto, TypeOK
    <3>2. pc[c] \in {"locked", "refresh", "save"} <=> pc'[c] \in {"locked", "refresh", "save"}
      BY <2>1, <2>0 DEF LoadUser, AskForge, RereadFails, Refreshed, Goto, TypeOK
    <3> QED BY <3>1, <3>2, <2>0, MutexKept
  <2>2. CASE Lock(c) BY <2>2, <2>0, AccountAssumption DEF Lock, Goto, MutexInv, TypeOK, Procs
  <2>3. CASE pc[c] \in {"locked", "refresh", "save"} /\ Return(c)
    BY <2>3, <2>0, AccountAssumption DEF Return, Leave, MutexInv, TypeOK, Procs
  <2> QED BY <1>1, <2>1, <2>2, <2>3
          DEF Call, CannotServe, StillValid, Adopt, RefreshFails, RefreshLost, Save, SaveFails
<1>2. ASSUME NEW p \in SignIns \cup Agents, UNCHANGED mu, \A q \in Procs \ {p} : pc'[q] = pc[q]
      PROVE  MutexInv'
  BY <1>2, MutexKept, AccountAssumption DEF Procs
<1>3. ASSUME NEW s \in SignIns, SignIn(s) PROVE MutexInv'
  BY <1>3, <1>2 DEF SignIn, Exchange, LoadAccount, LoadAccountFails, SaveAccount, SaveAccountFails,
                     Leave, Goto, TypeOK
<1>4. ASSUME NEW a \in Agents, NEW t \in TokenIds, Authenticate(a, t) PROVE MutexInv'
  BY <1>4, <1>2 DEF Authenticate, Goto, TypeOK
<1>5. ASSUME NEW a \in Agents, Touch(a) PROVE MutexInv'
  BY <1>5, <1>2 DEF Touch, Leave, TypeOK
<1>6. CASE UNCHANGED <<mu, pc>> BY <1>6 DEF MutexInv
<1> QED BY <1>1, <1>3, <1>4, <1>5, <1>6 DEF Next, Revoke, Lapse, Issue, Expire, vars

-------------------------------------------------------------------------------
(* Credentials. *)

\* What a step of another goroutine, or of the clock, may not disturb.
LEMMA CredNext == AccountIInv /\ [Next]_vars => CredInv'
<1> SUFFICES ASSUME AccountIInv, [Next]_vars PROVE CredInv' OBVIOUS
<1> USE DEF AccountIInv, AccountInv
<1>0. /\ cred \in Nat /\ issued \in Nat /\ expired \in Nat
      /\ \A p \in Procs : copyCred[p] \in Nat /\ got[p] \in Nat
      /\ \A x \in consumed : x \in Nat
  BY AccountAssumption DEF TypeOK, Serials
<1>1. ASSUME NEW c \in Calls, Call(c) PROVE CredInv'
  <2>0. c \in Procs /\ \A s \in SignIns : s \in Procs /\ s # c BY AccountAssumption DEF Procs
  <2>00. \A q \in Calls : q \in Procs BY DEF Procs
  <2> USE DEF TypeOK, CredInv, forge, ghosts
  <2>1. CASE LoadUser(c) BY <2>0, <2>00, <2>1, <1>0 DEF LoadUser, Goto, ReadRecord
  <2>2. CASE Lock(c) BY <2>0, <2>00, <2>2, <1>0 DEF Lock, Goto
  <2>3. CASE Return(c) /\ UNCHANGED <<cred, forge>>
    BY <2>0, <2>00, <2>3, <1>0 DEF Return, Leave
  <2>4. CASE AskForge(c) BY <2>0, <2>00, <2>4, <1>0 DEF AskForge, Goto
  <2>5. CASE RereadFails(c) BY <2>0, <2>00, <2>5, <1>0 DEF RereadFails, Goto
  <2>6. CASE Refreshed(c)
    <3>1. copyCred[c] <= expired /\ copyCred[c] <= issued BY <2>0, <2>6 DEF Refreshed, Goto
    <3>2. \A q \in Calls \ {c} : pc[q] # "save" BY <2>6 DEF Refreshed, Goto, MutexInv
    <3>3. issued' = issued + 1 /\ consumed' = consumed \cup {copyCred[c]} /\ got'[c] = issued + 1
      BY <2>0, <2>6 DEF Refreshed, Rotate
    <3>4. /\ pc'[c] = "save" /\ \A q \in Procs \ {c} : pc'[q] = pc[q] /\ got'[q] = got[q]
          /\ UNCHANGED <<cred, copyCred, expired>>
      BY <2>0, <2>6 DEF Refreshed, Rotate, Goto
    <3>5. \A x \in consumed' : x <= expired /\ x < issued + 1 BY <3>1, <3>3, <1>0, <2>0
    <3>6. \A q \in Calls : pc'[q] = "save" => got'[q] <= issued' /\ \A x \in consumed' : x < got'[q]
      BY <3>2, <3>3, <3>4, <3>5, <2>00, <1>0
    <3>7. \A s \in SignIns : pc'[s] \in {"exchanged", "signed"} => got'[s] > expired' /\ got'[s] <= issued'
      BY <3>3, <3>4, <2>0, <1>0
    <3>8. \A q \in Calls : pc'[q] \in {"refresh", "save"} => copyCred'[q] <= expired'
      BY <3>1, <3>4, <2>00, <1>0
    <3>9. cred' <= issued' /\ expired' <= issued' /\ \A p \in Procs : copyCred'[p] <= issued'
      BY <3>3, <3>4, <1>0
    <3> QED BY <3>4, <3>5, <3>6, <3>7, <3>8, <3>9
  <2>8. CASE RefreshLost(c)
    <3>1. copyCred[c] <= expired /\ copyCred[c] <= issued BY <2>0, <2>8 DEF RefreshLost
    <3>2. \A q \in Calls \ {c} : pc[q] # "save" BY <2>8 DEF RefreshLost, MutexInv
    <3>3. issued' = issued + 1 /\ consumed' = consumed \cup {copyCred[c]}
      BY <2>0, <2>8 DEF RefreshLost, Rotate
    <3>4. /\ pc'[c] = "idle"
          /\ \A q \in Procs \ {c} : pc'[q] = pc[q] /\ got'[q] = got[q] /\ copyCred'[q] = copyCred[q]
          /\ copyCred'[c] = 0 /\ UNCHANGED <<cred, expired>>
      BY <2>0, <2>8 DEF RefreshLost, Rotate, Return, Leave
    <3>5. \A x \in consumed' : x <= expired BY <3>1, <3>3, <1>0, <2>0
    <3>6. \A q \in Calls : pc'[q] # "save" BY <3>2, <3>4, <2>00
    <3>7. \A s \in SignIns : pc'[s] \in {"exchanged", "signed"} => got'[s] > expired' /\ got'[s] <= issued'
      BY <3>3, <3>4, <2>0, <1>0
    <3>8. \A q \in Calls : pc'[q] \in {"refresh", "save"} => copyCred'[q] <= expired'
      BY <3>4, <2>00, <1>0
    <3>9. cred' <= issued' /\ expired' <= issued' /\ \A p \in Procs : copyCred'[p] <= issued'
      BY <3>3, <3>4, <1>0
    <3> QED BY <3>4, <3>5, <3>6, <3>7, <3>8, <3>9
  <2>9. CASE Save(c)
    <3>1. cred' = got[c] /\ got[c] <= issued BY <2>9, <2>0 DEF Save
    <3>2. /\ pc'[c] = "idle" /\ copyCred'[c] = 0
          /\ \A q \in Procs \ {c} : pc'[q] = pc[q] /\ copyCred'[q] = copyCred[q] /\ got'[q] = got[q]
          /\ UNCHANGED <<issued, consumed, expired>>
      BY <2>9, <2>0 DEF Save, Return, Leave
    <3> QED BY <3>1, <3>2, <2>0, <2>00, <1>0
  <2>10. CASE SaveFails(c) BY <2>0, <2>00, <2>10, <1>0 DEF SaveFails, Return, Leave
  <2> QED BY <1>1, <2>1, <2>2, <2>3, <2>4, <2>5, <2>6, <2>8, <2>9, <2>10
          DEF Call, CannotServe, StillValid, Adopt, RefreshFails
<1>2. ASSUME NEW s \in SignIns, SignIn(s) PROVE CredInv'
  <2>0. s \in Procs /\ \A q \in Calls : q \in Procs /\ s # q BY AccountAssumption DEF Procs
  <2>00. \A q \in SignIns : q \in Procs BY DEF Procs
  <2> USE DEF TypeOK, CredInv, forge, ghosts
  <2>1. CASE Exchange(s)
    <3>1. /\ issued' = issued + 1 /\ got'[s] = issued + 1
          /\ \A q \in Procs \ {s} : pc'[q] = pc[q] /\ got'[q] = got[q]
          /\ UNCHANGED <<cred, copyCred, consumed, expired>>
      BY <2>1, <2>0 DEF Exchange, Goto
    <3>2. \A c \in Calls : pc'[c] = pc[c] /\ got'[c] = got[c] /\ copyCred'[c] = copyCred[c]
      BY <3>1, <2>0
    <3>3. \A q \in SignIns : pc'[q] \in {"exchanged", "signed"} => got'[q] > expired' /\ got'[q] <= issued'
      BY <3>1, <2>00, <1>0
    <3>4. \A c \in Calls : pc'[c] = "save" => got'[c] <= issued' /\ \A x \in consumed' : x < got'[c]
      BY <3>1, <3>2, <2>0, <1>0
    <3>5. \A c \in Calls : pc'[c] \in {"refresh", "save"} => copyCred'[c] <= expired'
      BY <3>1, <3>2
    <3>6. cred' <= issued' /\ expired' <= issued' /\ \A p \in Procs : copyCred'[p] <= issued'
      BY <3>1, <1>0
    <3>7. \A x \in consumed' : x <= expired' BY <3>1
    <3> QED BY <3>3, <3>4, <3>5, <3>6, <3>7
  <2>2. CASE LoadAccount(s) BY <2>0, <2>00, <2>2, <1>0 DEF LoadAccount, Goto, ReadRecord
  <2>5. CASE LoadAccountFails(s) BY <2>0, <2>00, <2>5, <1>0 DEF LoadAccountFails, Goto
  <2>3. CASE SaveAccount(s) BY <2>0, <2>00, <2>3, <1>0 DEF SaveAccount, Leave
  <2>4. CASE SaveAccountFails(s) BY <2>0, <2>00, <2>4, <1>0 DEF SaveAccountFails, Leave
  <2> QED BY <1>2, <2>1, <2>2, <2>3, <2>4, <2>5 DEF SignIn
<1>3. ASSUME NEW a \in Agents, NEW t \in TokenIds, Authenticate(a, t) PROVE CredInv'
  <2>1. a \in Procs /\ \A q \in Calls \cup SignIns : q \in Procs /\ q # a
    BY AccountAssumption DEF Procs
  <2> QED BY <2>1, <1>3, <1>0 DEF Authenticate, Goto, ReadRecord, TypeOK, CredInv, forge
<1>4. ASSUME NEW a \in Agents, Touch(a) PROVE CredInv'
  <2>1. a \in Procs /\ \A q \in Calls \cup SignIns : q \in Procs /\ q # a
    BY AccountAssumption DEF Procs
  <2> QED BY <2>1, <1>4, <1>0 DEF Touch, Leave, TypeOK, CredInv, forge
<1>5. CASE Expire
  <2>1. \A q \in Calls \cup SignIns : q \in Procs BY DEF Procs
  <2> QED BY <2>1, <1>5, <1>0 DEF Expire, CredInv
<1>6. CASE UNCHANGED <<cred, pc, copyCred, got, forge>>
  BY <1>6 DEF CredInv, forge
<1> QED BY <1>1, <1>2, <1>3, <1>4, <1>5, <1>6 DEF Next, Revoke, Lapse, Issue, vars

\* A step that uses no credential, stores no older one and leaves the call that is about
\* to store a successor keeps what was used behind what is stored.
LEMMA SpentKept ==
  ASSUME SpentInv, cred' = cred, mu' = mu, consumed' = consumed, orphaned \subseteq orphaned',
         \A c \in Calls : pc[c] = "save" => pc'[c] = "save" /\ copyCred'[c] = copyCred[c],
         \A c \in Calls : pc'[c] = "refresh" =>
           pc[c] = "refresh" /\ copyCred'[c] = copyCred[c] /\ (c \in unread => c \in unread')
  PROVE  SpentInv'
<1>1. ASSUME NEW x \in consumed' \ orphaned'
      PROVE  x < cred' \/ \E c \in Calls : mu' = c /\ pc'[c] = "save" /\ copyCred'[c] = x
  BY <1>1 DEF SpentInv
<1>2. \A c \in Calls : pc'[c] = "refresh" /\ copyCred'[c] \in consumed' =>
                       copyCred'[c] \in orphaned' \/ c \in unread'
  BY DEF SpentInv
<1> QED BY <1>1, <1>2 DEF SpentInv

LEMMA SpentNext == AccountIInv /\ [Next]_vars => SpentInv'
<1> SUFFICES ASSUME AccountIInv, [Next]_vars PROVE SpentInv' OBVIOUS
<1> USE DEF AccountIInv, AccountInv
<1>0. /\ cred \in Nat /\ issued \in Nat /\ expired \in Nat
      /\ \A p \in Procs : copyCred[p] \in Nat /\ got[p] \in Nat
      /\ \A x \in consumed : x \in Nat
  BY AccountAssumption DEF TypeOK, Serials
<1>1. ASSUME NEW c \in Calls, Call(c) PROVE SpentInv'
  <2>0. c \in Procs /\ (\A q \in Calls : q \in Procs) /\ c # None BY AccountAssumption DEF Procs
  \* The mutex excludes another call that refreshes or saves.
  <2>a. pc[c] \in {"locked", "refresh", "save"}
        => mu = c /\ \A q \in Calls \ {c} : pc[q] \notin {"refresh", "save"}
    BY DEF MutexInv
  <2>1. CASE LoadUser(c)
    BY <2>0, <2>1, SpentKept DEF LoadUser, Goto, ReadRecord, TypeOK, forge
  \* Nobody saves while the mutex is free.
  <2>2. CASE Lock(c)
    <3>1. \A q \in Calls : pc[q] # "save" BY <2>2, AccountAssumption DEF Lock, MutexInv
    <3> QED BY <2>0, <2>2, <3>1 DEF Lock, Goto, SpentInv, TypeOK, forge
  <2>3. CASE /\ pc[c] \in {"locked", "refresh"} /\ Return(c)
             /\ UNCHANGED <<cred, forge>>
    <3>1. \A q \in Calls : pc[q] # "save"
      BY <2>3, <2>a
    <3>2. /\ pc'[c] = "idle"
          /\ \A q \in Procs \ {c} : pc'[q] = pc[q] /\ copyCred'[q] = copyCred[q]
          /\ \A q \in Calls \ {c} : pc'[q] # "refresh"
      BY <2>3, <2>0, <2>a DEF Return, Leave, TypeOK
    <3> QED BY <2>0, <2>3, <3>1, <3>2 DEF SpentInv, forge
  \* The credential it presents was not used, unless the successor was lost.
  <2>4. CASE AskForge(c)
    <3>1. \A q \in Calls : pc[q] # "save" BY <2>4, <2>a DEF AskForge, Goto
    <3>2. copyCred[c] \in consumed => copyCred[c] \in orphaned
      BY <3>1, <2>4, <2>0, <1>0 DEF AskForge, SpentInv
    <3> QED BY <2>0, <2>4, <3>1, <3>2 DEF AskForge, Goto, SpentInv, TypeOK, forge
  \* It may have been used, and the call could not read that.
  <2>9. CASE RereadFails(c)
    <3>1. \A q \in Calls : pc[q] # "save" BY <2>9, <2>a DEF RereadFails, Goto
    <3> QED BY <2>0, <2>9, <3>1 DEF RereadFails, Goto, SpentInv, TypeOK, forge
  \* The successor of what it used is about to be stored.
  <2>5. CASE Refreshed(c)
    <3>1. mu = c /\ \A q \in Calls \ {c} : pc[q] \notin {"refresh", "save"}
      BY <2>5, <2>a DEF Refreshed, Goto
    <3>2. /\ pc[c] = "refresh" /\ pc'[c] = "save" /\ \A q \in Procs \ {c} : pc'[q] = pc[q]
          /\ consumed' = consumed \cup {copyCred[c]} /\ UNCHANGED <<cred, mu, copyCred, orphaned>>
      BY <2>5, <2>0 DEF Refreshed, Rotate, Goto, TypeOK
    <3> QED BY <2>0, <3>1, <3>2 DEF SpentInv
  \* It is lost: the credential it used is orphaned.
  <2>6. CASE RefreshLost(c)
    <3>1. \A q \in Calls \ {c} : pc[q] \notin {"refresh", "save"} BY <2>6, <2>a DEF RefreshLost
    <3>2. /\ pc[c] = "refresh" /\ pc'[c] = "idle" /\ \A q \in Procs \ {c} : pc'[q] = pc[q]
          /\ consumed' = consumed \cup {copyCred[c]} /\ orphaned' = orphaned \cup {copyCred[c]}
          /\ UNCHANGED cred
      BY <2>6, <2>0 DEF RefreshLost, Rotate, Return, Leave, TypeOK
    <3> QED BY <2>0, <3>1, <3>2 DEF SpentInv
  \* What it stores is younger than everything used.
  <2>7. CASE Save(c)
    <3>1. \A q \in Calls \ {c} : pc[q] \notin {"refresh", "save"} BY <2>7, <2>a DEF Save
    <3>2. /\ pc[c] = "save" /\ pc'[c] = "idle" /\ \A q \in Procs \ {c} : pc'[q] = pc[q]
          /\ cred' = got[c] /\ UNCHANGED <<consumed, orphaned>>
      BY <2>7, <2>0 DEF Save, Return, Leave, TypeOK, forge
    <3>3. \A x \in consumed : x < got[c] BY <3>2 DEF CredInv
    <3> QED BY <2>0, <3>1, <3>2, <3>3 DEF SpentInv
  <2>8. CASE SaveFails(c)
    <3>1. \A q \in Calls \ {c} : pc[q] \notin {"refresh", "save"} BY <2>8, <2>a DEF SaveFails
    <3>2. /\ pc'[c] = "idle" /\ \A q \in Procs \ {c} : pc'[q] = pc[q]
          /\ orphaned' = orphaned \cup {copyCred[c]} /\ UNCHANGED <<cred, consumed>>
      BY <2>8, <2>0 DEF SaveFails, Return, Leave, TypeOK
    <3> QED BY <2>0, <3>1, <3>2 DEF SpentInv
  <2> QED BY <1>1, <2>1, <2>2, <2>3, <2>4, <2>5, <2>6, <2>7, <2>8, <2>9
          DEF Call, CannotServe, StillValid, Adopt, RefreshFails
<1>2. ASSUME NEW s \in SignIns, SignIn(s) PROVE SpentInv'
  <2>0. s \in Procs /\ \A q \in Calls : q \in Procs /\ s # q BY AccountAssumption DEF Procs
  <2>1. CASE Exchange(s) \/ LoadAccount(s) \/ LoadAccountFails(s) \/ SaveAccountFails(s)
    BY <2>0, <2>1, SpentKept
    DEF Exchange, LoadAccount, LoadAccountFails, SaveAccountFails, Leave, Goto, ReadRecord, TypeOK, forge
  \* What a sign-in stores has not expired, and what was used has.
  <2>2. CASE SaveAccount(s)
    <3>1. got[s] > expired /\ \A x \in consumed : x <= expired BY <2>2 DEF SaveAccount, CredInv
    <3>2. cred' = got[s] /\ \A x \in consumed : x < cred' BY <3>1, <2>2, <2>0, <1>0 DEF SaveAccount
    <3>3. /\ \A q \in Calls : pc'[q] = pc[q] /\ copyCred'[q] = copyCred[q]
          /\ UNCHANGED <<mu, unread, consumed, orphaned>>
      BY <2>2, <2>0 DEF SaveAccount, Leave, TypeOK, forge
    <3> QED BY <3>2, <3>3 DEF SpentInv
  <2> QED BY <1>2, <2>1, <2>2 DEF SignIn
<1>3. ASSUME NEW a \in Agents, (\E t \in TokenIds : Authenticate(a, t)) \/ Touch(a) PROVE SpentInv'
  <2>1. a \in Procs /\ \A q \in Calls : q \in Procs /\ q # a BY AccountAssumption DEF Procs
  <2> QED BY <2>1, <1>3, SpentKept DEF Authenticate, Touch, Leave, Goto, ReadRecord, TypeOK, forge
<1>4. CASE UNCHANGED <<cred, mu, pc, copyCred, unread, consumed, orphaned>>
  BY <1>4, SpentKept
<1> QED BY <1>1, <1>2, <1>3, <1>4 DEF Next, Revoke, Lapse, Issue, Expire, vars, forge

-------------------------------------------------------------------------------
(* Theorems. *)

LEMMA AccountNext == AccountIInv /\ [Next]_vars => AccountIInv'
BY AccountInvNext, MutexNext, CredNext, SpentNext DEF AccountIInv

\* The mutex, the order of the credentials and what became of those that were used.
THEOREM AccountIsSound == Spec => []AccountIInv
<1> QED BY AccountInit, AccountNext, PTL DEF Spec

\* An account holds at most MaxTokens agent tokens, whatever stale records are stored.
THEOREM TokensBounded == Spec => []AccountInv
<1>1. AccountIInv => AccountInv BY DEF AccountIInv
<1> QED BY <1>1, AccountIsSound, PTL

\* A refresh token is presented twice only after the answer to its first use, or the
\* write of it, was lost, or by a call that could not re-read the account under the
\* mutex; the stored credential can be refreshed but for the former.
THEOREM NoTokenReplayed == Spec => []NoReplay
<1>1. AccountIInv => NoReplay
  <2> SUFFICES ASSUME AccountIInv PROVE NoReplay OBVIOUS
  <2>1. cred \in Nat BY AccountAssumption DEF AccountIInv, AccountInv, TypeOK, Serials
  <2> QED BY <2>1 DEF AccountIInv, SpentInv, NoReplay
<1> QED BY <1>1, AccountIsSound, PTL

\* A revoked token comes back, and a valid one disappears unrevoked, only in a whole
\* record that Manager.Save or a sign-in stores: no handler of agent tokens does that.
THEOREM HandlersDoNotUndo == Spec => OnlySavesUndo
<1>1. AccountIInv /\ [Next]_vars =>
        [Revived # {} \/ Dropped # {} =>
            \E p \in Calls \cup SignIns : pc[p] \in {"save", "signed"} /\ pc'[p] # pc[p]]_vars
  <2> SUFFICES ASSUME AccountIInv, Next, Revived # {} \/ Dropped # {}
               PROVE  \E p \in Calls \cup SignIns : pc[p] \in {"save", "signed"} /\ pc'[p] # pc[p]
    OBVIOUS
  <2>0. pc \in [Procs -> {"idle", "loaded", "locked", "refresh", "save",
                          "exchanged", "signed", "known"}]
    BY DEF AccountIInv, AccountInv, TypeOK
  <2>00. tokens' # tokens BY DEF Revived, Dropped
  <2>1. ASSUME NEW c \in Calls, Call(c) PROVE pc[c] = "save" /\ pc'[c] # pc[c]
    <3>1. c \in Procs BY DEF Procs
    <3>2. Save(c)
      BY <2>1, <2>00 DEF Call, LoadUser, Lock, CannotServe, StillValid, Adopt, AskForge, RereadFails,
                         Refreshed, RefreshFails, RefreshLost, SaveFails
    <3> QED BY <3>1, <3>2, <2>0 DEF Save, Return, Leave
  <2>2. ASSUME NEW s \in SignIns, SignIn(s) PROVE pc[s] = "signed" /\ pc'[s] # pc[s]
    <3>1. s \in Procs BY DEF Procs
    <3>2. SaveAccount(s)
      BY <2>2, <2>00 DEF SignIn, Exchange, LoadAccount, LoadAccountFails, SaveAccountFails
    <3> QED BY <3>1, <3>2, <2>0 DEF SaveAccount, Leave
  <2>3. ASSUME NEW t \in TokenIds, NEW replace \in BOOLEAN, Issue(t, replace) PROVE FALSE
    BY <2>3 DEF Issue, Kept, Revived, Dropped
  <2>4. ASSUME NEW t \in TokenIds, Revoke(t) PROVE FALSE BY <2>4 DEF Revoke, Revived, Dropped
  <2>5. ASSUME NEW a \in Agents, (\E t \in TokenIds : Authenticate(a, t)) \/ Touch(a) PROVE FALSE
    BY <2>5, <2>00 DEF Authenticate, Touch
  <2>6. CASE Expire \/ \E t \in TokenIds : Lapse(t) BY <2>6, <2>00 DEF Expire, Lapse
  <2> QED BY <2>1, <2>2, <2>3, <2>4, <2>5, <2>6 DEF Next
<1> QED BY <1>1, AccountIsSound, PTL DEF Spec, OnlySavesUndo

-------------------------------------------------------------------------------
(* The repository and the page.                                                *)


Places == {"new", "refused", "asking", "written", "listed", "answer", "done"}
Copy   == SUBSET Writers
Events == [copy : Copy, ends : BOOLEAN]
Load   == [st : {"idle", "asked", "answered", "history"}, got : Copy, touched : BOOLEAN]

PageTypeOK ==
    /\ stored \in Copy /\ shown \in Copy
    /\ where \in [Writers -> Places] /\ held \in [Writers -> Copy]
    /\ stream \in {"boot", "connecting", "opening", "open"}
    /\ buffer \in Seq(Events)
    /\ load \in [Loads -> Load] /\ newest \in Loads

\* A request still has to tell what is stored.
Told == \E r \in Writers : where[r] = "written" /\ held[r] = stored

\* The last copy on its way is the stored one.
LastIsStored ==
    \E i \in DOMAIN buffer :
        /\ ~buffer[i].ends /\ buffer[i].copy = stored
        /\ \A j \in DOMAIN buffer : j > i => buffer[j].ends

\* No copy is on its way.
NoCopy == \A i \in DOMAIN buffer : buffer[i].ends

\* The list that will be shown is the stored one.
ListIsStored ==
    \A l \in Loads :
        newest = l /\ load[l].st = "answered" /\ ~load[l].touched => load[l].got = stored

\* The page shows what is stored, or will when it has received what is on its way.
WillShow == LastIsStored \/ (NoCopy /\ shown = stored /\ ListIsStored)

\* A page that misses nothing it will not be told shows what is stored.
Shows == gap \/ Told \/ WillShow

\* The inductive invariant.
PageIInv == PageTypeOK /\ Shows

-------------------------------------------------------------------------------
(* Events. *)

LEMMA EventType ==
  /\ Finished \in Events /\ Finished.ends
  /\ \A c \in Copy : Event(c) \in Events /\ ~Event(c).ends /\ Event(c).copy = c
BY DEF Finished, Event, Copy, Events

LEMMA AppendedLast ==
  ASSUME NEW S, NEW s \in Seq(S), NEW e \in S
  PROVE  /\ Append(s, e) \in Seq(S) /\ DOMAIN Append(s, e) = 1..(Len(s) + 1)
         /\ Append(s, e)[Len(s) + 1] = e
         /\ \A i \in DOMAIN s : Append(s, e)[i] = s[i]
         /\ DOMAIN s = 1..Len(s) /\ Len(s) \in Nat
OBVIOUS

LEMMA HeadIsFirst ==
  ASSUME NEW S, NEW s \in Seq(S), s # <<>>
  PROVE  Head(s) = s[1] /\ s[1] \in S
OBVIOUS

\* An event that is sent comes last, or is lost.
LEMMA SendAppends ==
  ASSUME PageTypeOK, NEW e \in Events, Send(e)
  PROVE  /\ buffer' \in Seq(Events)
         /\ ~(Subscribed /\ Fits) => buffer' = buffer
         /\ Subscribed /\ Fits =>
              /\ DOMAIN buffer' = 1..(Len(buffer) + 1)
              /\ buffer'[Len(buffer) + 1] = e
              /\ \A i \in DOMAIN buffer : buffer'[i] = buffer[i]
         /\ DOMAIN buffer = 1..Len(buffer) /\ Len(buffer) \in Nat
<1>1. buffer \in Seq(Events)
  BY DEF PageTypeOK
<1>2. CASE ~(Subscribed /\ Fits)
  BY <1>1, <1>2 DEF Send
<1>3. CASE Subscribed /\ Fits
  BY <1>1, <1>3, AppendedLast DEF Send
<1> QED BY <1>2, <1>3

\* What a stored copy that is sent does to the buffer.
LEMMA SendStored ==
  ASSUME PageTypeOK, NEW c \in Copy, c = stored, Send(Event(c)), Subscribed, Fits, stored' = stored
  PROVE  LastIsStored'
<1>1. PICK n \in Nat : n = Len(buffer)
  BY DEF PageTypeOK
<1>2. n + 1 \in DOMAIN buffer' /\ buffer'[n + 1] = Event(c) /\ DOMAIN buffer' = 1..(n + 1)
  BY <1>1, SendAppends, EventType
<1> QED BY <1>2, EventType DEF LastIsStored

\* The end of a sync changes nothing of the copies on their way.
LEMMA SendFinished ==
  ASSUME PageTypeOK, Send(Finished), stored' = stored
  PROVE  /\ LastIsStored => LastIsStored'
         /\ NoCopy => NoCopy'
<1>1. CASE ~(Subscribed /\ Fits)
  BY <1>1, SendAppends, EventType DEF LastIsStored, NoCopy
<1>2. CASE Subscribed /\ Fits
  <2>1. /\ DOMAIN buffer' = 1..(Len(buffer) + 1) /\ buffer'[Len(buffer) + 1] = Finished
        /\ \A i \in DOMAIN buffer : buffer'[i] = buffer[i]
        /\ DOMAIN buffer = 1..Len(buffer) /\ Len(buffer) \in Nat
    BY <1>2, SendAppends, EventType
  <2>2. \A i \in DOMAIN buffer' : i \in DOMAIN buffer \/ buffer'[i].ends
    BY <2>1, EventType
  <2>3. ASSUME LastIsStored PROVE LastIsStored'
    <3>1. PICK i \in DOMAIN buffer :
            /\ ~buffer[i].ends /\ buffer[i].copy = stored
            /\ \A j \in DOMAIN buffer : j > i => buffer[j].ends
      BY <2>3 DEF LastIsStored
    <3>2. i \in DOMAIN buffer' /\ ~buffer'[i].ends /\ buffer'[i].copy = stored'
      BY <2>1, <3>1
    <3>3. ASSUME NEW j \in DOMAIN buffer', j > i PROVE buffer'[j].ends
      BY <2>1, <2>2, <3>1, <3>3
    <3> QED BY <3>2, <3>3 DEF LastIsStored
  <2>4. NoCopy => NoCopy'
    BY <2>1, <2>2 DEF NoCopy
  <2> QED BY <2>3, <2>4
<1> QED BY <1>1, <1>2

\* What is left when the first event is received.
LEMMA TailOfBuffer ==
  ASSUME PageTypeOK, buffer # <<>>, buffer' = Tail(buffer)
  PROVE  /\ buffer' \in Seq(Events)
         /\ Head(buffer) = buffer[1] /\ 1 \in DOMAIN buffer
         /\ Head(buffer) \in Events
         /\ \A i \in DOMAIN buffer' : i \in Nat \ {0} /\ i + 1 \in DOMAIN buffer /\ buffer'[i] = buffer[i + 1]
         /\ \A i \in DOMAIN buffer : i \in Nat /\ (i # 1 => i - 1 \in DOMAIN buffer' /\ buffer'[i - 1] = buffer[i])
<1>1. PICK n \in Nat : n = Len(buffer) /\ n > 0
  BY DEF PageTypeOK
<1>2. /\ buffer' \in Seq(Events) /\ Len(buffer') = n - 1
      /\ \A i \in 1..(n - 1) : buffer'[i] = buffer[i + 1]
  BY <1>1 DEF PageTypeOK
<1>3. DOMAIN buffer = 1..n /\ DOMAIN buffer' = 1..(n - 1)
  BY <1>1, <1>2 DEF PageTypeOK
<1>4. Head(buffer) = buffer[1] /\ Head(buffer) \in Events
  BY HeadIsFirst DEF PageTypeOK
<1> QED BY <1>1, <1>2, <1>3, <1>4

LEMMA ReceiveEnd ==
  ASSUME PageTypeOK, buffer # <<>>, buffer' = Tail(buffer), Head(buffer).ends, stored' = stored
  PROVE  (LastIsStored => LastIsStored') /\ (NoCopy => NoCopy')
<1>1. ASSUME LastIsStored PROVE LastIsStored'
  <2>1. PICK i \in DOMAIN buffer :
          /\ ~buffer[i].ends /\ buffer[i].copy = stored
          /\ \A j \in DOMAIN buffer : j > i => buffer[j].ends
    BY <1>1 DEF LastIsStored
  <2>2. i # 1
    BY <2>1, TailOfBuffer
  <2>3. i \in Nat /\ i - 1 \in DOMAIN buffer' /\ buffer'[i - 1] = buffer[i]
    BY <2>2, TailOfBuffer
  <2>4. ASSUME NEW j \in DOMAIN buffer', j > i - 1 PROVE buffer'[j].ends
    <3>1. j \in Nat /\ j + 1 \in DOMAIN buffer /\ buffer'[j] = buffer[j + 1]
      BY TailOfBuffer
    <3> QED BY <2>1, <2>3, <2>4, <3>1
  <2> QED BY <2>1, <2>3, <2>4 DEF LastIsStored
<1>2. NoCopy => NoCopy'
  BY TailOfBuffer DEF NoCopy
<1> QED BY <1>1, <1>2

\* The stored copy is still to come, or was just received.
LEMMA ReceiveCopy ==
  ASSUME PageTypeOK, buffer # <<>>, buffer' = Tail(buffer), ~Head(buffer).ends, stored' = stored,
         LastIsStored
  PROVE  LastIsStored' \/ (NoCopy' /\ Head(buffer).copy = stored)
<1>1. PICK i \in DOMAIN buffer :
        /\ ~buffer[i].ends /\ buffer[i].copy = stored
        /\ \A j \in DOMAIN buffer : j > i => buffer[j].ends
  BY DEF LastIsStored
<1>2. CASE i = 1
  <2>1. ASSUME NEW j \in DOMAIN buffer' PROVE buffer'[j].ends
    <3>1. j \in Nat \ {0} /\ j + 1 \in DOMAIN buffer /\ buffer'[j] = buffer[j + 1]
      BY TailOfBuffer
    <3> QED BY <1>1, <1>2, <3>1
  <2> QED BY <1>1, <1>2, <2>1, TailOfBuffer DEF NoCopy
<1>3. CASE i # 1
  <2>3. i \in Nat /\ i - 1 \in DOMAIN buffer' /\ buffer'[i - 1] = buffer[i]
    BY <1>3, TailOfBuffer
  <2>4. ASSUME NEW j \in DOMAIN buffer', j > i - 1 PROVE buffer'[j].ends
    <3>1. j \in Nat /\ j + 1 \in DOMAIN buffer /\ buffer'[j] = buffer[j + 1]
      BY TailOfBuffer
    <3> QED BY <1>1, <2>3, <2>4, <3>1
  <2> QED BY <1>1, <2>3, <2>4 DEF LastIsStored
<1> QED BY <1>2, <1>3
-------------------------------------------------------------------------------
(* Types. *)

LEMMA LoadTypes ==
  ASSUME PageTypeOK
  PROVE  /\ Idle \in Load /\ Asked \in Load
         /\ \A l \in Loads : /\ load[l].got \in Copy /\ load[l].touched \in BOOLEAN
                             /\ After(l) \in Load /\ KeptCopy(l) \in Copy
         /\ \A l \in Loads, x \in Load : [load EXCEPT ![l] = x] \in [Loads -> Load]
BY DEF PageTypeOK, Idle, Asked, Load, Copy, After, KeptCopy

LEMMA ShowLiveType ==
  ASSUME PageTypeOK, NEW c \in Copy, ShowLive(c)
  PROVE  shown' \in Copy /\ load' \in [Loads -> Load]
<1>1. ASSUME NEW l \in Loads
      PROVE  [load[l] EXCEPT !.touched = load[l].st \in {"asked", "answered"}] \in Load
  <2>1. load[l] \in Load /\ (load[l].st \in {"asked", "answered"}) \in BOOLEAN
    BY DEF PageTypeOK
  <2> QED BY <2>1 DEF Load
<1>2. load' = [l \in Loads |-> [load[l] EXCEPT !.touched = load[l].st \in {"asked", "answered"}]]
  BY DEF ShowLive
<1>3. load' \in [Loads -> Load]
  BY <1>1, <1>2
<1> QED BY <1>3 DEF ShowLive

LEMMA SendType ==
  ASSUME PageTypeOK, NEW e \in Events, Send(e)
  PROVE  buffer' \in Seq(Events)
BY SendAppends

LEMMA RequestTypes ==
  ASSUME PageTypeOK, NEW r \in Writers,
         UpdateRepo(r) \/ UpdateFails(r) \/ SyncLoads(r) \/ SyncFails(r) \/ SyncPuts(r)
  PROVE  PageTypeOK'
BY DEF PageTypeOK, UpdateRepo, UpdateFails, SyncLoads, SyncFails, SyncPuts, StepTo, Fault, viewVars,
       Places, Copy

LEMMA SendTypes ==
  ASSUME PageTypeOK, NEW r \in Writers, Publish(r) \/ SyncFinished(r)
  PROVE  PageTypeOK'
<1>1. held[r] \in Copy
  BY DEF PageTypeOK
<1>2. buffer' \in Seq(Events)
  BY <1>1, EventType, SendType DEF Publish, SyncFinished
<1>3. where' \in [Writers -> Places]
  BY DEF PageTypeOK, Publish, SyncFinished, StepTo, Places
<1> QED BY <1>2, <1>3 DEF PageTypeOK, Publish, SyncFinished, viewVars

LEMMA AnsweredTypes ==
  ASSUME PageTypeOK, NEW r \in Writers, Answered(r)
  PROVE  PageTypeOK'
<1>1. held[r] \in Copy
  BY DEF PageTypeOK
<1>2. shown' \in Copy /\ load' \in [Loads -> Load]
  BY <1>1, ShowLiveType DEF Answered
<1>3. where' \in [Writers -> Places]
  BY DEF PageTypeOK, Answered, StepTo, Places
<1> QED BY <1>2, <1>3 DEF PageTypeOK, Answered

LEMMA ReceiveTypes ==
  ASSUME PageTypeOK, Receive
  PROVE  PageTypeOK'
<1>1. buffer' \in Seq(Events) /\ Head(buffer) \in Events
  BY TailOfBuffer DEF Receive
<1>2. Head(buffer).copy \in Copy
  BY <1>1 DEF Events
<1>3. shown' \in Copy /\ load' \in [Loads -> Load] /\ newest' \in Loads
  <2>1. CASE Head(buffer).ends
    BY <2>1, LoadTypes DEF Receive, PageTypeOK, Loads
  <2>2. CASE ~Head(buffer).ends
    BY <1>2, <2>2, ShowLiveType DEF Receive, PageTypeOK
  <2> QED BY <2>1, <2>2
<1> QED BY <1>1, <1>3 DEF PageTypeOK, Receive, requestVars

LEMMA LoadStepTypes ==
  ASSUME PageTypeOK, NEW l \in Loads, Serve(l) \/ Apply(l) \/ Discard(l) \/ HistoryLoaded \/ LoadFails(l)
  PROVE  PageTypeOK'
<1>1. load' \in [Loads -> Load]
  <2>1. CASE Serve(l)
    <3>1. [load[l] EXCEPT !.st = "answered", !.got = stored] \in Load
      BY DEF PageTypeOK, Load
    <3>2. load' = [load EXCEPT ![l] = [load[l] EXCEPT !.st = "answered", !.got = stored]]
      BY <2>1 DEF Serve, PageTypeOK
    <3> QED BY <3>1, <3>2, LoadTypes
  <2>2. CASE Apply(l) \/ Discard(l) \/ HistoryLoaded \/ LoadFails(l)
    BY <2>2, LoadTypes DEF Apply, Discard, HistoryLoaded, LoadFails, Loads
  <2> QED BY <2>1, <2>2
<1>2. shown' \in Copy
  BY LoadTypes DEF Serve, Apply, Discard, HistoryLoaded, LoadFails, PageTypeOK
<1>3. stream' \in {"boot", "connecting", "opening", "open"}
  BY DEF Serve, Apply, Discard, HistoryLoaded, LoadFails, PageTypeOK
<1> QED BY <1>1, <1>2, <1>3 DEF PageTypeOK, Serve, Apply, Discard, HistoryLoaded, LoadFails, requestVars

LEMMA RestTypes ==
  ASSUME PageTypeOK, Refresh \/ Hide \/ ComeBack \/ Subscribe \/ OnOpen \/ Disconnect
  PROVE  PageTypeOK'
<1>1. load' \in [Loads -> Load] /\ newest' \in Loads
  <2>1. "refresh" \in Loads /\ load \in [Loads -> Load] /\ newest \in Loads
    BY DEF PageTypeOK, Loads
  <2>2. [load EXCEPT !["refresh"] = Asked] \in [Loads -> Load]
    BY <2>1, LoadTypes
  <2>3. UNCHANGED <<load, newest>> \/ (load' = [load EXCEPT !["refresh"] = Asked] /\ newest' = "refresh")
    BY DEF Refresh, Hide, ComeBack, Subscribe, OnOpen, Disconnect, RefreshDashboard
  <2> QED BY <2>1, <2>2, <2>3
<1>2. buffer' \in Seq(Events)
  <2>1. buffer \in Seq(Events) /\ <<>> \in Seq(Events)
    BY DEF PageTypeOK
  <2> QED BY <2>1 DEF Refresh, Hide, ComeBack, Subscribe, OnOpen, Disconnect
<1>3. stream' \in {"boot", "connecting", "opening", "open"}
  BY DEF Refresh, Hide, ComeBack, Subscribe, OnOpen, Disconnect, PageTypeOK
<1>4. UNCHANGED <<stored, where, held, shown>>
  BY DEF Refresh, Hide, ComeBack, Subscribe, OnOpen, Disconnect, requestVars
<1> QED BY <1>1, <1>2, <1>3, <1>4 DEF PageTypeOK

LEMMA PageTypesNext ==
  ASSUME PageTypeOK, [PageNext]_pageVars
  PROVE  PageTypeOK'
<1>1. CASE UNCHANGED pageVars
  BY <1>1 DEF pageVars, requestVars, viewVars, PageTypeOK
<1>2. CASE \E r \in Owners : UpdateRepo(r) \/ UpdateFails(r)
  BY <1>2, RequestTypes DEF Writers
<1>3. CASE \E s \in Syncs : SyncLoads(s) \/ SyncFails(s)
  BY <1>3, RequestTypes DEF Writers
<1>4. CASE \E r \in Writers : RequestStep(r)
  BY <1>4, RequestTypes, SendTypes, AnsweredTypes DEF RequestStep
<1>5. CASE \E l \in Loads : LoadStep(l) \/ LoadFails(l)
  BY <1>5, LoadStepTypes DEF LoadStep
<1>6. CASE Receive
  BY <1>6, ReceiveTypes
<1>7. CASE Refresh \/ Hide \/ ComeBack \/ Subscribe \/ OnOpen \/ Disconnect
  BY <1>7, RestTypes
<1> QED BY <1>1, <1>2, <1>3, <1>4, <1>5, <1>6, <1>7 DEF PageNext
-------------------------------------------------------------------------------
(* What the page shows. *)

\* A step that changes neither the copies nor what is on its way.
LEMMA ShowsStays ==
  ASSUME Shows, UNCHANGED <<stored, where, held, buffer, shown>>, gap => gap',
         ListIsStored => ListIsStored'
  PROVE  Shows'
BY DEF Shows, Told, WillShow, LastIsStored, NoCopy

\* A live copy leaves no list under way that would replace it.
LEMMA LiveList ==
  ASSUME PageTypeOK, NEW c \in Copy, ShowLive(c), newest' = newest
  PROVE  ListIsStored'
<1>1. ASSUME NEW l \in Loads, load'[l].st = "answered" PROVE load'[l].touched
  <2>1. load'[l] = [load[l] EXCEPT !.touched = load[l].st \in {"asked", "answered"}]
    BY DEF ShowLive
  <2>2. load[l] \in Load
    BY DEF PageTypeOK
  <2> QED BY <1>1, <2>1, <2>2 DEF Load
<1> QED BY <1>1 DEF ListIsStored

\* Whoever has just written has to tell.
LEMMA WriteTells ==
  ASSUME PageTypeOK, NEW r \in Writers, UpdateRepo(r) \/ SyncPuts(r)
  PROVE  Shows'
<1>1. where'[r] = "written" /\ held'[r] = stored'
  BY DEF PageTypeOK, UpdateRepo, SyncPuts, StepTo
<1> QED BY <1>1 DEF Shows, Told

LEMMA NoWriteShows ==
  ASSUME PageTypeOK, Shows, NEW r \in Writers, UpdateFails(r) \/ SyncLoads(r) \/ SyncFails(r)
  PROVE  Shows'
<1>1. \A q \in Writers : where[q] = "written" => where'[q] = "written" /\ held'[q] = held[q]
  BY DEF PageTypeOK, UpdateFails, SyncLoads, SyncFails, StepTo
<1>2. Told => Told'
  BY <1>1 DEF Told, UpdateFails, SyncLoads, SyncFails
<1>3. WillShow => WillShow'
  BY DEF WillShow, LastIsStored, NoCopy, ListIsStored, UpdateFails, SyncLoads, SyncFails, viewVars
<1> QED BY <1>2, <1>3 DEF Shows, UpdateFails, SyncLoads, SyncFails

\* Another request tells what is stored, this one does, or there is a gap.
LEMMA PublishShows ==
  ASSUME PageTypeOK, Shows, NEW r \in Writers, Publish(r)
  PROVE  Shows'
<1>1. CASE ToldLater(r)
  <2>1. PICK q \in Writers \ {r} : where[q] = "written" /\ held[q] = stored
    BY <1>1 DEF ToldLater
  <2>2. where'[q] = "written" /\ held'[q] = stored'
    BY <2>1 DEF PageTypeOK, Publish, StepTo
  <2> QED BY <2>2 DEF Shows, Told
<1>2. CASE ~ToldLater(r) /\ held[r] = stored /\ Subscribed /\ Fits
  <2>1. held[r] \in Copy /\ Send(Event(held[r])) /\ stored' = stored
    BY DEF PageTypeOK, Publish
  <2>2. LastIsStored'
    BY <1>2, <2>1, SendStored
  <2> QED BY <2>2 DEF Shows, WillShow
<1>3. CASE ~ToldLater(r) /\ ~(held[r] = stored /\ Subscribed /\ Fits)
  BY <1>3 DEF Publish, Shows
<1> QED BY <1>1, <1>2, <1>3

LEMMA FinishedShows ==
  ASSUME PageTypeOK, Shows, NEW s \in Writers, SyncFinished(s)
  PROVE  Shows'
<1>1. \A q \in Writers : where[q] = "written" => where'[q] = "written"
  BY DEF PageTypeOK, SyncFinished, StepTo
<1>2. Told => Told'
  BY <1>1 DEF Told, SyncFinished
<1>3. (LastIsStored => LastIsStored') /\ (NoCopy => NoCopy')
  BY SendFinished DEF SyncFinished
<1>4. WillShow => WillShow'
  BY <1>3 DEF WillShow, ListIsStored, SyncFinished, viewVars
<1> QED BY <1>2, <1>4 DEF Shows, SyncFinished

\* The answer is what is stored, or leaves a gap.
LEMMA AnsweredShows ==
  ASSUME PageTypeOK, Shows, NEW r \in Writers, Answered(r)
  PROVE  Shows'
<1>1. CASE gap \/ held[r] # stored
  BY <1>1 DEF Answered, Shows
<1>2. CASE Told
  <2>1. \A q \in Writers : where[q] = "written" => where'[q] = "written"
    BY DEF PageTypeOK, Answered, StepTo
  <2> QED BY <1>2, <2>1 DEF Shows, Told, Answered
<1>3. CASE held[r] = stored /\ WillShow
  <2>1. shown' = stored'
    BY <1>3 DEF Answered, ShowLive
  <2>2. ListIsStored'
    BY LiveList DEF Answered, PageTypeOK
  <2> QED BY <1>3, <2>1, <2>2 DEF Shows, WillShow, LastIsStored, NoCopy, Answered
<1> QED BY <1>1, <1>2, <1>3 DEF Shows

LEMMA ReceiveShows ==
  ASSUME PageTypeOK, Shows, Receive
  PROVE  Shows'
<1>1. CASE gap \/ Told
  BY <1>1 DEF Shows, Told, Receive, requestVars
<1>2. CASE WillShow /\ Head(buffer).ends
  <2>1. (LastIsStored => LastIsStored') /\ (NoCopy => NoCopy')
    BY <1>2, ReceiveEnd DEF Receive, requestVars
  <2>2. load' = [load EXCEPT !["direct"] = Asked] /\ newest' = "direct" /\ shown' = shown /\ stored' = stored
    BY <1>2 DEF Receive, requestVars
  <2>3. ListIsStored'
    BY <2>2 DEF ListIsStored, PageTypeOK, Asked, Loads
  <2> QED BY <1>2, <2>1, <2>2, <2>3 DEF Shows, WillShow
<1>3. CASE WillShow /\ ~Head(buffer).ends
  <2>1. LastIsStored
    BY <1>3, TailOfBuffer DEF WillShow, NoCopy, Receive
  <2>2. LastIsStored' \/ (NoCopy' /\ Head(buffer).copy = stored)
    BY <1>3, <2>1, ReceiveCopy DEF Receive, requestVars
  <2>3. Head(buffer).copy \in Copy
    BY TailOfBuffer DEF Receive, Events
  <2>4. ShowLive(Head(buffer).copy) /\ newest' = newest /\ stored' = stored
    BY <1>3 DEF Receive, requestVars
  <2>5. ListIsStored' /\ shown' = Head(buffer).copy
    BY <2>3, <2>4, LiveList DEF ShowLive
  <2> QED BY <2>2, <2>4, <2>5 DEF Shows, WillShow
<1> QED BY <1>1, <1>2, <1>3 DEF Shows

\* There is a last copy on its way, if there is one: the least distance from the end.
LEMMA LastOfBuffer ==
  ASSUME PageTypeOK, ~NoCopy
  PROVE  \E i \in DOMAIN buffer : ~buffer[i].ends /\ \A j \in DOMAIN buffer : j > i => buffer[j].ends
<1>1. PICK n \in Nat : DOMAIN buffer = 1..n
  BY DEF PageTypeOK
<1> DEFINE Distances == {k \in Nat : \E i \in DOMAIN buffer : ~buffer[i].ends /\ k = n - i}
           Less == {ss \in Nat \X Nat : ss[1] < ss[2]}
<1>2. Distances \subseteq Nat /\ Distances # {}
  <2>1. PICK i \in DOMAIN buffer : ~buffer[i].ends
    BY DEF NoCopy
  <2>2. n - i \in Nat
    BY <1>1, <2>1
  <2> QED BY <2>1, <2>2
<1>3. IsWellFoundedOn(Less, Nat)
  BY NatLessThanWellFounded DEF OpToRel
<1>4. PICK k \in Distances : \A m \in Distances : ~(<<m, k>> \in Less)
  <2> HIDE DEF Distances, Less
  <2> QED BY <1>2, <1>3, WFMin
<1>5. PICK i \in DOMAIN buffer : ~buffer[i].ends /\ k = n - i
  BY <1>4
<1>6. ASSUME NEW j \in DOMAIN buffer, j > i, ~buffer[j].ends PROVE FALSE
  <2>1. n - j \in Distances /\ n - j < k /\ n - j \in Nat /\ k \in Nat
    BY <1>1, <1>4, <1>5, <1>6
  <2>2. <<n - j, k>> \in Less
    BY <2>1
  <2> QED BY <1>4, <2>1, <2>2
<1> QED BY <1>5, <1>6

\* A list replaces what is shown: by what is stored, by what is shown, or by what was
\* stored before the copy that is on its way.
LEMMA ApplyShows ==
  ASSUME PageTypeOK, Shows, NEW l \in Loads, Apply(l)
  PROVE  Shows'
<1> USE DEF Apply, requestVars
<1>1. ListIsStored'
  <2>1. load'[l] = After(l) /\ newest' = l
    BY DEF PageTypeOK
  <2> QED BY <2>1 DEF ListIsStored, After, Idle
<1>2. CASE Told
  BY <1>2 DEF Shows, Told
<1>3. CASE gap /\ ~Told /\ gap'
  BY <1>3 DEF Shows
<1>4. CASE gap /\ ~gap'
  <2>1. shown' = stored /\ NoOlderOnItsWay
    BY <1>4
  <2>2. CASE NoCopy
    BY <1>1, <2>1, <2>2 DEF Shows, WillShow, NoCopy
  <2>3. CASE ~NoCopy
    BY <2>1, <2>3, LastOfBuffer DEF Shows, WillShow, LastIsStored, NoOlderOnItsWay
  <2> QED BY <2>2, <2>3
<1>5. CASE LastIsStored
  BY <1>5 DEF Shows, WillShow, LastIsStored
<1>6. CASE NoCopy /\ shown = stored /\ ListIsStored
  <2>1. shown' = stored
    BY <1>6 DEF KeptCopy, ListIsStored
  <2> QED BY <1>1, <1>6, <2>1 DEF Shows, WillShow, NoCopy
<1> QED BY <1>2, <1>3, <1>4, <1>5, <1>6 DEF Shows, WillShow

LEMMA OtherLoadsShow ==
  ASSUME PageTypeOK, Shows, NEW l \in Loads, Serve(l) \/ Discard(l) \/ HistoryLoaded \/ LoadFails(l)
  PROVE  Shows'
<1>1. ListIsStored => ListIsStored'
  <2>1. CASE Serve(l)
    <3>1. load'[l].got = stored /\ \A k \in Loads \ {l} : load'[k] = load[k]
      BY <2>1 DEF Serve, PageTypeOK, Load
    <3> QED BY <2>1, <3>1 DEF Serve, ListIsStored, requestVars
  <2>2. CASE Discard(l) \/ HistoryLoaded \/ LoadFails(l)
    <3>1. PICK k \in Loads : /\ load'[k].st # "answered" /\ \A j \in Loads \ {k} : load'[j] = load[j]
                             /\ UNCHANGED <<newest, stored>>
      <4>1. CASE Discard(l) \/ LoadFails(l)
        BY <4>1 DEF Discard, LoadFails, PageTypeOK, After, Idle, requestVars
      <4>2. CASE HistoryLoaded
        BY <4>2 DEF HistoryLoaded, PageTypeOK, Idle, requestVars, Loads
      <4> QED BY <2>2, <4>1, <4>2
    <3> QED BY <3>1 DEF ListIsStored
  <2> QED BY <2>1, <2>2
<1> QED BY <1>1, ShowsStays DEF Serve, Discard, HistoryLoaded, LoadFails, requestVars

LEMMA RestShows ==
  ASSUME PageTypeOK, Shows, Refresh \/ Hide \/ ComeBack \/ Subscribe \/ OnOpen
  PROVE  Shows'
<1>1. \/ UNCHANGED <<load, newest>>
      \/ load' = [load EXCEPT !["refresh"] = Asked] /\ newest' = "refresh"
  BY DEF Refresh, Hide, ComeBack, Subscribe, OnOpen, RefreshDashboard
<1>2. UNCHANGED <<stored, where, held, buffer, shown, gap>>
  BY DEF Refresh, Hide, ComeBack, Subscribe, OnOpen, requestVars
<1>3. ListIsStored => ListIsStored'
  <2>1. CASE UNCHANGED <<load, newest>>
    BY <1>2, <2>1 DEF ListIsStored
  <2>2. CASE load' = [load EXCEPT !["refresh"] = Asked] /\ newest' = "refresh"
    BY <2>2 DEF ListIsStored, PageTypeOK, Asked, Loads
  <2> QED BY <1>1, <2>1, <2>2
<1> QED BY <1>2, <1>3, ShowsStays

\* What is lost with the connection was old, or leaves a gap.
LEMMA DisconnectShows ==
  ASSUME PageTypeOK, Shows, Disconnect
  PROVE  Shows'
<1>1. CASE gap \/ Told
  BY <1>1 DEF Shows, Told, Disconnect, requestVars
<1>2. CASE LastIsStored
  <2>1. PICK i \in DOMAIN buffer : ~buffer[i].ends /\ buffer[i].copy = stored
    BY <1>2 DEF LastIsStored
  <2>2. buffer[i] \in Events
    BY <2>1 DEF PageTypeOK
  <2>3. buffer[i] = Event(stored)
    BY <2>1, <2>2 DEF Events, Event
  <2> QED BY <2>3 DEF Disconnect, Shows
<1>3. CASE NoCopy /\ shown = stored /\ ListIsStored
  <2>1. NoCopy'
    BY DEF Disconnect, NoCopy
  <2> QED BY <1>3, <2>1 DEF Shows, WillShow, ListIsStored, Disconnect, requestVars
<1> QED BY <1>1, <1>2, <1>3 DEF Shows, WillShow

LEMMA ShowsNext ==
  ASSUME PageTypeOK, Shows, [PageNext]_pageVars
  PROVE  Shows'
<1>1. CASE UNCHANGED pageVars
  BY <1>1, ShowsStays DEF pageVars, requestVars, viewVars, ListIsStored
<1>2. CASE \E r \in Owners : UpdateRepo(r) \/ UpdateFails(r)
  BY <1>2, WriteTells, NoWriteShows DEF Writers
<1>3. CASE \E s \in Syncs : SyncLoads(s) \/ SyncFails(s)
  BY <1>3, NoWriteShows DEF Writers
<1>4. CASE \E r \in Writers : RequestStep(r)
  BY <1>4, PublishShows, WriteTells, FinishedShows, AnsweredShows DEF RequestStep
<1>5. CASE \E l \in Loads : LoadStep(l) \/ LoadFails(l)
  BY <1>5, ApplyShows, OtherLoadsShow DEF LoadStep
<1>6. CASE Receive
  BY <1>6, ReceiveShows
<1>7. CASE Refresh \/ Hide \/ ComeBack \/ Subscribe \/ OnOpen
  BY <1>7, RestShows
<1>8. CASE Disconnect
  BY <1>8, DisconnectShows
<1> QED BY <1>1, <1>2, <1>3, <1>4, <1>5, <1>6, <1>7, <1>8 DEF PageNext

-------------------------------------------------------------------------------
LEMMA PageStarts == PageInit => PageIInv
<1> SUFFICES ASSUME PageInit PROVE PageIInv
  OBVIOUS
<1> USE DEF PageInit
<1>1. PageTypeOK
  <2>1. load \in [Loads -> Load]
    BY DEF Asked, Idle, Load, Copy
  <2>2. buffer \in Seq(Events)
    OBVIOUS
  <2> QED BY <2>1, <2>2 DEF PageTypeOK, Copy, Places, Loads
<1>2. NoCopy /\ shown = stored
  BY DEF NoCopy
<1>3. ListIsStored
  BY DEF ListIsStored, Asked, Idle
<1> QED BY <1>1, <1>2, <1>3 DEF PageIInv, Shows, WillShow

LEMMA PageStep == PageIInv /\ [PageNext]_pageVars => PageIInv'
BY PageTypesNext, ShowsNext DEF PageIInv

LEMMA QuietPage == PageIInv => PageInv
<1> SUFFICES ASSUME PageIInv, ~Busy, ~gap PROVE shown = stored
  BY DEF PageInv
<1>1. ~Told
  BY DEF Busy, Told
<1>2. ~LastIsStored
  BY DEF Busy, LastIsStored
<1> QED BY <1>1, <1>2 DEF PageIInv, Shows, WillShow

\* The inductive invariant of the page and what it is told.
THEOREM PageIsTold == PageSpec => []PageIInv
BY PageStarts, PageStep, PTL DEF PageSpec

\* A page with nothing under way shows what is stored, unless an event was lost or
\* overtaken, or an answer came late.
THEOREM QuietPageShowsStored == PageSpec => []PageInv
BY PageIsTold, QuietPage, PTL
================================================================================
