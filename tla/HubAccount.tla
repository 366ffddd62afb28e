----------------------------- MODULE HubAccount -----------------------------
(***************************************************************************)
(* One account record of the hub and everything that writes it: the        *)
(* refresh of its forge credential (accounts.go, Manager.Token), sign-in   *)
(* (server/auth.go) and its agent tokens (server/tokens.go).               *)
(*                                                                         *)
(* Manager.Token and sign-in write the whole record they read earlier; the *)
(* token handlers mutate the stored one under the store's lock             *)
(* (Store.UpdateUser), so each of them is one step.                        *)
(*                                                                         *)
(* A credential is the number under which the forge issued it: every one   *)
(* lives equally long, so a later number expires later, and its refresh    *)
(* token works once.                                                       *)
(***************************************************************************)
EXTENDS Naturals, FiniteSets

CONSTANTS
    Calls,        \* goroutines that resolve the credential of the account
    SignIns,      \* sign-ins of the account
    Agents,       \* requests authenticated by an agent token
    TokenIds,     \* agent tokens, each issued at most once
    Name,         \* [TokenIds -> names]: what replace compares
    MaxTokens,    \* maxAgentTokens
    None,         \* the free mutex
    MaxIssued,    \* bound: credentials the forge issues
    MaxFailures   \* bound: answers lost, reads and writes that fail

ASSUME AccountAssumption ==
    /\ IsFiniteSet(TokenIds) /\ MaxTokens \in Nat \ {0}
    /\ MaxIssued \in Nat \ {0} /\ MaxFailures \in Nat
    /\ Calls \cap SignIns = {} /\ Calls \cap Agents = {} /\ SignIns \cap Agents = {}
    /\ None \notin Calls

Procs == Calls \cup SignIns \cup Agents
Serials == 0..MaxIssued

VARIABLES
    cred,      \* the stored credential: User.Token, RefreshToken, TokenExpiry
    tokens,    \* the stored User.AgentTokens
    mu,        \* Manager.mu
    pc,        \* where each goroutine is
    copyCred,  \* the credential of the *store.User a goroutine holds
    copyTokens,\* the tokens of that *store.User
    got,       \* the credential the forge gave it and it has yet to store
    issued,    \* credentials the forge issued
    consumed,  \* credentials whose refresh token was used
    orphaned,  \* those whose successor never reached the store
    expired,   \* credentials up to this number expired
    lapsed,    \* agent tokens past their expiry date
    revoked,   \* agent tokens their owner revoked or a login replaced
    unread,    \* the call under the mutex whose re-read of the account failed
    failures

forge  == <<issued, consumed, orphaned, expired>>
ghosts == <<lapsed, revoked, failures>>
vars   == <<cred, tokens, mu, pc, copyCred, copyTokens, got, unread, forge, ghosts>>

\* The account signed in once and has no token.
Init ==
    /\ cred = 1 /\ tokens = {} /\ mu = None
    /\ pc = [p \in Procs |-> "idle"]
    /\ copyCred = [p \in Procs |-> 0]
    /\ copyTokens = [p \in Procs |-> {}]
    /\ got = [p \in Procs |-> 0]
    /\ issued = 1 /\ consumed = {} /\ orphaned = {} /\ expired = 0
    /\ lapsed = {} /\ revoked = {} /\ unread = {} /\ failures = 0

Goto(p, from, to) == pc[p] = from /\ pc' = [pc EXCEPT ![p] = to]
ReadRecord(p) ==
    /\ copyCred' = [copyCred EXCEPT ![p] = cred]
    /\ copyTokens' = [copyTokens EXCEPT ![p] = tokens]

\* The goroutine ends, and its variables with it.
Leave(p) ==
    /\ pc' = [pc EXCEPT ![p] = "idle"]
    /\ copyCred' = [copyCred EXCEPT ![p] = 0]
    /\ copyTokens' = [copyTokens EXCEPT ![p] = {}]
    /\ got' = [got EXCEPT ![p] = 0]

-----------------------------------------------------------------------------
(* Manager.Token: every handler and analysis loads the user first. *)

LoadUser(c) ==
    /\ Goto(c, "idle", "loaded")
    /\ ReadRecord(c)
    /\ UNCHANGED <<cred, tokens, mu, got, unread, forge, ghosts>>

Lock(c) ==
    /\ Goto(c, "loaded", "locked")
    /\ mu = None /\ mu' = c
    /\ UNCHANGED <<cred, tokens, copyCred, copyTokens, got, unread, forge, ghosts>>

\* The deferred unlock, on every return.  The caller drops the record it loaded:
\* none uses one for two calls.
Return(c) == Leave(c) /\ mu' = None /\ unread' = unread \ {c}

\* The caller's copy cannot be opened, or its forge is not configured.
CannotServe(c) ==
    /\ pc[c] = "locked"
    /\ Return(c)
    /\ UNCHANGED <<cred, tokens, forge, ghosts>>

\* The credential of the caller's copy has not expired.
StillValid(c) ==
    /\ pc[c] = "locked" /\ copyCred[c] > expired
    /\ Return(c)
    /\ UNCHANGED <<cred, tokens, forge, ghosts>>

\* Re-read the user: another worker refreshed it meanwhile, and the caller gets
\* what is stored.
Adopt(c) ==
    /\ pc[c] = "locked" /\ copyCred[c] <= expired
    /\ cred > copyCred[c]
    /\ Return(c)
    /\ UNCHANGED <<cred, tokens, forge, ghosts>>

\* Mutant of AskForge: the user is not re-read.
AskForgeBlindly(c) ==
    /\ copyCred[c] <= expired
    /\ Goto(c, "locked", "refresh")
    /\ UNCHANGED <<cred, tokens, mu, copyCred, copyTokens, got, unread, forge, ghosts>>

\* The stored credential is no newer: the forge is asked for another one.
AskForge(c) ==
    /\ copyCred[c] <= expired /\ cred <= copyCred[c]
    /\ Goto(c, "locked", "refresh")
    /\ UNCHANGED <<cred, tokens, mu, copyCred, copyTokens, got, unread, forge, ghosts>>

\* The stored credential is newer, but the account cannot be re-read or that
\* credential cannot be opened: the forge is asked with the caller's older one.
RereadFails(c) ==
    /\ copyCred[c] <= expired /\ cred > copyCred[c]
    /\ failures < MaxFailures /\ failures' = failures + 1
    /\ Goto(c, "locked", "refresh")
    /\ unread' = unread \cup {c}
    /\ UNCHANGED <<cred, tokens, mu, copyCred, copyTokens, got, forge, lapsed, revoked>>

\* The forge rotates: it issues a credential and forgets the one presented.
Rotate(c) ==
    /\ copyCred[c] \notin consumed
    /\ issued < MaxIssued /\ issued' = issued + 1
    /\ consumed' = consumed \cup {copyCred[c]}
    /\ UNCHANGED expired

Refreshed(c) ==
    /\ Goto(c, "refresh", "save")
    /\ Rotate(c)
    /\ got' = [got EXCEPT ![c] = issued']
    /\ UNCHANGED <<cred, tokens, mu, copyCred, copyTokens, unread, orphaned, ghosts>>

\* The forge refuses, or cannot be reached: sign in again.
RefreshFails(c) ==
    /\ pc[c] = "refresh"
    /\ Return(c)
    /\ UNCHANGED <<cred, tokens, forge, ghosts>>

\* The forge rotated but its answer is lost.
RefreshLost(c) ==
    /\ pc[c] = "refresh"
    /\ failures < MaxFailures /\ failures' = failures + 1
    /\ Rotate(c)
    /\ orphaned' = orphaned \cup {copyCred[c]}
    /\ Return(c)
    /\ UNCHANGED <<cred, tokens, lapsed, revoked>>

\* Manager.Save stores the whole record of the caller.
Save(c) ==
    /\ pc[c] = "save"
    /\ cred' = got[c] /\ tokens' = copyTokens[c]
    /\ Return(c)
    /\ UNCHANGED <<forge, ghosts>>

SaveFails(c) ==
    /\ pc[c] = "save"
    /\ failures < MaxFailures /\ failures' = failures + 1
    /\ orphaned' = orphaned \cup {copyCred[c]}
    /\ Return(c)
    /\ UNCHANGED <<cred, tokens, issued, consumed, expired, lapsed, revoked>>

-----------------------------------------------------------------------------
(* handleAuthCallback: exchange, load the account, store it. *)

Exchange(s) ==
    /\ Goto(s, "idle", "exchanged")
    /\ issued < MaxIssued /\ issued' = issued + 1
    /\ got' = [got EXCEPT ![s] = issued']
    /\ UNCHANGED <<cred, tokens, mu, copyCred, copyTokens, unread, consumed, orphaned, expired, ghosts>>

LoadAccount(s) ==
    /\ Goto(s, "exchanged", "signed")
    /\ ReadRecord(s)
    /\ UNCHANGED <<cred, tokens, mu, got, unread, forge, ghosts>>

\* A read that fails is taken for an account that is not there yet: its
\* successor has no tokens.
LoadAccountFails(s) ==
    /\ Goto(s, "exchanged", "signed")
    /\ failures < MaxFailures /\ failures' = failures + 1
    /\ copyTokens' = [copyTokens EXCEPT ![s] = {}]
    /\ UNCHANGED <<cred, tokens, mu, copyCred, got, unread, forge, lapsed, revoked>>

SaveAccount(s) ==
    /\ pc[s] = "signed" /\ Leave(s)
    /\ cred' = got[s] /\ tokens' = copyTokens[s]
    /\ UNCHANGED <<mu, unread, forge, ghosts>>

\* The write fails: the sign-in did not happen.
SaveAccountFails(s) ==
    /\ pc[s] = "signed" /\ Leave(s)
    /\ failures < MaxFailures /\ failures' = failures + 1
    /\ UNCHANGED <<cred, tokens, mu, unread, forge, lapsed, revoked>>

-----------------------------------------------------------------------------
(* Agent tokens. *)

\* Tokens that do not make room for t.
Kept(t, replace) ==
    {x \in tokens \ lapsed : ~(replace /\ Name[x] = Name[t])}

\* Mutant of Issue: the tokens are counted off by one.
IssueOneMore(t, replace) ==
    /\ t \notin tokens \cup revoked \cup lapsed
    /\ \A p \in Procs : t \notin copyTokens[p]
    /\ Cardinality(Kept(t, replace)) <= MaxTokens
    /\ tokens' = Kept(t, replace) \cup {t}
    /\ revoked' = revoked \cup (tokens \ tokens')
    /\ UNCHANGED <<cred, mu, pc, copyCred, copyTokens, got, unread, forge, lapsed, failures>>

\* issueAgentToken; replace is what a login from the same machine asks for.
Issue(t, replace) ==
    /\ t \notin tokens \cup revoked \cup lapsed
    /\ \A p \in Procs : t \notin copyTokens[p]
    /\ Cardinality(Kept(t, replace)) < MaxTokens
    /\ tokens' = Kept(t, replace) \cup {t}
    /\ revoked' = revoked \cup (tokens \ tokens')
    /\ UNCHANGED <<cred, mu, pc, copyCred, copyTokens, got, unread, forge, lapsed, failures>>

\* handleDeleteToken, and handleGatewayLogout with the token itself.
Revoke(t) ==
    /\ t \in tokens
    /\ tokens' = tokens \ {t} /\ revoked' = revoked \cup {t}
    /\ UNCHANGED <<cred, mu, pc, copyCred, copyTokens, got, unread, forge, lapsed, failures>>

\* authenticateAgent: the token is looked up in a record it loads ...
Authenticate(a, t) ==
    /\ t \in tokens \ lapsed
    /\ Goto(a, "idle", "known")
    /\ ReadRecord(a)
    /\ UNCHANGED <<cred, tokens, mu, got, unread, forge, ghosts>>

\* Mutant of Touch: the loaded record is stored.
TouchRecord(a) ==
    /\ pc[a] = "known" /\ Leave(a)
    /\ tokens' = copyTokens[a]
    /\ UNCHANGED <<cred, mu, unread, forge, ghosts>>

\* ... and its last use is stamped on the stored one, if it is still there.
Touch(a) ==
    /\ pc[a] = "known" /\ Leave(a)
    /\ UNCHANGED <<cred, tokens, mu, unread, forge, ghosts>>

-----------------------------------------------------------------------------
(* Time. *)

\* Credentials live for hours and a sign-in for seconds: none expires while a
\* sign-in that began before it was issued is under way.
Expire ==
    /\ expired < issued
    /\ \A s \in SignIns : pc[s] \in {"exchanged", "signed"} => got[s] > expired + 1
    /\ expired' = expired + 1
    /\ UNCHANGED <<cred, tokens, mu, pc, copyCred, copyTokens, got, unread, issued, consumed, orphaned, ghosts>>

Lapse(t) ==
    /\ t \in tokens \ lapsed
    /\ lapsed' = lapsed \cup {t}
    /\ UNCHANGED <<cred, tokens, mu, pc, copyCred, copyTokens, got, unread, forge, revoked, failures>>

Call(c) ==
    \/ LoadUser(c) \/ Lock(c) \/ CannotServe(c) \/ StillValid(c)
    \/ Adopt(c) \/ AskForge(c) \/ RereadFails(c)
    \/ Refreshed(c) \/ RefreshFails(c) \/ RefreshLost(c)
    \/ Save(c) \/ SaveFails(c)

SignIn(s) ==
    \/ Exchange(s) \/ LoadAccount(s) \/ LoadAccountFails(s)
    \/ SaveAccount(s) \/ SaveAccountFails(s)

Next ==
    \/ \E c \in Calls : Call(c)
    \/ \E s \in SignIns : SignIn(s)
    \/ \E t \in TokenIds : \/ Revoke(t) \/ Lapse(t)
                           \/ \E replace \in BOOLEAN : Issue(t, replace)
                           \/ \E a \in Agents : Authenticate(a, t)
    \/ \E a \in Agents : Touch(a)
    \/ Expire

Spec == Init /\ [][Next]_vars

-----------------------------------------------------------------------------
(* Correctness. *)

TypeOK ==
    /\ cred \in Serials /\ tokens \subseteq TokenIds /\ mu \in Calls \cup {None}
    /\ pc \in [Procs -> {"idle", "loaded", "locked", "refresh", "save",
                         "exchanged", "signed", "known"}]
    /\ copyCred \in [Procs -> Serials] /\ copyTokens \in [Procs -> SUBSET TokenIds]
    /\ got \in [Procs -> Serials]
    /\ issued \in Serials /\ expired \in Serials
    /\ consumed \subseteq Serials /\ orphaned \subseteq Serials
    /\ lapsed \subseteq TokenIds /\ revoked \subseteq TokenIds
    /\ unread \subseteq Calls /\ failures \in 0..MaxFailures

\* "Concurrent analyses cannot race into two refreshes and invalidate each
\* other's token": a refresh token is presented twice only after the answer to
\* its first use, or the write of it, was lost, or by a call that could not read
\* under the mutex what another one had stored (Token goes on with its copy).  And the stored credential can
\* still be refreshed, unless a call is about to store its successor.
NoReplay ==
    /\ \A c \in Calls : pc[c] = "refresh" /\ copyCred[c] \in consumed =>
                        copyCred[c] \in orphaned \/ c \in unread
    /\ cred \in consumed =>
        \/ cred \in orphaned
        \/ \E c \in Calls : mu = c /\ pc[c] = "save" /\ copyCred[c] = cred

\* An account holds at most MaxTokens agent tokens, also when a stale record
\* was written over it.
TokensAreBounded == Cardinality(tokens) <= MaxTokens

\* What keeps it: no goroutine holds a record with more tokens.
AccountInv ==
    /\ TypeOK
    /\ TokensAreBounded
    /\ \A p \in Procs : Cardinality(copyTokens[p]) <= MaxTokens

\* The revoked tokens a step brings back, and the valid ones it drops although
\* nobody revoked them.
Revived == (revoked \cap tokens') \ tokens
Dropped == tokens \ (tokens' \cup revoked' \cup lapsed)

\* What the handlers of agent tokens did is undone only by a whole record: no
\* other step brings a revoked token back or drops a valid one.
OnlySavesUndo ==
    [][Revived # {} \/ Dropped # {} =>
          \E p \in Calls \cup SignIns : pc[p] \in {"save", "signed"} /\ pc'[p] # pc[p]]_vars

\* tokens.go: "handleDeleteToken revokes a token at once", for good.
RevokedStays == tokens \cap revoked = {}
=============================================================================
