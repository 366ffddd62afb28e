----------------------------- MODULE DeviceLogin -----------------------------
(***************************************************************************)
(* `probe login`: the device authorization flow between the CLI            *)
(* (app/internal/hublogin/hublogin.go, Login), the pending requests the    *)
(* hub keeps in memory (hub/internal/server/device.go) and the browser in  *)
(* which the user decides.                                                 *)
(*                                                                         *)
(* A login stands for its device code, which nobody guesses.  A poll is a  *)
(* request that the hub serves in two steps: it takes the grant under the  *)
(* lock of deviceFlows, and then issues a token in the store.              *)
(***************************************************************************)
EXTENDS Naturals, FiniteSets

CONSTANTS
    Logins,       \* runs of probe login, each with its device code
    Machines,     \* machines the logins run on
    Accounts,     \* signed-in accounts that decide
    Codes,        \* user codes
    None,         \* no login, no account
    TTL,          \* deviceCodeTTL, in ticks
    Interval,     \* devicePollInterval, and by how much it grows
    MaxPending,   \* maxPendingDevices
    MaxTokens,    \* maxAgentTokens
    MaxTime,      \* bound: the clock stops here
    MaxFaults     \* bound: restarts, failed writes, lost and duplicated messages

ASSUME DeviceAssumption ==
    /\ IsFiniteSet(Logins) /\ None \notin Logins \cup Accounts
    /\ TTL \in Nat /\ Interval \in Nat \ {0}
    /\ MaxPending \in Nat /\ MaxTokens \in Nat /\ MaxFaults \in Nat
    /\ MaxTime \in Nat /\ Interval <= MaxTime

VARIABLES
    now,        \* the clock
    status,     \* the grant of a login in byDevice: absent, waiting, approved, denied
    codeOf,     \* deviceGrant.userCode
    machine,    \* deviceGrant.client, the name of the token it asks for
    expires,    \* deviceGrant.expires
    pace,       \* deviceGrant.interval
    lastPoll,   \* deviceGrant.lastPoll
    userKey,    \* deviceGrant.userKey
    byUser,     \* deviceFlows.byUser
    tokens,     \* the llm tokens of each account, named after their login
    poll,       \* the requests of each login: its own (1) and a duplicate (2)
    grant,      \* the account a request carries to issueAgentToken
    reply,      \* what the hub answered the CLI
    cli,        \* where the CLI is in Login
    wake,       \* when it polls next
    wait,       \* its interval
    deadline,   \* when it gives up
    late,       \* logins with a step due since the last tick
    handed,     \* tokens issued for each login
    decided,    \* the first decision on each login: [by, approve, at]
    faults

grants == <<status, codeOf, machine, expires, pace, lastPoll, userKey, byUser>>
client == <<cli, wake, wait, deadline>>
server == <<poll, grant>>
ghosts == <<handed, decided>>
vars   == <<now, grants, tokens, server, reply, client, late, ghosts, faults>>

Deliveries == Logins \X {1, 2}
Undecided == [by |-> None, approve |-> FALSE, at |-> 0]

\* The zero time of lastPoll is long past.
Init ==
    /\ now = Interval
    /\ status = [l \in Logins |-> "absent"]
    /\ codeOf = [l \in Logins |-> None]
    /\ machine \in [Logins -> Machines]
    /\ expires = [l \in Logins |-> 0] /\ pace = [l \in Logins |-> 0]
    /\ lastPoll = [l \in Logins |-> 0]
    /\ userKey = [l \in Logins |-> None]
    /\ byUser = [u \in Codes |-> None]
    /\ tokens = [a \in Accounts |-> {}]
    /\ poll = [r \in Deliveries |-> "none"] /\ grant = [r \in Deliveries |-> None]
    /\ reply = [l \in Logins |-> "none"]
    /\ cli = [l \in Logins |-> "idle"]
    /\ wake = [l \in Logins |-> 0] /\ wait = [l \in Logins |-> 0]
    /\ deadline = [l \in Logins |-> 0]
    /\ late = {}
    /\ handed = [l \in Logins |-> 0]
    /\ decided = [l \in Logins |-> Undecided]
    /\ faults = 0

Fault == faults < MaxFaults /\ faults' = faults + 1
OnTime(l) == late' = late \ {l}

-----------------------------------------------------------------------------
(* The pending requests.  Every method runs under deviceFlows.mu. *)

Live == {l \in Logins : status[l] # "absent"}

\* What is left of the requests, and of byUser, once those of gone are deleted.
Delete(gone) ==
    /\ codeOf' = [l \in Logins |-> IF l \in gone THEN None ELSE codeOf[l]]
    /\ byUser' = [u \in Codes |-> IF byUser[u] \in gone THEN None ELSE byUser[u]]
    /\ status' = [l \in Logins |-> IF l \in gone THEN "absent" ELSE status[l]]
    /\ userKey' = [l \in Logins |-> IF l \in gone THEN None ELSE userKey[l]]
    /\ UNCHANGED <<machine, expires, pace, lastPoll>>

Overdue == {l \in Live : now > expires[l]}

\* Mutant of Register: sweep leaves the codes of expired requests behind.
RegisterOver(l, u) ==
    /\ byUser[u] = None
    /\ status' = [k \in Logins |-> IF k = l THEN "waiting" ELSE IF k \in Overdue THEN "absent" ELSE status[k]]
    /\ codeOf' = [k \in Logins |-> IF k = l THEN u ELSE IF k \in Overdue THEN None ELSE codeOf[k]]
    /\ userKey' = [k \in Logins |-> IF k \in Overdue THEN None ELSE userKey[k]]
    /\ byUser' = [byUser EXCEPT ![u] = l]
    /\ expires' = [expires EXCEPT ![l] = now + TTL]
    /\ pace' = [pace EXCEPT ![l] = Interval]
    /\ lastPoll' = [lastPoll EXCEPT ![l] = 0]
    /\ UNCHANGED machine

\* start, past its limit: what expired is swept, an unused code is drawn.
Register(l, u) ==
    /\ byUser[u] = None \/ byUser[u] \in Overdue
    /\ status' = [k \in Logins |-> IF k = l THEN "waiting" ELSE IF k \in Overdue THEN "absent" ELSE status[k]]
    /\ codeOf' = [k \in Logins |-> IF k = l THEN u ELSE IF k \in Overdue THEN None ELSE codeOf[k]]
    /\ userKey' = [k \in Logins |-> IF k \in Overdue THEN None ELSE userKey[k]]
    /\ byUser' = [c \in Codes |-> IF c = u THEN l ELSE IF byUser[c] \in Overdue THEN None ELSE byUser[c]]
    /\ expires' = [expires EXCEPT ![l] = now + TTL]
    /\ pace' = [pace EXCEPT ![l] = Interval]
    /\ lastPoll' = [lastPoll EXCEPT ![l] = 0]
    /\ UNCHANGED machine

Full == Cardinality(Live \ Overdue) >= MaxPending

\* handleDeviceCode: the CLI gets its codes and starts to poll.
Start(l, u) ==
    /\ cli[l] = "idle" /\ ~Full
    /\ now + TTL + Interval <= MaxTime
    /\ Register(l, u)
    /\ cli' = [cli EXCEPT ![l] = "waiting"]
    /\ wake' = [wake EXCEPT ![l] = now + Interval]
    /\ wait' = [wait EXCEPT ![l] = Interval]
    /\ deadline' = [deadline EXCEPT ![l] = now + TTL]
    /\ UNCHANGED <<now, tokens, server, reply, late, ghosts, faults>>

\* The answer with the codes is lost: the request stays until it is swept.
StartLost(l, u) ==
    /\ cli[l] = "idle" /\ ~Full
    /\ now + TTL + Interval <= MaxTime
    /\ Fault
    /\ Register(l, u)
    /\ cli' = [cli EXCEPT ![l] = "error"]
    /\ UNCHANGED <<now, tokens, server, reply, wake, wait, deadline, late, ghosts>>

\* Too many logins are in progress: what expired is swept all the same.
StartRefused(l) ==
    /\ cli[l] = "idle" /\ Full
    /\ Delete(Overdue)
    /\ cli' = [cli EXCEPT ![l] = "error"]
    /\ UNCHANGED <<now, tokens, server, reply, wake, wait, deadline, late, ghosts, faults>>

Record(l, a, approve) ==
    /\ status' = [status EXCEPT ![l] = IF approve THEN "approved" ELSE "denied"]
    /\ userKey' = [userKey EXCEPT ![l] = IF approve THEN a ELSE @]
    /\ decided' = IF decided[l] = Undecided
                  THEN [decided EXCEPT ![l] = [by |-> a, approve |-> approve, at |-> now]]
                  ELSE decided
    /\ UNCHANGED <<now, codeOf, machine, expires, pace, lastPoll, byUser, tokens, server, reply, client,
                   late, handed, faults>>

\* handleDeviceDecide: the account a answers the request its user typed.
Decide(u, a, approve) ==
    /\ byUser[u] # None /\ now <= expires[byUser[u]]
    /\ status[byUser[u]] = "waiting"
    /\ Record(byUser[u], a, approve)

-----------------------------------------------------------------------------
(* The poll, on the hub. *)

\* The CLI's own request is answered; nobody reads the answer to a duplicate.
Answer(r, what) ==
    reply' = IF r[2] = 1 THEN [reply EXCEPT ![r[1]] = what] ELSE reply
Finish(r, what) ==
    /\ poll' = [poll EXCEPT ![r] = IF r[2] = 1 THEN "none" ELSE "done"]
    /\ grant' = [grant EXCEPT ![r] = None]
    /\ Answer(r, what) /\ OnTime(r[1])

\* poll's switch, in its order; every answer that ends a request forgets it.
PollEnds(r, l) ==
    \/ /\ status[l] = "absent" /\ Finish(r, "invalid_grant") /\ UNCHANGED grants
    \/ /\ status[l] # "absent" /\ now > expires[l]
       /\ Finish(r, "expired_token") /\ Delete({l})
    \/ /\ status[l] = "denied" /\ now <= expires[l]
       /\ Finish(r, "access_denied") /\ Delete({l})

\* Nothing to hand over yet: a client that polls too fast waits longer.  A
\* pace beyond the clock's bound is as good as the bound.
Paced(n) == IF n > MaxTime THEN MaxTime + 1 ELSE n

PollWaits(r, l) ==
    /\ status[l] = "waiting" /\ now <= expires[l]
    /\ lastPoll' = [lastPoll EXCEPT ![l] = now]
    /\ IF now - lastPoll[l] < pace[l]
       THEN Finish(r, "slow_down") /\ pace' = [pace EXCEPT ![l] = Paced(@ + Interval)]
       ELSE Finish(r, "authorization_pending") /\ UNCHANGED pace
    /\ UNCHANGED <<status, codeOf, machine, expires, userKey, byUser>>

\* Mutant of Take: the request is not forgotten.
TakeAndKeep(r, l) ==
    /\ status[l] = "approved" /\ now <= expires[l]
    /\ poll' = [poll EXCEPT ![r] = "issuing"]
    /\ grant' = [grant EXCEPT ![r] = userKey[l]]
    /\ OnTime(l) /\ UNCHANGED <<reply, grants>>

\* The approving account, once.
Take(r, l) ==
    /\ status[l] = "approved" /\ now <= expires[l]
    /\ Delete({l})
    /\ poll' = [poll EXCEPT ![r] = "issuing"]
    /\ grant' = [grant EXCEPT ![r] = userKey[l]]
    /\ OnTime(l) /\ UNCHANGED reply

Serve(r) ==
    /\ poll[r] = "sent"
    /\ PollEnds(r, r[1]) \/ PollWaits(r, r[1]) \/ Take(r, r[1])
    /\ UNCHANGED <<now, tokens, client, ghosts, faults>>

\* issueAgentToken with replace: a previous token of the same machine goes.
Others(a, l) == {k \in tokens[a] : machine[k] # machine[l]}

\* Mutant of Issue: the earlier token is not counted, and stays.
IssueBeside(r) ==
    /\ poll[r] = "issuing"
    /\ Cardinality(Others(grant[r], r[1])) < MaxTokens
    /\ tokens' = [tokens EXCEPT ![grant[r]] = @ \cup {r[1]}]
    /\ handed' = [handed EXCEPT ![r[1]] = @ + 1]
    /\ Finish(r, "token")
    /\ UNCHANGED <<now, grants, client, decided, faults>>

Issue(r) ==
    /\ poll[r] = "issuing"
    /\ Cardinality(Others(grant[r], r[1])) < MaxTokens
    /\ tokens' = [tokens EXCEPT ![grant[r]] = Others(grant[r], r[1]) \cup {r[1]}]
    /\ handed' = [handed EXCEPT ![r[1]] = @ + 1]
    /\ Finish(r, "token")
    /\ UNCHANGED <<now, grants, client, decided, faults>>

\* The account is full: the grant is gone all the same.
IssueRefused(r) ==
    /\ poll[r] = "issuing"
    /\ Cardinality(Others(grant[r], r[1])) >= MaxTokens
    /\ Finish(r, "refused")
    /\ UNCHANGED <<now, grants, tokens, client, ghosts, faults>>

\* The write fails: the grant is gone all the same.
IssueFails(r) ==
    /\ poll[r] = "issuing"
    /\ Fault
    /\ Finish(r, "refused")
    /\ UNCHANGED <<now, grants, tokens, client, ghosts>>

-----------------------------------------------------------------------------
(* The CLI: Login's loop. *)

SendPoll(l) ==
    /\ cli[l] = "waiting" /\ now < deadline[l] /\ now >= wake[l]
    /\ poll[<<l, 1>>] = "none"
    /\ cli' = [cli EXCEPT ![l] = "polling"]
    /\ poll' = [poll EXCEPT ![<<l, 1>>] = "sent"]
    /\ reply' = [reply EXCEPT ![l] = "none"]
    /\ OnTime(l)
    /\ UNCHANGED <<now, grants, tokens, grant, wake, wait, deadline, ghosts, faults>>

Ended(answer) ==
    CASE answer = "token" -> "token"
      [] answer = "access_denied" -> "denied"
      [] answer \in {"expired_token", "invalid_grant"} -> "expired"
      [] answer = "refused" -> "error"

\* Mutant of Receive: the CLI slows down after every answer.
ReceiveSlower(l) ==
    /\ cli[l] = "polling" /\ reply[l] # "none"
    /\ IF reply[l] \in {"authorization_pending", "slow_down"}
       THEN /\ wait' = [wait EXCEPT ![l] = Paced(@ + Interval)]
            /\ cli' = [cli EXCEPT ![l] = "waiting"]
            /\ wake' = [wake EXCEPT ![l] = Paced(now + wait'[l])]
       ELSE /\ cli' = [cli EXCEPT ![l] = Ended(reply[l])]
            /\ UNCHANGED <<wake, wait>>
    /\ reply' = [reply EXCEPT ![l] = "none"]
    /\ OnTime(l)
    /\ UNCHANGED <<now, grants, tokens, server, deadline, ghosts, faults>>

\* The login goes on, 5 s slower when the hub asks for it, or ends.
Receive(l) ==
    /\ cli[l] = "polling" /\ reply[l] # "none"
    /\ IF reply[l] \in {"authorization_pending", "slow_down"}
       THEN /\ wait' = [wait EXCEPT ![l] = Paced(IF reply[l] = "slow_down" THEN @ + Interval ELSE @)]
            /\ cli' = [cli EXCEPT ![l] = "waiting"]
            /\ wake' = [wake EXCEPT ![l] = Paced(now + wait'[l])]
       ELSE /\ cli' = [cli EXCEPT ![l] = Ended(reply[l])]
            /\ UNCHANGED <<wake, wait>>
    /\ reply' = [reply EXCEPT ![l] = "none"]
    /\ OnTime(l)
    /\ UNCHANGED <<now, grants, tokens, server, deadline, ghosts, faults>>

\* Mutant of GiveUp: only a request is cut off, not the wait.
GiveUpRequest(l) ==
    /\ now >= deadline[l]
    /\ cli[l] = "polling" /\ cli' = [cli EXCEPT ![l] = "error"]
    /\ OnTime(l)
    /\ UNCHANGED <<now, grants, tokens, server, reply, wake, wait, deadline, ghosts, faults>>

\* The deadline passes while the CLI waits, or cuts its request off.
GiveUp(l) ==
    /\ now >= deadline[l]
    /\ \/ cli[l] = "waiting" /\ cli' = [cli EXCEPT ![l] = "expired"]
       \/ cli[l] = "polling" /\ cli' = [cli EXCEPT ![l] = "error"]
    /\ OnTime(l)
    /\ UNCHANGED <<now, grants, tokens, server, reply, wake, wait, deadline, ghosts, faults>>

-----------------------------------------------------------------------------
(* The rest of the world. *)

\* The connection fails before the answer arrives: Login ends.
Disconnect(l) ==
    /\ cli[l] = "polling"
    /\ Fault
    /\ cli' = [cli EXCEPT ![l] = "error"]
    /\ OnTime(l)
    /\ UNCHANGED <<now, grants, tokens, server, reply, wake, wait, deadline, ghosts>>

\* A poll reaches the hub twice.
Duplicate(l) ==
    /\ poll[<<l, 1>>] = "sent" /\ poll[<<l, 2>>] = "none"
    /\ Fault
    /\ poll' = [poll EXCEPT ![<<l, 2>>] = "sent"]
    /\ UNCHANGED <<now, grants, tokens, grant, reply, client, late, ghosts>>

\* The owner revokes the token of a login.
Revoke(a, l) ==
    /\ l \in tokens[a]
    /\ tokens' = [tokens EXCEPT ![a] = @ \ {l}]
    /\ UNCHANGED <<now, grants, server, reply, client, late, ghosts, faults>>

\* The hub restarts: pending requests live in memory, tokens in the store.
Restart ==
    /\ Fault
    /\ Delete(Live)
    /\ poll' = [r \in Deliveries |-> IF poll[r] = "none" THEN "none" ELSE IF r[2] = 1 THEN "none" ELSE "done"]
    /\ grant' = [r \in Deliveries |-> None]
    /\ cli' = [l \in Logins |-> IF cli[l] = "polling" /\ poll[<<l, 1>>] # "none" THEN "error" ELSE cli[l]]
    /\ late' = {l \in late : cli'[l] = cli[l]}
    /\ UNCHANGED <<now, tokens, reply, wake, wait, deadline, ghosts>>

\* A step of the CLI, or of the hub for it, is due.
Busy(l) ==
    \/ cli[l] = "waiting" /\ (now >= wake[l] \/ now >= deadline[l])
    \/ cli[l] = "polling"
    \/ \E r \in Deliveries : r[1] = l /\ poll[r] \in {"sent", "issuing"}

\* No step that is due takes longer than a tick.
Tick ==
    /\ now < MaxTime /\ late = {}
    /\ now' = now + 1
    /\ late' = {l \in Logins : Busy(l)}
    /\ UNCHANGED <<grants, tokens, server, reply, client, ghosts, faults>>

Hub == \E r \in Deliveries : Serve(r) \/ Issue(r) \/ IssueRefused(r) \/ IssueFails(r)
CLI(l) == SendPoll(l) \/ Receive(l) \/ GiveUp(l) \/ Disconnect(l)
Browser ==
    \E a \in Accounts :
        \/ \E u \in Codes, approve \in BOOLEAN : Decide(u, a, approve)
        \/ \E l \in Logins : Revoke(a, l)

Next ==
    \/ \E l \in Logins : \/ \E u \in Codes : Start(l, u) \/ StartLost(l, u)
                         \/ StartRefused(l) \/ CLI(l) \/ Duplicate(l)
    \/ Hub \/ Browser \/ Restart \/ Tick

Spec == Init /\ [][Next]_vars

\* Time passes, the hub serves what reaches it and the CLI goes on.
FairSpec ==
    /\ Spec
    /\ WF_vars(Tick)
    /\ \A r \in Deliveries : WF_vars(Serve(r) \/ Issue(r) \/ IssueRefused(r))
    /\ \A l \in Logins : WF_vars(SendPoll(l) \/ Receive(l) \/ GiveUp(l))

-----------------------------------------------------------------------------
(* Correctness. *)

Times == 0..(MaxTime + 1)

TypeOK ==
    /\ now \in Times
    /\ status \in [Logins -> {"absent", "waiting", "approved", "denied"}]
    /\ machine \in [Logins -> Machines]
    /\ codeOf \in [Logins -> Codes \cup {None}] /\ byUser \in [Codes -> Logins \cup {None}]
    /\ expires \in [Logins -> Times] /\ pace \in [Logins -> Times] /\ lastPoll \in [Logins -> Times]
    /\ userKey \in [Logins -> Accounts \cup {None}]
    /\ tokens \in [Accounts -> SUBSET Logins]
    /\ poll \in [Deliveries -> {"none", "sent", "issuing", "done"}]
    /\ grant \in [Deliveries -> Accounts \cup {None}]
    /\ reply \in [Logins -> {"none", "invalid_grant", "expired_token", "access_denied",
                             "authorization_pending", "slow_down", "refused", "token"}]
    /\ cli \in [Logins -> {"idle", "waiting", "polling", "token", "denied", "expired", "error"}]
    /\ wake \in [Logins -> Times] /\ wait \in [Logins -> Times] /\ deadline \in [Logins -> Times]
    /\ late \subseteq Logins /\ handed \in [Logins -> Nat]
    /\ decided \in [Logins -> [by : Accounts \cup {None}, approve : BOOLEAN, at : Times]]
    /\ faults \in 0..MaxFaults

\* The two maps name the same requests, so that a code is free once its
\* request is gone and never leads to another one.
MapsAgree ==
    /\ \A l \in Live : byUser[codeOf[l]] = l
    /\ \A u \in Codes : byUser[u] # None => byUser[u] \in Live /\ codeOf[byUser[u]] = u

\* "maxPendingDevices bounds the requests waiting for approval."
PendingIsBounded == Cardinality(Live) <= MaxPending

\* "The approving account, once": a login never yields two tokens, also when
\* its polls are duplicated, answers are lost and the hub restarts; the token
\* belongs to the account whose decision came first, which was to approve.
OneTokenPerLogin ==
    /\ \A l \in Logins : handed[l] <= 1
    /\ \A a \in Accounts : \A l \in tokens[a] : decided[l].approve /\ decided[l].by = a
    /\ \A r \in Deliveries : grant[r] # None => decided[r[1]].approve /\ decided[r[1]].by = grant[r]

\* "Replace ... keeps repeated logins from one machine from filling the
\* account": concurrent logins of a machine leave one token.
OneTokenPerMachine ==
    \A a \in Accounts : \A k, l \in tokens[a] : machine[k] = machine[l] => k = l

\* Whatever the logins, the users and the clock do: the maps of deviceFlows name the
\* same pending requests, they stay bounded, and a login yields and a machine keeps one
\* token.
DeviceInv == TypeOK /\ MapsAgree /\ PendingIsBounded /\ OneTokenPerLogin /\ OneTokenPerMachine

\* A request approved while at least one more poll fits before it expires is
\* not reported as expired: with steps at most a tick late, that poll comes at
\* most Interval + 3 ticks after the last one found it undecided.
ApprovedInTimeIsKept ==
    \A l \in Logins :
        cli[l] = "expired" /\ faults = 0 /\ decided[l].approve =>
            decided[l].at + Interval + 3 > expires[l]

\* Every login ends: the CLI is free of it again and again.
LoginEnds == \A l \in Logins : []<>(cli[l] \notin {"waiting", "polling"})
=============================================================================
