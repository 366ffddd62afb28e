------------------------------ MODULE MCDevices ------------------------------
(***************************************************************************)
(* Two device logins, and the limiter that their handlers call, on small   *)
(* instances.  The limiter only refuses a request before it reaches the    *)
(* pending ones, so a behaviour is that of one of them: `part` says which, *)
(* the other one stays in one initial state.                               *)
(***************************************************************************)
EXTENDS WindowLimiter, TLC

CONSTANTS
    Logins, Machines, Accounts, Codes, None, TTL, Interval, MaxPending, MaxTokens,
    MaxTime, MaxFaults

VARIABLES
    part,
    now, status, codeOf, machine, expires, pace, lastPoll, userKey, byUser, tokens, poll,
    grant, reply, cli, wake, wait, deadline, late, handed, decided, faults

Device == INSTANCE DeviceLogin

deviceVars == <<now, status, codeOf, machine, expires, pace, lastPoll, userKey, byUser,
                tokens, poll, grant, reply, cli, wake, wait, deadline, late, handed,
                decided, faults>>

DevicesInit ==
    /\ part \in {"limiter", "device"}
    /\ Init /\ Device!Init
    /\ part = "limiter" => \A k, l \in Logins : machine[k] = machine[l]

DevicesNext ==
    \/ part = "limiter" /\ Next /\ UNCHANGED <<part, deviceVars>>
    \/ part = "device" /\ Device!Next /\ UNCHANGED <<part, vars>>

DevicesSpec == DevicesInit /\ [][DevicesNext]_<<part, vars, deviceVars>>

\* The invariant of the device login.
DeviceInv == Device!DeviceInv

Symmetry == Permutations(Codes) \cup Permutations(Machines) \cup Permutations(Logins)
=============================================================================
