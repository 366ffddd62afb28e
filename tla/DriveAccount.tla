------------------------------ MODULE DriveAccount ------------------------------
(***************************************************************************)
(* A Google account of the desktop application (gdrive/manager.go) and its *)
(* place in the settings (server.go, config.go): the refresh token in the  *)
(* keychain, the access token in memory, the list of connected accounts    *)
(* and the sources that use one.                                           *)
(*                                                                         *)
(* Connections, disconnections, saved settings and calls to Drive run in   *)
(* goroutines of their own.  Manager.mu and Store.mu each cover one access *)
(* to one of these places; nothing covers two of them.                     *)
(***************************************************************************)
EXTENDS Naturals, FiniteSets

CONSTANTS
    Calls,         \* calls to Drive at the same time
    MaxConnects,   \* bound: connections started
    MaxStarts,     \* bound: connections, disconnections, saves and calls, in all
    MaxRotations,  \* bound: refresh tokens that Google replaces
    MaxFaults      \* bound: failed writes and calls, refused consents and stops

VARIABLES
    live,        \* the refresh tokens Google accepts
    issued,      \* how many it issued
    rotated,     \* how many of them replaced another one
    keychain,    \* the refresh token stored, 0 if none
    cached,      \* the access token in memory, by its refresh token, 0 if none
    listed,      \* the account is in the settings
    used,        \* a source of the account is in the settings
    status,      \* what the page shows of the last connection
    conns,       \* the connections, the last one is the present generation
    disc,        \* the disconnection under way
    save,        \* the settings being saved
    calls,       \* the calls under way
    met,         \* the operations that ran at the same time
    starts,
    faults

google   == <<live, issued, rotated>>
settings == <<listed, used>>
history  == <<met, starts, faults>>
places   == <<google, keychain, cached, settings>>
vars == <<google, keychain, cached, settings, status, conns, disc, save, calls, history>>

Idle == [pc |-> "idle"]
generation == Cardinality(DOMAIN conns)

Init ==
    /\ live = {} /\ issued = 0 /\ rotated = 0
    /\ keychain = 0 /\ cached = 0 /\ listed = FALSE /\ used = FALSE
    /\ status = "" /\ conns = [g \in {} |-> Idle]
    /\ disc = Idle /\ save = Idle /\ calls = [c \in Calls |-> Idle]
    /\ met = {} /\ starts = 0 /\ faults = 0

Running ==
    (IF \E g \in DOMAIN conns : conns[g].pc # "over" THEN {"connect"} ELSE {})
    \cup (IF disc.pc # "idle" THEN {"disconnect"} ELSE {})
    \cup (IF save.pc # "idle" THEN {"save"} ELSE {})
    \cup (IF \E c \in Calls : calls[c].pc # "idle" THEN {"call"} ELSE {})

\* An operation starts while others run.
Start(operation) ==
    /\ starts < MaxStarts /\ starts' = starts + 1
    /\ met' = met \cup {{operation, other} : other \in Running}

Fault ==  faults < MaxFaults /\ faults' = faults + 1
Goes(g, pc) == conns' = [conns EXCEPT ![g].pc = pc]

------------------------------------------------------------------------------
(* Connect.  The connection before it is cancelled.                          *)

Connect ==
    /\ Start("connect")
    /\ generation < MaxConnects
    /\ conns' = [g \in 1..(generation + 1) |->
                    IF g \in DOMAIN conns THEN conns[g]
                    ELSE [pc |-> "consent", token |-> 0, ok |-> FALSE]]
    /\ status' = "pending"
    /\ UNCHANGED <<places, disc, save, calls, faults>>

Cancelled(g) == g # generation

\* The person consents, Google gives a token.
Consent(g) ==
    /\ conns[g].pc = "consent" /\ ~Cancelled(g)
    /\ issued' = issued + 1
    /\ live' = live \cup {issued + 1}
    /\ conns' = [conns EXCEPT ![g] = [pc |-> "about", token |-> issued + 1, ok |-> FALSE]]
    /\ UNCHANGED <<rotated, keychain, cached, settings, status, disc, save, calls, history>>

\* Google says whose token it is.
About(g) ==
    /\ conns[g].pc = "about" /\ ~Cancelled(g)
    /\ Goes(g, "store")
    /\ UNCHANGED <<places, status, disc, save, calls, history>>

\* From here on nothing looks whether the connection was cancelled.
StoreToken(g) ==
    /\ conns[g].pc = "store"
    /\ keychain' = conns[g].token
    /\ Goes(g, "cache")
    /\ UNCHANGED <<google, cached, settings, status, disc, save, calls, history>>

CacheToken(g) ==
    /\ conns[g].pc = "cache"
    /\ cached' = conns[g].token
    /\ Goes(g, "list")
    /\ UNCHANGED <<google, keychain, settings, status, disc, save, calls, history>>

\* OnAccount.
ListAccount(g) ==
    /\ conns[g].pc = "list"
    /\ listed' = TRUE
    /\ conns' = [conns EXCEPT ![g].pc = "end", ![g].ok = TRUE]
    /\ UNCHANGED <<google, keychain, cached, used, status, disc, save, calls, history>>

\* The connection is cancelled, the consent refused or late, or a step fails.
ConnectFails(g) ==
    /\ conns[g].pc \in {"consent", "about", "store", "list"}
    /\ IF conns[g].pc \in {"consent", "about"} /\ Cancelled(g) THEN UNCHANGED faults ELSE Fault
    /\ Goes(g, "end")
    /\ UNCHANGED <<places, status, disc, save, calls, met, starts>>

\* Mutant of Shows: any connection that ends shows its outcome.
ShowsAny(g) == TRUE

\* Only the last connection shows its outcome.
Shows(g) == g = generation

EndConnect(g) ==
    /\ conns[g].pc = "end"
    /\ status' = IF ~Shows(g) THEN status ELSE IF conns[g].ok THEN "done" ELSE "error"
    /\ Goes(g, "over")
    /\ UNCHANGED <<places, disc, save, calls, history>>

------------------------------------------------------------------------------
(* googleDisconnect and Disconnect.                                          *)

\* Mutant of Free: the sources are not looked at.
FreeAlways == TRUE

\* An account that a source uses is refused.
Free == ~used

Disconnect ==
    /\ Start("disconnect")
    /\ disc.pc = "idle" /\ Free
    /\ disc' = [pc |-> "forget"]
    /\ UNCHANGED <<places, status, conns, save, calls, faults>>

Forget ==
    /\ disc.pc = "forget"
    /\ cached' = 0
    /\ disc' = [pc |-> "read"]
    /\ UNCHANGED <<google, keychain, settings, status, conns, save, calls, history>>

ReadToken ==
    /\ disc.pc = "read"
    /\ disc' = IF keychain = 0 THEN [pc |-> "delete", token |-> 0]
               ELSE [pc |-> "revoke", token |-> keychain]
    /\ UNCHANGED <<places, status, conns, save, calls, history>>

\* Mutant of RevokeToken: the token is deleted, never revoked.
RevokeNothing ==
    /\ disc.pc = "revoke"
    /\ disc' = [disc EXCEPT !.pc = "delete"]
    /\ UNCHANGED <<places, status, conns, save, calls, history>>

RevokeToken ==
    /\ disc.pc = "revoke"
    /\ live' = live \ {disc.token}
    /\ disc' = [disc EXCEPT !.pc = "delete"]
    /\ UNCHANGED <<issued, rotated, keychain, cached, settings, status, conns, save, calls, history>>

\* Google is not reached: the token is deleted all the same.
RevokeFails ==
    /\ disc.pc = "revoke" /\ Fault
    /\ disc' = [disc EXCEPT !.pc = "delete"]
    /\ UNCHANGED <<places, status, conns, save, calls, met, starts>>

\* The token deleted may not be the one that was revoked, and the memory may hold it again.
DeleteToken ==
    /\ disc.pc = "delete"
    /\ keychain' = 0
    /\ disc' = [pc |-> "unlist"]
    /\ UNCHANGED <<google, cached, settings, status, conns, save, calls, history>>

Unlist ==
    /\ disc.pc = "unlist"
    /\ listed' = FALSE
    /\ disc' = Idle
    /\ UNCHANGED <<google, keychain, cached, used, status, conns, save, calls, history>>

\* The keychain or the disk refuses: what was done stays done.
DisconnectFails ==
    /\ disc.pc \in {"read", "delete", "unlist"} /\ Fault
    /\ disc' = Idle
    /\ UNCHANGED <<places, status, conns, save, calls, met, starts>>

------------------------------------------------------------------------------
(* putSettings.  The list of accounts is read, then written with the rest.   *)

ReadSettings ==
    /\ Start("save")
    /\ save.pc = "idle"
    /\ \E wanted \in BOOLEAN : save' = [pc |-> "write", used |-> wanted, listed |-> listed]
    /\ UNCHANGED <<places, status, conns, disc, calls, faults>>

\* A source needs a connected account.
Valid == save.used => save.listed

SaveSettings ==
    /\ save.pc = "write" /\ Valid
    /\ used' = save.used /\ listed' = save.listed
    /\ save' = Idle
    /\ UNCHANGED <<google, keychain, cached, status, conns, disc, calls, history>>

SaveRefused ==
    /\ save.pc = "write" /\ (~Valid \/ faults < MaxFaults)
    /\ IF Valid THEN Fault ELSE UNCHANGED faults
    /\ save' = Idle
    /\ UNCHANGED <<places, status, conns, disc, calls, met, starts>>

------------------------------------------------------------------------------
(* fetch and accessToken.                                                    *)

Turns(c, state) == calls' = [calls EXCEPT ![c] = state]

\* A scan of a source, or the page that chooses a folder.
Call(c) ==
    /\ Start("call")
    /\ calls[c].pc = "idle" /\ (used \/ listed)
    /\ Turns(c, [pc |-> "token", try |-> 1])
    /\ UNCHANGED <<places, status, conns, disc, save, faults>>

CachedToken(c) ==
    /\ calls[c].pc = "token" /\ cached # 0
    /\ Turns(c, [pc |-> "get", try |-> calls[c].try, token |-> cached])
    /\ UNCHANGED <<places, status, conns, disc, save, history>>

\* The access token is missing or about to expire.
NeedsToken(c) ==
    /\ calls[c].pc = "token"
    /\ Turns(c, IF keychain = 0 THEN Idle
                ELSE [pc |-> "exchange", try |-> calls[c].try, token |-> keychain])
    /\ UNCHANGED <<places, status, conns, disc, save, history>>

Exchange(c) ==
    /\ calls[c].pc = "exchange"
    /\ Turns(c, IF calls[c].token \in live THEN [calls[c] EXCEPT !.pc = "cache"] ELSE Idle)
    /\ UNCHANGED <<places, status, conns, disc, save, history>>

\* Google gives a new refresh token with the access token; the old one is no longer good.
ExchangeRotates(c) ==
    /\ calls[c].pc = "exchange" /\ calls[c].token \in live /\ rotated < MaxRotations
    /\ rotated' = rotated + 1 /\ issued' = issued + 1
    /\ live' = (live \ {calls[c].token}) \cup {issued + 1}
    /\ Turns(c, [pc |-> "rotate", try |-> calls[c].try, token |-> issued + 1])
    /\ UNCHANGED <<keychain, cached, settings, status, conns, disc, save, history>>

\* The new refresh token replaces whatever the keychain holds now.
Rotate(c) ==
    /\ calls[c].pc = "rotate"
    /\ keychain' = calls[c].token
    /\ Turns(c, [calls[c] EXCEPT !.pc = "cache"])
    /\ UNCHANGED <<google, cached, settings, status, conns, disc, save, history>>

\* A failure to store it is not looked at.
RotateFails(c) ==
    /\ calls[c].pc = "rotate" /\ Fault
    /\ Turns(c, [calls[c] EXCEPT !.pc = "cache"])
    /\ UNCHANGED <<places, status, conns, disc, save, met, starts>>

KeepToken(c) ==
    /\ calls[c].pc = "cache"
    /\ cached' = calls[c].token
    /\ Turns(c, [calls[c] EXCEPT !.pc = "get"])
    /\ UNCHANGED <<google, keychain, settings, status, conns, disc, save, history>>

Answered(c) ==
    /\ calls[c].pc = "get" /\ calls[c].token \in live
    /\ Turns(c, Idle)
    /\ UNCHANGED <<places, status, conns, disc, save, history>>

\* A refused token is refreshed once.
Again(c) == calls[c].try = 1

Refused(c) ==
    /\ calls[c].pc = "get" /\ calls[c].token \notin live
    /\ cached' = IF Again(c) THEN 0 ELSE cached
    /\ Turns(c, IF Again(c) THEN [pc |-> "token", try |-> 2] ELSE Idle)
    /\ UNCHANGED <<google, keychain, settings, status, conns, disc, save, history>>

CallFails(c) ==
    /\ calls[c].pc \in {"token", "exchange", "get"} /\ Fault
    /\ Turns(c, Idle)
    /\ UNCHANGED <<places, status, conns, disc, save, met, starts>>

------------------------------------------------------------------------------

Held == {keychain} \cup {conns[g].token : g \in {g \in DOMAIN conns : conns[g].pc \in {"about", "store"}}}
        \cup {calls[c].token : c \in {c \in Calls : calls[c].pc = "rotate"}}

\* The application stops and starts again.
Restart ==
    /\ Fault
    /\ cached' = 0 /\ status' = ""
    /\ conns' = [g \in DOMAIN conns |-> [conns[g] EXCEPT !.pc = "over"]]
    /\ disc' = Idle /\ save' = Idle /\ calls' = [c \in Calls |-> Idle]
    /\ UNCHANGED <<google, keychain, settings, met, starts>>

Next ==
    \/ Connect
    \/ \E g \in DOMAIN conns :
        \/ Consent(g) \/ About(g) \/ StoreToken(g) \/ CacheToken(g) \/ ListAccount(g)
        \/ ConnectFails(g) \/ EndConnect(g)
    \/ Disconnect \/ Forget \/ ReadToken \/ RevokeToken \/ RevokeFails \/ DeleteToken \/ Unlist
    \/ DisconnectFails
    \/ ReadSettings \/ SaveSettings \/ SaveRefused
    \/ \E c \in Calls :
        \/ Call(c) \/ CachedToken(c) \/ NeedsToken(c) \/ Exchange(c) \/ ExchangeRotates(c)
        \/ Rotate(c) \/ RotateFails(c) \/ KeepToken(c) \/ Answered(c) \/ Refused(c)
        \/ CallFails(c)
    \/ Restart

Spec == Init /\ [][Next]_vars

------------------------------------------------------------------------------
(* Properties.                                                               *)

Tokens == 1..(MaxConnects + MaxRotations)

TypeOK ==
    /\ live \subseteq Tokens /\ issued \in 0..(MaxConnects + MaxRotations)
    /\ keychain \in {0} \cup Tokens /\ cached \in {0} \cup Tokens
    /\ listed \in BOOLEAN /\ used \in BOOLEAN
    /\ status \in {"", "pending", "done", "error"}

\* No two of these operations ran at the same time.
Apart(pairs) == met \cap pairs = {}

SaveConnect       == {"save", "connect"}
SaveDisconnect    == {"save", "disconnect"}
ConnectDisconnect == {"connect", "disconnect"}
CallDisconnect    == {"call", "disconnect"}

\* A source has an account that is connected, whatever fails, unless settings were saved
\* while the account was being disconnected: the check and the removal are two steps.
SourceIsConnected == Apart({SaveDisconnect}) /\ used => listed

\* An account is listed only with a token stored.
ListedHasToken ==
    /\ faults = 0
    /\ Apart({SaveDisconnect, ConnectDisconnect})
    /\ listed
    => keychain # 0 \/ disc.pc = "unlist"

\* A token stored is that of a listed account, so that it can be disconnected; a save of
\* the settings writes back the list it read, and a call stores a token that Google
\* replaced, whatever happened since.
TokenIsListed ==
    /\ faults = 0
    /\ Apart({SaveConnect, ConnectDisconnect, CallDisconnect})
    /\ keychain # 0
    => listed \/ \E g \in DOMAIN conns : conns[g].pc \in {"cache", "list"}

\* The token stored is one Google accepts.
StoredIsLive ==
    /\ faults = 0
    /\ keychain # 0
    => \/ keychain \in live
       \/ disc.pc = "delete"
       \/ \E c \in Calls : calls[c].pc = "rotate"

\* A token Google accepts is one the application knows, so that it can be revoked; a second
\* connection forgets the token of the first.
NothingForgotten ==
    /\ faults = 0 /\ generation < 2
    /\ Apart({ConnectDisconnect, CallDisconnect})
    => live \subseteq Held

\* No access token stays in memory when the account is disconnected.
NothingCached ==
    Apart({ConnectDisconnect, CallDisconnect}) /\ cached # 0 => keychain # 0

\* The page shows the outcome of the last connection, and "pending" as long as it runs.
ShownIsLast ==
    generation > 0 /\ status # "" =>
        LET last == conns[generation] IN
        /\ status = "pending" <=> last.pc # "over"
        /\ status = "done" => last.ok

ConnectionInv ==
    /\ TypeOK
    /\ SourceIsConnected
    /\ ListedHasToken /\ TokenIsListed /\ StoredIsLive
    /\ NothingForgotten /\ NothingCached
    /\ ShownIsLast
================================================================================
