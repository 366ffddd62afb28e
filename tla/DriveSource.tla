------------------------------ MODULE DriveSource ------------------------------
(***************************************************************************)
(* A Google Drive source of the desktop application (desktop/internal/     *)
(* gdrive, source.go): the cache of the files and folders of a drive,      *)
(* filled by a full listing, kept up to date by the feed of changes, and   *)
(* touched by the reading of one document (Stat).                          *)
(*                                                                         *)
(* A listing holds the lock of the source during all of its calls.  Stat   *)
(* asks Drive first and takes the lock to apply the answer.  The feed      *)
(* names what changed after a token and gives its present state.           *)
(***************************************************************************)
EXTENDS Naturals, FiniteSets

CONSTANTS
    Files,         \* the documents of the drive
    Sub,           \* a folder documents may be in
    None,          \* no cache
    MaxTime,       \* bound: changes made in the drive
    MaxFaults      \* bound: failed calls, expired tokens and restarts, in all

VARIABLES
    drive,     \* what Drive holds: [in, at], the parent and the last change
    mem,       \* the cache in memory; outrun: what Stat asked for too early
    disk,      \* the cache in its file
    list,      \* the listing under way
    stat,      \* the reading of one document under way
    faults

vars == <<drive, mem, disk, list, stat, faults>>

Items == Files \cup {Sub}
Parents(i) == {"root", "outside", "gone"} \cup (IF i = Sub THEN {} ELSE {"sub"})
Now == CHOOSE t \in 0..MaxTime : (\E i \in Items : drive[i].at = t) /\ \A i \in Items : drive[i].at <= t

\* Which documents are under the watched root.
Under(tree) ==
    {f \in Files : tree[f].in = "root" \/ (tree[f].in = "sub" /\ tree[Sub].in = "root")}

Idle == [pc |-> "idle"]
Nothing == [i \in Items |-> [in |-> "gone", at |-> 0]]

Init ==
    /\ drive \in [Items -> {[in |-> p, at |-> 0] : p \in {"root", "sub"}}]
    /\ drive[Sub].in = "root"
    /\ mem = None /\ disk = None
    /\ list = Idle /\ stat = Idle
    /\ faults = 0

Fault == faults < MaxFaults /\ faults' = faults + 1

\* A document is saved, moved, deleted or restored; a folder takes its documents along.
Change(i) ==
    /\ Now < MaxTime
    /\ \E p \in Parents(i) : drive' = [drive EXCEPT ![i] = [in |-> p, at |-> Now + 1]]
    /\ UNCHANGED <<mem, disk, list, stat, faults>>

\* The cache becomes more than a day old.
DayPasses ==
    /\ mem # None /\ ~mem.old
    /\ mem' = [mem EXCEPT !.old = TRUE]
    /\ disk' = IF disk = None THEN None ELSE [disk EXCEPT !.old = TRUE]
    /\ UNCHANGED <<drive, list, stat, faults>>

------------------------------------------------------------------------------
(* List.  The cache is loaded, listed again from nothing, or brought up to   *)
(* date from the feed.                                                       *)

\* Mutant of Usable: a cache never grows too old.
UsableForever(c) == c # None /\ c.synced

\* A cache Stat began on its own has no token: it is replaced.
Usable(c) == c # None /\ ~c.old /\ c.synced

\* The token is taken before the listing.
FullSync == [pc |-> "pages", token |-> Now, left |-> Items, tree |-> Nothing]

Begin ==
    /\ list.pc = "idle"
    /\ LET c == IF mem = None THEN disk ELSE mem IN
        /\ mem' = c
        /\ list' = IF Usable(c) THEN [pc |-> "feed", token |-> c.token] ELSE [pc |-> "token"]
    /\ UNCHANGED <<drive, disk, stat, faults>>

TakeToken ==
    /\ list.pc = "token"
    /\ list' = FullSync
    /\ UNCHANGED <<drive, mem, disk, stat, faults>>

\* A page shows an item as it is when the page is made.
Page ==
    /\ list.pc = "pages" /\ list.left # {}
    /\ \E i \in list.left :
        list' = [list EXCEPT !.left = @ \ {i}, !.tree[i] = drive[i]]
    /\ UNCHANGED <<drive, mem, disk, stat, faults>>

\* Mutant of StartToken: the token is asked for when the listing ends.
EndToken(l) == Now

\* The feed goes on from where the listing began.
StartToken(l) == l.token

Listed ==
    /\ list.pc = "pages" /\ list.left = {}
    /\ mem' = [token |-> StartToken(list), tree |-> list.tree, old |-> FALSE, synced |-> TRUE,
               outrun |-> {}]
    /\ disk' = mem'
    /\ list' = Idle
    /\ UNCHANGED <<drive, stat, faults>>

Pending(token) == {i \in Items : drive[i].at > token}

\* A page of the feed: the oldest change not seen, with the state of its item now.
Feed ==
    /\ list.pc = "feed" /\ Pending(list.token) # {}
    /\ LET i == CHOOSE i \in Pending(list.token) :
                    \A j \in Pending(list.token) : drive[i].at <= drive[j].at
       IN  /\ mem' = [mem EXCEPT !.tree[i] = drive[i], !.outrun = @ \ {i}]
           /\ list' = [list EXCEPT !.token = drive[i].at]
    /\ UNCHANGED <<drive, disk, stat, faults>>

\* The last page brings the new token; the cache is saved if anything changed.
FeedEnds ==
    /\ list.pc = "feed" /\ Pending(list.token) = {}
    /\ mem' = [mem EXCEPT !.token = list.token]
    /\ disk' = IF list.token # mem.token THEN mem' ELSE disk
    /\ list' = Idle
    /\ UNCHANGED <<drive, stat, faults>>

\* A call fails: what was applied stays, the token does not move.
CallFails ==
    /\ list.pc # "idle" /\ Fault
    /\ list' = Idle
    /\ UNCHANGED <<drive, mem, disk, stat>>

\* Drive no longer knows the token: everything is listed again.
TokenExpires ==
    /\ list.pc = "feed" /\ Fault
    /\ list' = [pc |-> "token"]
    /\ UNCHANGED <<drive, mem, disk, stat>>

------------------------------------------------------------------------------
(* Stat.  Drive is asked without the lock; the answer is applied under it.   *)

StatAsk(f) ==
    /\ stat.pc = "idle"
    /\ drive[f].in # "gone"
    /\ stat' = [pc |-> "answered", f |-> f, state |-> drive[f]]
    /\ UNCHANGED <<drive, mem, disk, list, faults>>

Empty == [token |-> 0, tree |-> Nothing, old |-> FALSE, synced |-> FALSE, outrun |-> {}]

StatApply ==
    /\ stat.pc = "answered" /\ list.pc = "idle"
    /\ LET c == IF mem # None THEN mem ELSE IF disk # None THEN disk ELSE Empty IN
        mem' = [c EXCEPT !.tree[stat.f] = stat.state,
            !.outrun = IF stat.state.at < drive[stat.f].at /\ drive[stat.f].at <= c.token
                       THEN @ \cup {stat.f} ELSE @ \ {stat.f}]
    /\ stat' = Idle
    /\ UNCHANGED <<drive, disk, list, faults>>

\* The application stops and starts again: the cache is loaded when it is used.
Restart ==
    /\ Fault
    /\ mem' = None
    /\ list' = Idle /\ stat' = Idle
    /\ UNCHANGED <<drive, disk>>

ListWork == Begin \/ TakeToken \/ Page \/ Listed \/ Feed \/ FeedEnds

Next ==
    \/ \E i \in Items : Change(i)
    \/ DayPasses
    \/ ListWork \/ CallFails \/ TokenExpires
    \/ \E f \in Files : StatAsk(f)
    \/ StatApply \/ Restart

Spec == Init /\ [][Next]_vars

\* The scan lists the source at its interval, a call that was made ends, days pass.
Fairness == WF_vars(ListWork) /\ WF_vars(StatApply) /\ WF_vars(DayPasses)

FairSpec == Spec /\ Fairness

------------------------------------------------------------------------------
(* Properties.                                                               *)

\* A change up to the token of a cache is in it, be the cache in memory or saved, and
\* whatever was changed during a listing or between its pages: the feed gives again
\* what a listing may have missed.  What Stat asked for before a change the cache
\* already has is the exception.
Complete(c) ==
    c # None /\ c.synced => \A i \in Items :
        drive[i].at <= c.token => c.tree[i] = drive[i] \/ i \in c.outrun

CacheMissesNothing == Complete(mem) /\ Complete(disk)

\* The documents of the cache are those of the drive.
ShownNow == mem # None /\ mem.synced /\ Under(mem.tree) = Under(drive)

\* The documents shown are those of the drive again and again, whatever Stat put in
\* the cache: a full listing corrects it after a day at the latest.
CatchesUp == []<>ShownNow

==============================================================================
