---------------------------- MODULE WindowLimiter ----------------------------
(***************************************************************************)
(* windowLimiter of the hub (hub/internal/server/ratelimit.go): it counts  *)
(* the events of each caller in fixed windows.  The webhook handler, the   *)
(* LLM gateway and the device login each hold one.  Allow runs under the   *)
(* limiter's mutex, so each call is one step.                              *)
(*                                                                         *)
(* A caller is in the map exactly when it was counted, so a count of 0     *)
(* stands for an absent key.                                               *)
(***************************************************************************)
EXTENDS Naturals, FiniteSets

CONSTANTS
    Callers,     \* keys that call
    Limit,       \* events a key may have in a window
    Window,      \* length of a window, in ticks
    MaxKeys,     \* maxLimiterKeys
    Sample,      \* evictionSample
    Enough       \* bound: the ghost count of a key stops here

ASSUME LimiterAssumption ==
    /\ IsFiniteSet(Callers)
    /\ Limit \in Nat \ {0} /\ Window \in Nat \ {0}
    /\ MaxKeys \in Nat \ {0} /\ Sample \in Nat \ {0}
    /\ Enough \in Nat /\ Limit < Enough

VARIABLES
    age,        \* now - start, up to Window
    counts,     \* windowLimiter.counts
    admitted,   \* what each key really got since the window started, up to Enough
    evicted,    \* keys forgotten since the window started
    refused     \* keys refused since the window started

vars == <<age, counts, admitted, evicted, refused>>

NoEvents == [k \in Callers |-> 0]
Present(c) == {k \in Callers : c[k] > 0}

\* The zero start time is long past: the first call opens a window.
Init ==
    /\ age = Window
    /\ counts = NoEvents /\ admitted = NoEvents
    /\ evicted = {} /\ refused = {}

\* The window is over: the call opens a new one and forgets everything.
Expired == age >= Window

Base(f, empty) == IF Expired THEN empty ELSE f

\* What evict inspects: as many keys as Sample, or all of them.
Samples(c) ==
    {S \in SUBSET Present(c) :
        Cardinality(S) = IF Cardinality(Present(c)) < Sample THEN Cardinality(Present(c)) ELSE Sample}

\* The least active key of a random sample.
Victims(c) == {v \in Present(c) : \E S \in Samples(c) : v \in S /\ \A k \in S : c[v] <= c[k]}

\* Mutant of Room: the map is found full one key too late.
RoomTooLate(c, k) ==
    IF c[k] = 0 /\ Cardinality(Present(c)) > MaxKeys
    THEN {[c EXCEPT ![v] = 0] : v \in Victims(c)}
    ELSE {c}

\* The counts an event of k finds: an unseen key takes the place of another
\* one when the map is full.
Room(c, k) ==
    IF c[k] = 0 /\ Cardinality(Present(c)) >= MaxKeys
    THEN {[c EXCEPT ![v] = 0] : v \in Victims(c)}
    ELSE {c}

\* What the decision of Allow leaves behind, whatever it is.
Opened(kept) ==
    /\ age' = IF Expired THEN 0 ELSE age
    /\ evicted' = Base(evicted, {}) \cup {v \in Callers : Base(counts, NoEvents)[v] > 0 /\ kept[v] = 0}

OneMore(n) == IF n < Enough THEN n + 1 ELSE n

\* Allow returns true.
Admit(k) ==
    \E kept \in Room(Base(counts, NoEvents), k) :
        /\ kept[k] < Limit
        /\ counts' = [kept EXCEPT ![k] = @ + 1]
        /\ admitted' = [Base(admitted, NoEvents) EXCEPT ![k] = OneMore(@)]
        /\ refused' = Base(refused, {})
        /\ Opened(kept)

\* Mutant of Refuse: an unseen key is refused when the map is full.
RefuseUnseen(k) ==
    /\ \/ Base(counts, NoEvents)[k] >= Limit
       \/ /\ Base(counts, NoEvents)[k] = 0
          /\ Cardinality(Present(Base(counts, NoEvents))) >= MaxKeys
    /\ counts' = Base(counts, NoEvents)
    /\ admitted' = Base(admitted, NoEvents)
    /\ refused' = Base(refused, {}) \cup {k}
    /\ Opened(Base(counts, NoEvents))

\* Allow returns false.
Refuse(k) ==
    \E kept \in Room(Base(counts, NoEvents), k) :
        /\ kept[k] >= Limit
        /\ counts' = kept
        /\ admitted' = Base(admitted, NoEvents)
        /\ refused' = Base(refused, {}) \cup {k}
        /\ Opened(kept)

Tick ==
    /\ age < Window
    /\ age' = age + 1
    /\ UNCHANGED <<counts, admitted, evicted, refused>>

Next == Tick \/ \E k \in Callers : Admit(k) \/ Refuse(k)

Spec == Init /\ [][Next]_vars

-----------------------------------------------------------------------------
(* Correctness. *)

TypeOK ==
    /\ age \in 0..Window
    /\ counts \in [Callers -> 0..Limit]
    /\ admitted \in [Callers -> 0..Enough]
    /\ evicted \subseteq Callers /\ refused \subseteq Callers

\* maxLimiterKeys "bounds the memory of a limiter" whatever keys call it.
MapIsBounded == Cardinality(Present(counts)) <= MaxKeys

\* Within a window a key gets at most Limit events, unless it was forgotten to
\* make room for another one.
WithinLimit == \A k \in Callers \ evicted : admitted[k] <= Limit

\* "No key ever loses budget to another one": a key is refused only after it
\* had its Limit events in this very window, however many other keys call.
OwnBudgetOnly == \A k \in refused : admitted[k] >= Limit

\* The inductive invariant: a count never exceeds what the key really got, and
\* equals it until the key is forgotten.
LimiterInv ==
    /\ TypeOK
    /\ MapIsBounded
    /\ OwnBudgetOnly
    /\ \A k \in Callers : counts[k] <= admitted[k]
    /\ \A k \in Callers \ evicted : counts[k] = admitted[k]
=============================================================================
