----------------------------- MODULE WebServer -----------------------------
(***************************************************************************)
(* The web server: `Current`, the cell that holds the checkpoint being     *)
(* served (src/web/current.rs); `WebState`, one immutable reading of a     *)
(* checkpoint with its two memos inside it (src/web/mod.rs, handlers.rs);  *)
(* and the pool of worker threads that answer requests from them.          *)
(*                                                                         *)
(* A WebState is named by a number: 1 is the one read at startup, and each *)
(* open that reads its checkpoint builds the next.  A memo entry and an    *)
(* answer carry the number of the WebState whose content they hold, which  *)
(* is all that the properties tell apart about tens of megabytes of JSON.  *)
(*                                                                         *)
(* The steps are the ones between which the code holds no lock: taking the *)
(* snapshot, looking a memo up, filling it, taking the opening guard,      *)
(* reading, recording, moving the pointer, and listing the recents.        *)
(***************************************************************************)
EXTENDS RecentsList

CONSTANTS
    Workers,        \* the threads of the pool
    Requests,       \* the HTTP requests of one run
    Endpoints,      \* the memoised endpoints, as (endpoint, gzipped) pairs
    Views,          \* the (tensor, dtype view) pairs that stats are asked for
    Specs,          \* what a checkpoint can be opened by
    StartSpec,      \* the checkpoint on the command line
    RecentsCap,     \* the length the recents list is cut to
    MaxStates,      \* bound: WebStates built in one run
    None

ASSUME WorkersAssumption ==
    IsFiniteSet(Workers) /\ Cardinality(Workers) \in 2..8   \* clamp(2, 8)
ASSUME SpecsAssumption == StartSpec \in Specs
ASSUME CapAssumption == RecentsCap \in Nat \ {0}            \* cap.max(1)
ASSUME StatesAssumption == MaxStates \in Nat \ {0}
ASSUME NoneAssumption == None \notin Workers \cup Requests

VARIABLES
    state,      \* Current.state: the WebState that a snapshot returns
    opening,    \* the worker that holds Current.opening, or None
    poisoned,   \* whether a thread has panicked while it held that mutex
    recents,    \* Current.recents
    built,      \* how many WebStates have been built
    specOf,     \* WebState.spec of each WebState built
    bodies,     \* WebState.static_bodies of each WebState, 0 for no entry
    stats,      \* WebState.stats_cache of each WebState, 0 for no entry
    asked,      \* what each request asks, None before it is sent
    reply,      \* what each request was answered, None before it is
    serving,    \* the request each worker is handling, None between two
    stage,      \* where in that request's handling the worker is
    snap,       \* the snapshot each request is answered from, 0 between two
    made        \* the WebState an open has built, 0 before it has

vars == <<state, opening, poisoned, recents, built, specOf, bodies, stats,
          asked, reply, serving, stage, snap, made>>

cell    == <<state, opening, poisoned, recents, built, specOf>>
memos   == <<bodies, stats>>
pool    == <<serving, stage, snap, made>>

States == 1..MaxStates

Asks == [op : {"body"}, key : Endpoints]
            \cup [op : {"stats", "histogram"}, key : Views]
            \cup [op : {"open", "forget"}, spec : Specs]
            \cup [op : {"read", "recents"}]

Stages == {"free", "routed", "encoding", "scanning", "binning",
           "reading", "built", "recorded", "installed", "forgotten"}

Data(g)        == [is |-> "data", about |-> g]
Opened(g, l)   == [is |-> "opened", about |-> g, list |-> l]
Listed(l)      == [is |-> "listed", list |-> l]
Error          == [is |-> "error"]
Busy           == [is |-> "busy"]
Panicked       == [is |-> "panicked"]

Replies == [is : {"data"}, about : States]
               \cup [is : {"opened"}, about : States, list : Seq(Specs)]
               \cup [is : {"listed"}, list : Seq(Specs)]
               \cup {Error, Busy, Panicked}

ASSUME MarkerAssumption == None \notin Asks \cup Replies

TypeOK ==
    /\ state \in 1..built /\ built \in States
    /\ opening \in Workers \cup {None}
    /\ poisoned \in BOOLEAN
    /\ recents \in Seq(Specs)
    /\ specOf \in [States -> Specs \cup {None}]
    /\ bodies \in [States -> [Endpoints -> 0..MaxStates]]
    /\ stats \in [States -> [Views -> 0..MaxStates]]
    /\ asked \in [Requests -> Asks \cup {None}]
    /\ reply \in [Requests -> Replies \cup {None}]
    /\ serving \in [Workers -> Requests \cup {None}]
    /\ stage \in [Workers -> Stages]
    /\ snap \in [Workers -> 0..MaxStates]
    /\ made \in [Workers -> 0..MaxStates]

\* Mutant of Init: the pool starts before a checkpoint has been installed.
InitNothingServed ==
    /\ state = 0 /\ built = 1
    /\ opening = None /\ poisoned = FALSE
    /\ recents = Recorded(<<>>, StartSpec, RecentsCap)
    /\ specOf = [g \in States |-> IF g = 1 THEN StartSpec ELSE None]
    /\ bodies = [g \in States |-> [e \in Endpoints |-> 0]]
    /\ stats  = [g \in States |-> [v \in Views |-> 0]]
    /\ asked = [r \in Requests |-> None]
    /\ reply = [r \in Requests |-> None]
    /\ serving = [w \in Workers |-> None]
    /\ stage = [w \in Workers |-> "free"]
    /\ snap = [w \in Workers |-> 0]
    /\ made = [w \in Workers |-> 0]

\* Current::new: the checkpoint of the command line is read, recorded and
\* installed before the pool starts.
Init ==
    /\ state = 1 /\ built = 1
    /\ opening = None /\ poisoned = FALSE
    /\ recents = Recorded(<<>>, StartSpec, RecentsCap)
    /\ specOf = [g \in States |-> IF g = 1 THEN StartSpec ELSE None]
    /\ bodies = [g \in States |-> [e \in Endpoints |-> 0]]
    /\ stats  = [g \in States |-> [v \in Views |-> 0]]
    /\ asked = [r \in Requests |-> None]
    /\ reply = [r \in Requests |-> None]
    /\ serving = [w \in Workers |-> None]
    /\ stage = [w \in Workers |-> "free"]
    /\ snap = [w \in Workers |-> 0]
    /\ made = [w \in Workers |-> 0]

----------------------------------------------------------------------------
(* A request arrives, a worker takes it and takes its snapshot.            *)

Send(r) ==
    /\ asked[r] = None
    /\ \E a \in Asks : asked' = [asked EXCEPT ![r] = a]
    /\ UNCHANGED <<cell, memos, pool, reply>>

Waiting(r) ==
    /\ asked[r] # None
    /\ reply[r] = None
    /\ \A w \in Workers : serving[w] # r

Accept(w, r) ==
    /\ serving[w] = None
    /\ Waiting(r)
    /\ serving' = [serving EXCEPT ![w] = r]
    /\ stage' = [stage EXCEPT ![w] = "routed"]
    /\ snap' = [snap EXCEPT ![w] = state]
    /\ UNCHANGED <<cell, memos, asked, reply, made>>

Handling(w, st, ops) ==
    /\ serving[w] # None
    /\ stage[w] = st
    /\ asked[serving[w]].op \in ops

Goto(w, st) ==
    /\ stage' = [stage EXCEPT ![w] = st]
    /\ UNCHANGED <<serving, reply, snap>>

\* The response goes out and the worker returns to recv().
Respond(w, answer) ==
    /\ reply' = [reply EXCEPT ![serving[w]] = answer]
    /\ serving' = [serving EXCEPT ![w] = None]
    /\ stage' = [stage EXCEPT ![w] = "free"]
    /\ snap' = [snap EXCEPT ![w] = 0]
    /\ made' = [made EXCEPT ![w] = 0]

Key(w) == asked[serving[w]].key
Path(w) == asked[serving[w]].spec

----------------------------------------------------------------------------
(* WebState::cached_body: look up, release, encode, insert.                *)

BodyHit(w) ==
    /\ Handling(w, "routed", {"body"})
    /\ bodies[snap[w]][Key(w)] # 0
    /\ Respond(w, Data(bodies[snap[w]][Key(w)]))
    /\ UNCHANGED <<cell, memos, asked>>

BodyMiss(w) ==
    /\ Handling(w, "routed", {"body"})
    /\ bodies[snap[w]][Key(w)] = 0
    /\ Goto(w, "encoding")
    /\ UNCHANGED <<cell, memos, asked, made>>

\* Mutant of Encode: the body is computed from whatever is served by now.
EncodeCurrent(w) ==
    /\ Handling(w, "encoding", {"body"})
    /\ bodies' = [bodies EXCEPT ![snap[w]][Key(w)] = state]
    /\ Respond(w, Data(state))
    /\ UNCHANGED <<cell, stats, asked>>

Encode(w) ==
    /\ Handling(w, "encoding", {"body"})
    /\ bodies' = [bodies EXCEPT ![snap[w]][Key(w)] = snap[w]]
    /\ Respond(w, Data(snap[w]))
    /\ UNCHANGED <<cell, stats, asked>>

\* An encoding that fails is not memoised; route_api answers instead.
EncodeUncached(w) ==
    /\ Handling(w, "encoding", {"body"})
    /\ Respond(w, Data(snap[w]))
    /\ UNCHANGED <<cell, memos, asked>>

----------------------------------------------------------------------------
(* tensor_stats and tensor_histogram, over scan_stats's memo.              *)

DataRefused(w) ==
    /\ Handling(w, "routed", {"stats", "histogram", "read"})
    /\ Respond(w, Error)
    /\ UNCHANGED <<cell, memos, asked>>

\* With its stats in hand a stats request is answered; a histogram still has
\* the bins to fill.
StatsReady(w, of) ==
    IF asked[serving[w]].op = "stats"
    THEN Respond(w, Data(of))
    ELSE Goto(w, "binning") /\ UNCHANGED made

StatsHit(w) ==
    /\ Handling(w, "routed", {"stats", "histogram"})
    /\ stats[snap[w]][Key(w)] # 0
    /\ StatsReady(w, stats[snap[w]][Key(w)])
    /\ UNCHANGED <<cell, memos, asked>>

StatsMiss(w) ==
    /\ Handling(w, "routed", {"stats", "histogram"})
    /\ stats[snap[w]][Key(w)] = 0
    /\ Goto(w, "scanning")
    /\ UNCHANGED <<cell, memos, asked, made>>

Scan(w) ==
    /\ Handling(w, "scanning", {"stats", "histogram"})
    /\ stats' = [stats EXCEPT ![snap[w]][Key(w)] = snap[w]]
    /\ StatsReady(w, snap[w])
    /\ UNCHANGED <<cell, bodies, asked>>

\* A scan that fails memoises nothing.
ScanFails(w) ==
    /\ \/ Handling(w, "scanning", {"stats", "histogram"})
       \/ Handling(w, "binning", {"histogram"})
    /\ Respond(w, Error)
    /\ UNCHANGED <<cell, memos, asked>>

Bin(w) ==
    /\ Handling(w, "binning", {"histogram"})
    /\ Respond(w, Data(snap[w]))
    /\ UNCHANGED <<cell, memos, asked>>

\* Mutant of Read: the handler asks the cell again instead of its snapshot.
ReadCurrent(w) ==
    /\ Handling(w, "routed", {"read"})
    /\ Respond(w, Data(state))
    /\ UNCHANGED <<cell, memos, asked>>

\* Every other endpoint is computed from the snapshot, and kept nowhere.
Read(w) ==
    /\ Handling(w, "routed", {"read"})
    /\ Respond(w, Data(snap[w]))
    /\ UNCHANGED <<cell, memos, asked>>

----------------------------------------------------------------------------
(* Current::open, and the reply of handlers::open.                         *)

\* Mutant of OpenRefused: lock() for try_lock(), so a second open waits.
OpenQueued(w) ==
    /\ Handling(w, "routed", {"open"})
    /\ poisoned
    /\ Respond(w, Error)
    /\ UNCHANGED <<cell, memos, asked>>

\* try_lock fails on a mutex that is held, and on one that is poisoned.
OpenRefused(w) ==
    /\ Handling(w, "routed", {"open"})
    /\ opening # None \/ poisoned
    /\ Respond(w, Busy)
    /\ UNCHANGED <<cell, memos, asked>>

\* Mutant of OpenBegin: two opens read, and race to install.
OpenBeginUnguarded(w) ==
    /\ Handling(w, "routed", {"open"})
    /\ opening' = w
    /\ Goto(w, "reading")
    /\ UNCHANGED <<state, poisoned, recents, built, specOf, memos, asked, made>>

\* Mutant of OpenBegin: what was typed is recorded before it has been read.
OpenBeginRecording(w) ==
    /\ Handling(w, "routed", {"open"})
    /\ opening = None /\ ~poisoned
    /\ opening' = w
    /\ recents' = Recorded(recents, Path(w), RecentsCap)
    /\ Goto(w, "reading")
    /\ UNCHANGED <<state, poisoned, built, specOf, memos, asked, made>>

OpenBegin(w) ==
    /\ Handling(w, "routed", {"open"})
    /\ opening = None /\ ~poisoned
    /\ opening' = w
    /\ Goto(w, "reading")
    /\ UNCHANGED <<state, poisoned, recents, built, specOf, memos, asked, made>>

OpenFails(w) ==
    /\ Handling(w, "reading", {"open"})
    /\ opening' = None
    /\ Respond(w, Error)
    /\ UNCHANGED <<state, poisoned, recents, built, specOf, memos, asked>>

\* resolve, read and state_from: a new WebState, with empty memos.
OpenRead(w) ==
    /\ Handling(w, "reading", {"open"})
    /\ built < MaxStates
    /\ built' = built + 1
    /\ specOf' = [specOf EXCEPT ![built + 1] = Path(w)]
    /\ made' = [made EXCEPT ![w] = built + 1]
    /\ Goto(w, "built")
    /\ UNCHANGED <<state, opening, poisoned, recents, memos, asked>>

OpenRecord(w) ==
    /\ Handling(w, "built", {"open"})
    /\ recents' = Recorded(recents, Path(w), RecentsCap)
    /\ Goto(w, "recorded")
    /\ UNCHANGED <<state, opening, poisoned, built, specOf, memos, asked, made>>

\* The pointer moves, and the guard is dropped as open() returns.
OpenInstall(w) ==
    /\ Handling(w, "recorded", {"open"})
    /\ state' = made[w]
    /\ opening' = None
    /\ Goto(w, "installed")
    /\ UNCHANGED <<poisoned, recents, built, specOf, memos, asked, made>>

OpenReply(w) ==
    /\ Handling(w, "installed", {"open"})
    /\ Respond(w, Opened(made[w], recents))
    /\ UNCHANGED <<cell, memos, asked>>

----------------------------------------------------------------------------
(* The recents list: GET, and DELETE of one entry.                         *)

Recents(w) ==
    /\ Handling(w, "routed", {"recents"})
    /\ Respond(w, Listed(recents))
    /\ UNCHANGED <<cell, memos, asked>>

Forget(w) ==
    /\ Handling(w, "routed", {"forget"})
    /\ recents' = Without(recents, Path(w))
    /\ UNCHANGED <<state, opening, poisoned, built, specOf, memos, asked>>
    /\ IF Path(w) \in Entries(recents)
       THEN Goto(w, "forgotten") /\ UNCHANGED made
       ELSE Respond(w, Error)                                  \* a 404

ForgetReply(w) ==
    /\ Handling(w, "forgotten", {"forget"})
    /\ Respond(w, Listed(recents))
    /\ UNCHANGED <<cell, memos, asked>>

----------------------------------------------------------------------------
\* catch_unwind: a panicking handler costs a 500 and the worker lives on, but
\* a guard dropped while unwinding leaves its mutex poisoned.
Panic(w) ==
    /\ stage[w] \in {"encoding", "scanning", "binning", "reading"}
    /\ Respond(w, Panicked)
    /\ opening'  = IF opening = w THEN None ELSE opening
    /\ poisoned' = (poisoned \/ opening = w)
    /\ UNCHANGED <<state, recents, built, specOf, memos, asked>>

----------------------------------------------------------------------------
Static(w)    == BodyHit(w) \/ BodyMiss(w) \/ Encode(w) \/ EncodeUncached(w)
OnDemand(w)  == StatsHit(w) \/ StatsMiss(w) \/ Scan(w) \/ ScanFails(w)
                    \/ Bin(w) \/ Read(w) \/ DataRefused(w)
ReadEnds(w)  == OpenFails(w) \/ OpenRead(w)
OpenSteps(w) == OpenRefused(w) \/ OpenBegin(w)
                    \/ OpenRecord(w) \/ OpenInstall(w) \/ OpenReply(w)
ListSteps(w) == Recents(w) \/ Forget(w) \/ ForgetReply(w)

Step(w) == Static(w) \/ OnDemand(w) \/ OpenSteps(w) \/ ListSteps(w)

Next ==
    \/ \E r \in Requests : Send(r)
    \/ \E w \in Workers :
          \/ \E r \in Requests : Accept(w, r)
          \/ Step(w)
          \/ ReadEnds(w)
          \/ Panic(w)

Spec == Init /\ [][Next]_vars

\* Threads run and recv() hands out what has arrived; a scan ends because a
\* tensor does.  That some thread goes on while one can is less than a scheduler
\* gives, and enough, since every request is handled in a few steps.  Nothing is
\* assumed of the reading of a checkpoint, which an ssh host or a bucket may
\* hold up for good.
Fairness ==
    WF_vars(\E w \in Workers : Step(w) \/ \E r \in Requests : Accept(w, r))

FairSpec == Spec /\ Fairness
----------------------------------------------------------------------------
(* Properties.                                                             *)

\* Whatever a WebState's two memos hold was computed from that WebState: a
\* swap discards every cached answer because none is kept outside the state
\* it is about (current.rs, "Every per-checkpoint cache lives inside").
MemosHoldTheirOwnState ==
    \A g \in States :
        /\ \A e \in Endpoints : bodies[g][e] \in {0, g}
        /\ \A v \in Views : stats[g][v] \in {0, g}

\* When no open is in progress, the checkpoint being served heads the recents
\* list, unless it has been forgotten: the list and the pointer are moved
\* under one guard, so two opens cannot leave one first and serve the other
\* (Current::open).
ServedHeadsRecents ==
    opening = None /\ specOf[state] \in Entries(recents)
        => recents[1] = specOf[state]

\* At most one open is between its guard and its swap: the guard is held by
\* the worker that is there and by no other, whichever way an open ends
\* (Current::open, "Only one open at a time").
OneOpenAtATime ==
    \A w \in Workers :
        opening = w <=> stage[w] \in {"reading", "built", "recorded"}

\* "Record only what actually opened": every entry names a checkpoint that
\* was read (Current::open), and names it once.
RecentsWereRead ==
    /\ Entries(recents) \subseteq {specOf[g] : g \in 1..built}
    /\ NoRepeats(recents)

\* Each answer is about one checkpoint, served at some moment between the
\* question and the answer, however a switch overlaps the work (the module
\* comment of current.rs, prepare's "One snapshot for this request").
Handled(r) == \E w \in Workers : serving[w] = r
Holder(r)  == CHOOSE w \in Workers : serving[w] = r

PhaseOf(r) == IF asked[r] = None THEN "unsent"
              ELSE IF reply[r] = None THEN "waiting" ELSE "answered"
SeenBy(r)   == IF Handled(r) THEN snap[Holder(r)] ELSE 0
OpenedBy(r) == IF Handled(r) /\ stage[Holder(r)] = "installed"
               THEN made[Holder(r)] ELSE 0
About(a)    == IF a.is \in {"data", "opened"} THEN a.about ELSE 0
AnswerTo(r) == IF reply[r] = None THEN 0 ELSE About(reply[r])

Abstract == INSTANCE ServedCheckpoint WITH
    served <- state,
    phase  <- [r \in Requests |-> PhaseOf(r)],
    seen   <- [r \in Requests |-> SeenBy(r)],
    opened <- [r \in Requests |-> OpenedBy(r)],
    answer <- [r \in Requests |-> AnswerTo(r)]

ServesOneCheckpoint == Abstract!Spec

\* A request that is not an open is answered, even while the reading of a
\* checkpoint never ends: the second open is refused instead of queued, so at
\* most one worker of the pool can be held up (Current::open's try_lock).
ReadsAnswered ==
    \A r \in Requests :
        (asked[r] # None /\ asked[r].op # "open") ~> (reply[r] # None)

\* "another checkpoint is already being opened": what the refusal tells the
\* caller is true of the moment it is given (Current::open).
BusyMeansOpening ==
    [][\A r \in Requests : reply'[r] = Busy /\ reply[r] # Busy
                               => opening # None]_vars
----------------------------------------------------------------------------
(* The inductive invariant behind them.                                    *)

\* A worker between two requests is at rest; one that handles a request has a
\* snapshot of a checkpoint that was built, and nobody else has the request.
WorkersInv ==
    /\ \A w \in Workers :
          \/ serving[w] = None /\ stage[w] = "free" /\ snap[w] = 0 /\ made[w] = 0
          \/ /\ serving[w] \in Requests /\ stage[w] # "free"
             /\ snap[w] \in 1..built
             /\ asked[serving[w]] \in Asks \ {None}
             /\ reply[serving[w]] = None
    /\ \A w, x \in Workers :
          serving[w] # None /\ serving[w] = serving[x] => w = x
    /\ \A r \in Requests : asked[r] = None => reply[r] = None

\* What an open has read is the checkpoint it was asked for, and was read
\* later than what is being served.
OpensInv ==
    \A w \in Workers :
        /\ stage[w] \in {"built", "recorded", "installed"}
              => asked[serving[w]].op = "open" /\ made[w] \in 1..built
        /\ stage[w] \in {"built", "recorded"}
              => specOf[made[w]] = Path(w) /\ state < made[w]
        /\ stage[w] \notin {"built", "recorded", "installed"} => made[w] = 0

\* The recents head is ahead of the pointer only between the two moves of an
\* open, and then it is what that open has read.
Heads(g) == specOf[g] \in Entries(recents) => recents[1] = specOf[g]

HeadInv ==
    /\ \A w \in Workers : stage[w] = "recorded" => Heads(made[w])
    /\ (\A w \in Workers : stage[w] # "recorded") => Heads(state)

IInv ==
    /\ TypeOK
    /\ WorkersInv
    /\ OneOpenAtATime
    /\ OpensInv
    /\ RecentsWereRead
    /\ HeadInv
============================================================================
