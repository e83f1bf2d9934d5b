----------------------------- MODULE BrowserTab -----------------------------
(***************************************************************************)
(* The browser's side of a checkpoint switch: the stores that hold what    *)
(* the server answered (web/src/stores/server.ts), the filter and the fold *)
(* that follow the view's state (view.ts), and the two places of one page  *)
(* that can have a switch under way at once, the address bar and the link  *)
(* or open screen (stores/open.ts, App.svelte, OpenView.svelte).           *)
(*                                                                         *)
(* The server is what ServedCheckpoint promises: one reading is served, a  *)
(* request is answered about the reading served at some moment while it is *)
(* in flight, and an open that succeeds makes a new reading current; other *)
(* tabs and other clients open checkpoints too.  Responses arrive in any   *)
(* order.  A step is what the page does between two awaits: JavaScript     *)
(* runs each handler to its next await.                                    *)
(***************************************************************************)
EXTENDS Naturals

CONSTANTS
    Keys,           \* memo keys: a tensor and the view parameters asked for
    Queries,        \* what is typed into the filter box, trimmed
    NoQuery,        \* the empty filter
    Switchers,      \* the components of the page that can run a switch
    AddressBar,     \* the one in the header, there whatever the screen shows
    MaxReadings,    \* bound: checkpoints the server reads, the first included
    MaxClicks,      \* bound: user actions
    None,           \* no answer yet, nothing stored
    Failed          \* a rejected request

ASSUME SwitchersAssumption == AddressBar \in Switchers
ASSUME QueriesAssumption == NoQuery \notin Queries
ASSUME ReadingsAssumption == MaxReadings \in Nat \ {0}
ASSUME ClicksAssumption == MaxClicks \in Nat
ASSUME MarkersAssumption ==
    /\ None # Failed
    /\ {None, Failed} \cap (Nat \cup Switchers \cup Queries \cup {NoQuery}) = {}

VARIABLES
    served,     \* the reading the server answers about
    net,        \* requests, each in flight until its answer has arrived
    page,       \* the stores of the page
    switch,     \* per switcher: "idle", "opening", or "loading"
    announced   \* history: the newest reading an open's reply told the page of

vars == <<served, net, page, switch, announced>>

Readings == 1..MaxReadings
Answer   == Readings \cup {Failed}
Filters  == Queries \cup {NoQuery}

\* A promise that is kept: None until it settles.
Promise(values) == [id : Nat, is : values \cup {None}]

\* What is stored for a filter: the reading it is about, and the filter.
Scoped == [about : Readings, on : Filters]

\* The module-level state of server.ts and of view.ts.
Stores == [
    treeStarted  : BOOLEAN,                 \* ensureTree has been called
    tree         : Readings \cup {None},
    treeError    : BOOLEAN,
    opening      : BOOLEAN,                 \* openProgress is set
    compact      : BOOLEAN,                 \* the compact view is on
    folded       : Filters \cup {None},     \* foldWhenCompact's `last`
    compactTree  : Scoped \cup {None},
    compactError : BOOLEAN,
    compactSeq   : Nat,
    query        : Filters,                 \* filterQuery
    filterReq    : Nat,
    timer        : BOOLEAN,                 \* filterTimer is running
    matches      : Scoped \cup {None},      \* filterMatches
    filterError  : BOOLEAN,
    resolvedFor  : Filters,                 \* filterResolvedFor
    stats        : Promise(Answer) \cup {None},        \* checkpointStats
    memo         : [Keys -> Promise(Readings) \cup {None}],
    issued       : Nat,                     \* promises made, to tell them apart
    clicks       : Nat]

Message == [
    what  : {"tree", "compact", "filter", "stats", "memo", "open"},
    on    : Switchers \cup Keys \cup Filters \cup {None},
    id    : Nat,
    since : Readings,                       \* what was served when it was sent
    about : Answer \cup {None}]             \* what became of an open

TypeOK ==
    /\ served \in Readings
    /\ net \subseteq Message
    /\ page \in Stores
    /\ switch \in [Switchers -> {"idle", "opening", "loading"}]
    /\ announced \in Readings

----------------------------------------------------------------------------
(* What the handlers do to the stores, and the requests they send.         *)

Ask(what, on, id) ==
    [what |-> what, on |-> on, id |-> id, since |-> served, about |-> None]

\* ensureTree up to its await: it fetches once, until it is told to forget.
TreeDue(s) == ~s.treeStarted
TreeAsked(s) ==
    IF TreeDue(s) THEN [s EXCEPT !.treeStarted = TRUE, !.issued = @ + 1] ELSE s
TreeRequest(by, s) ==
    IF TreeDue(s) THEN {Ask("tree", by, s.issued + 1)} ELSE {}

\* foldWhenCompact's `maybe`, which runs when compact, filter or tree changes.
FoldDue(s) == s.compact /\ s.tree # None /\ s.query # s.folded
Folded(s) ==
    IF FoldDue(s)
    THEN [s EXCEPT !.folded = s.query, !.compactError = FALSE,
                   !.compactSeq = @ + 1]
    ELSE IF s.compact /\ s.tree # None THEN s ELSE [s EXCEPT !.folded = None]
FoldRequest(s) ==
    IF FoldDue(s) THEN {Ask("compact", s.query, s.compactSeq + 1)} ELSE {}

\* Mutant of Edited: the number of the request is only for the timer to take.
EditedUnnumbered(s, q) ==
    IF q = s.query THEN s
    ELSE IF q = NoQuery
    THEN [s EXCEPT !.query = q, !.timer = FALSE,
                   !.matches = None, !.filterError = FALSE, !.resolvedFor = q]
    ELSE [s EXCEPT !.query = q, !.timer = TRUE]

\* The subscription of filterQuery, which runs when it changes: an edit
\* supersedes what is in flight, and an empty filter is resolved at once.
Edited(s, q) ==
    IF q = s.query THEN s
    ELSE IF q = NoQuery
    THEN [s EXCEPT !.query = q, !.filterReq = @ + 1, !.timer = FALSE,
                   !.matches = None, !.filterError = FALSE, !.resolvedFor = q]
    ELSE [s EXCEPT !.query = q, !.filterReq = @ + 1, !.timer = TRUE]

\* cachedCheckpointStats: the promise is kept whatever becomes of it.
StatsDue(s) == s.stats = None
StatsAsked(s) ==
    IF StatsDue(s)
    THEN [s EXCEPT !.stats = [id |-> s.issued + 1, is |-> None],
                   !.issued = @ + 1]
    ELSE s
StatsRequest(s) ==
    IF StatsDue(s) THEN {Ask("stats", None, s.issued + 1)} ELSE {}

\* Mutant of Forgotten: the memo caches outlive the checkpoint.
ForgottenKeepsMemo(s) == [s EXCEPT
    !.treeStarted = FALSE, !.tree = None, !.treeError = FALSE,
    !.folded = None,
    !.compactTree = None, !.compactError = FALSE, !.compactSeq = @ + 1,
    !.stats = None]

\* Mutant of Forgotten: `last` is remembered across the switch.
ForgottenKeepsLast(s) == [s EXCEPT
    !.treeStarted = FALSE, !.tree = None, !.treeError = FALSE,
    !.compactTree = None, !.compactError = FALSE, !.compactSeq = @ + 1,
    !.stats = None, !.memo = [k \in Keys |-> None]]

\* Mutant of Forgotten: a fold in flight is not superseded.
ForgottenKeepsFold(s) == [s EXCEPT
    !.treeStarted = FALSE, !.tree = None, !.treeError = FALSE,
    !.folded = None, !.compactTree = None, !.compactError = FALSE,
    !.stats = None, !.memo = [k \in Keys |-> None]]

\* forgetCheckpoint, and foldWhenCompact on hearing that the tree is gone.
Forgotten(s) == [s EXCEPT
    !.treeStarted = FALSE, !.tree = None, !.treeError = FALSE,
    !.folded = None,
    !.compactTree = None, !.compactError = FALSE, !.compactSeq = @ + 1,
    !.stats = None, !.memo = [k \in Keys |-> None]]

\* loadstep.ts, currentStep: the loading screen stands in for every other one.
Loading ==
    \/ page.opening
    \/ ~page.treeError /\ page.tree = None
    \/ /\ ~page.treeError /\ page.compact
       /\ page.compactTree = None /\ ~page.compactError

\* App.svelte, `filtering`.
Filtering == page.query # NoQuery /\ page.query # page.resolvedFor

FreshStores == [
    treeStarted |-> FALSE, tree |-> None, treeError |-> FALSE,
    opening |-> FALSE, compact |-> FALSE, folded |-> None,
    compactTree |-> None, compactError |-> FALSE, compactSeq |-> 0,
    query |-> NoQuery, filterReq |-> 0, timer |-> FALSE, matches |-> None,
    filterError |-> FALSE, resolvedFor |-> NoQuery,
    stats |-> None, memo |-> [k \in Keys |-> None], issued |-> 0, clicks |-> 0]

\* The page has loaded and asked for its tree.
Init ==
    /\ served = 1
    /\ page = TreeAsked(FreshStores)
    /\ net = TreeRequest(None, FreshStores)
    /\ switch = [by \in Switchers |-> "idle"]
    /\ announced = 1

----------------------------------------------------------------------------
(* The server, its other clients, and the network.                         *)

\* What the answer to a request can be about when it arrives: something served
\* while it was in flight.
Answers(m) == (m.since .. served) \cup {Failed}

\* An open that reads its checkpoint serves it, whether or not its reply gets
\* through.  Any other one, refused or unreadable, changes nothing.
Outcome(m, about) == net' = (net \ {m}) \cup {[m EXCEPT !.about = about]}

RespondOpen(m) ==
    /\ m.what = "open" /\ m.about = None
    /\ \/ /\ served < MaxReadings
          /\ served' = served + 1
          /\ Outcome(m, served + 1) \/ Outcome(m, Failed)
       \/ UNCHANGED served /\ Outcome(m, Failed)
    /\ UNCHANGED <<page, switch, announced>>

OthersOpen ==
    /\ served < MaxReadings
    /\ served' = served + 1
    /\ UNCHANGED <<net, page, switch, announced>>

----------------------------------------------------------------------------
(* Responses arrive.                                                       *)

Update(s, sent, m) ==
    /\ page' = s
    /\ net' = (net \ {m}) \cup sent
    /\ UNCHANGED <<served, announced>>

\* The rest of ensureTree.  The tree lands, or its error does; either way the
\* stats are warmed, and the switch that waited for this fetch is over.
TreeArrives(m) ==
    /\ m.what = "tree"
    /\ \E about \in Answers(m) :
          LET s1 == IF about = Failed THEN [page EXCEPT !.treeError = TRUE]
                                      ELSE [page EXCEPT !.tree = about]
              folds == about # Failed
              s2 == IF folds THEN Folded(s1) ELSE s1
          IN  Update(StatsAsked(s2),
                     StatsRequest(s2) \cup (IF folds THEN FoldRequest(s1) ELSE {}),
                     m)
    /\ switch' = [by \in Switchers |-> IF by = m.on THEN "idle" ELSE switch[by]]

Stored(m, about) == [about |-> about, on |-> m.on]

\* loadCompact after its await, for the newest fetch.
CompactArrives(m) ==
    /\ m.what = "compact" /\ m.id = page.compactSeq
    /\ \E about \in Answers(m) :
          Update(IF about = Failed
                 THEN [page EXCEPT !.compactTree = None, !.compactError = TRUE]
                 ELSE [page EXCEPT !.compactTree = Stored(m, about)],
                 {}, m)
    /\ UNCHANGED switch

\* resolveFilter after its await, for the newest edit.
FilterArrives(m) ==
    /\ m.what = "filter" /\ m.id = page.filterReq
    /\ \E about \in Answers(m) :
          Update([page EXCEPT
                      !.matches = IF about = Failed THEN None ELSE Stored(m, about),
                      !.filterError = (about = Failed),
                      !.resolvedFor = m.on],
                 {}, m)
    /\ UNCHANGED switch

\* Either of them, for a request that a later one superseded.
Superseded(m) ==
    /\ \/ m.what = "compact" /\ m.id # page.compactSeq
       \/ m.what = "filter" /\ m.id # page.filterReq
    /\ Update(page, {}, m)
    /\ UNCHANGED switch

\* The promise that is kept settles; one that has been dropped is heard by
\* nobody.
StatsArrive(m) ==
    /\ m.what = "stats"
    /\ \E about \in Answers(m) :
          Update(IF page.stats # None /\ page.stats.id = m.id
                 THEN [page EXCEPT !.stats.is = about] ELSE page,
                 {}, m)
    /\ UNCHANGED switch

\* What a memo's slot holds after the answer to a request made for it.
Kept(slot, m, about) ==
    IF slot # None /\ slot.id = m.id THEN [slot EXCEPT !.is = about] ELSE slot

\* Mutant of MemoArrives: a rejection is kept like an answer.
MemoKeepsRejection(m) ==
    /\ m.what = "memo"
    /\ \E about \in Answers(m) :
          Update([page EXCEPT !.memo[m.on] = Kept(@, m, about)], {}, m)
    /\ UNCHANGED switch

\* memo: a rejection evicts whatever is stored under its key by then.
MemoArrives(m) ==
    /\ m.what = "memo"
    /\ \E about \in Answers(m) :
          Update([page EXCEPT !.memo[m.on] =
                      IF about = Failed THEN None ELSE Kept(@, m, about)],
                 {}, m)
    /\ UNCHANGED switch

\* switchCheckpoint after its open succeeded, with no await in it: the view is
\* reset (the fold hears of the empty filter), every cached answer forgotten,
\* and the new tree asked for.  openProgress is one store, which whichever
\* open ends first clears.
OpenArrives(m) ==
    LET reset == [Edited([page EXCEPT !.opening = FALSE], NoQuery) EXCEPT
                      !.matches = None, !.filterError = FALSE,
                      !.resolvedFor = NoQuery]
        empty == Forgotten(Folded(reset))
    IN  /\ m.what = "open" /\ m.about \in Readings
        /\ page' = TreeAsked(empty)
        /\ net' = (net \ {m}) \cup FoldRequest(reset) \cup TreeRequest(m.on, empty)
        /\ switch' = [switch EXCEPT ![m.on] = "loading"]
        /\ announced' = IF m.about > announced THEN m.about ELSE announced
        /\ UNCHANGED served

\* A rejected open: the message is shown, and nothing is discarded.
OpenRejected(m) ==
    /\ m.what = "open" /\ m.about = Failed
    /\ Update([page EXCEPT !.opening = FALSE], {}, m)
    /\ switch' = [switch EXCEPT ![m.on] = "idle"]

----------------------------------------------------------------------------
(* The user, and the timer of the filter box.                              *)

Clicked == [page EXCEPT !.clicks = @ + 1]

Click(s, sent) ==
    /\ page.clicks < MaxClicks
    /\ page' = s
    /\ net' = net \cup sent
    /\ UNCHANGED <<served, announced>>

\* A switcher is busy until its switch has loaded.  The open screen is only
\* there to be submitted once nothing is loading; the link the page was opened
\* with is followed when the first tree has come or failed, whatever else is
\* loading by then.
SubmitOpen(by) ==
    /\ switch[by] = "idle"
    /\ \/ by = AddressBar
       \/ ~Loading
       \/ \A m \in net : ~(m.what = "tree" /\ m.on = None)
    /\ Click([Clicked EXCEPT !.opening = TRUE], {Ask("open", by, 0)})
    /\ switch' = [switch EXCEPT ![by] = "opening"]

ToggleCompact ==
    LET s == [Clicked EXCEPT !.compact = ~@]
    IN  Click(Folded(s), FoldRequest(s)) /\ UNCHANGED switch

TypeFilter(q) ==
    LET s == Edited(Clicked, q)
    IN  /\ q # page.query
        /\ Click(Folded(s), FoldRequest(s)) /\ UNCHANGED switch

OpenDetail(k) ==
    LET id == page.issued + 1
    IN  /\ ~Loading /\ ~page.treeError
        /\ page.memo[k] = None
        /\ Click([Clicked EXCEPT !.memo[k] = [id |-> id, is |-> None],
                                 !.issued = id],
                 {Ask("memo", k, id)})
        /\ UNCHANGED switch

\* 200 ms without an edit.
TimerFires ==
    /\ page.timer
    /\ page' = [page EXCEPT !.timer = FALSE]
    /\ net' = net \cup {Ask("filter", page.query, page.filterReq)}
    /\ UNCHANGED <<served, switch, announced>>

----------------------------------------------------------------------------
Arrival(m) == TreeArrives(m) \/ CompactArrives(m) \/ FilterArrives(m)
                \/ Superseded(m) \/ StatsArrive(m) \/ MemoArrives(m)
                \/ OpenArrives(m) \/ OpenRejected(m)

Next ==
    \/ \E m \in net : RespondOpen(m) \/ Arrival(m)
    \/ OthersOpen
    \/ \E by \in Switchers : SubmitOpen(by)
    \/ ToggleCompact
    \/ \E q \in Filters : TypeFilter(q)
    \/ \E k \in Keys : OpenDetail(k)
    \/ TimerFires

Spec == Init /\ [][Next]_vars

\* The server answers, the network delivers or gives up, and timers fire.  The
\* user need not click.
FairSpec ==
    /\ Spec
    /\ WF_vars(\E m \in net : RespondOpen(m) \/ Arrival(m))
    /\ WF_vars(TimerFires)
----------------------------------------------------------------------------
(* Properties.                                                             *)

Settled(p) == p # None /\ p.is # None

\* No kept answer is about a checkpoint that was served before the last switch
\* the page has heard of: names and paths repeat across checkpoints, so one
\* that survived "would not look stale; it would look like an answer"
\* (forgetCheckpoint).
KeptAnswersAreCurrent ==
    /\ \A k \in Keys : Settled(page.memo[k]) => page.memo[k].is >= announced
    /\ Settled(page.stats) /\ page.stats.is # Failed
          => page.stats.is >= announced

\* The same of the folded tree, whose fetch is not kept but sequenced; and once
\* its fetch has landed it is the fold for the filter in the box (loadCompact,
\* foldWhenCompact).
FoldIsCurrent ==
    page.compactTree # None =>
        /\ page.compactTree.about >= announced
        /\ \/ page.compactTree.on = page.query
           \/ ~page.compact \/ page.tree = None
           \/ \E m \in net : m.what = "compact" /\ m.id = page.compactSeq

\* The rows shown are those the filter in the box selects, from the checkpoint
\* last switched to, unless the page says that it is still filtering; without a
\* filter no rows are left out (resolveFilter, `filterReq`).
FilterIsCurrent ==
    /\ page.query = NoQuery => page.matches = None /\ ~page.filterError
    /\ page.matches # None =>
          /\ page.matches.about >= announced
          /\ Filtering \/ page.matches.on = page.query

\* The loading screen goes away, and so does "filtering": every wait that they
\* stand for has a fetch under way that will end it ("the fetch never started
\* and the wait never ended", foldWhenCompact).
WaitsEnd ==
    /\ Loading ~> ~Loading
    /\ Filtering ~> ~Filtering

\* No tree from before a switch is on screen after it: forgetCheckpoint drops
\* "every cached answer about the checkpoint we were on ... all of them".
NoTreeSurvives == page.tree # None => page.tree >= announced
=============================================================================
