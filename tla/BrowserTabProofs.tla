-------------------------- MODULE BrowserTabProofs --------------------------
(***************************************************************************)
(* The page's stores through switches, proved for any keys, filters and    *)
(* switchers, and any number of readings and clicks.                       *)
(*                                                                         *)
(* What a store holds now was asked for earlier, so the invariants are     *)
(* about the requests still in flight: the number a request carries says   *)
(* whether its answer will be kept, and one whose answer will be kept was  *)
(* sent no earlier than the last switch the page has heard of.             *)
(***************************************************************************)
EXTENDS BrowserTab, TLAPS

(***************************************************************************)
(* The stores in groups, and what each of the handlers' functions leaves   *)
(* alone of them.                                                          *)
(***************************************************************************)

View(s)   == <<s.compact, s.tree, s.query>>
Fold(s)   == <<s.folded, s.compactTree, s.compactSeq>>
Filter(s) == <<s.filterReq, s.timer, s.matches, s.filterError, s.resolvedFor>>
Caches(s) == <<s.stats, s.memo>>

LEMMA Markers ==
  /\ None \notin Filters /\ None \notin Nat /\ None \notin Readings
  /\ Failed \notin Nat /\ Failed \notin Readings /\ None # Failed
  /\ Readings \subseteq Nat
PROOF
  BY MarkersAssumption, ReadingsAssumption DEF Filters, Readings

LEMMA TreeAskedFields ==
  ASSUME NEW s \in Stores
  PROVE  /\ TreeAsked(s) \in Stores
         /\ View(TreeAsked(s)) = View(s) /\ Fold(TreeAsked(s)) = Fold(s)
         /\ Filter(TreeAsked(s)) = Filter(s) /\ Caches(TreeAsked(s)) = Caches(s)
         /\ TreeAsked(s).issued >= s.issued
         /\ TreeDue(s) => TreeAsked(s).issued = s.issued + 1
PROOF
<1> DEFINE t == [s EXCEPT !.treeStarted = TRUE, !.issued = @ + 1]
<1>1. TreeAsked(s) = IF TreeDue(s) THEN t ELSE s
  BY DEF TreeAsked
<1>2. s.issued + 1 \in Nat
  BY DEF Stores
<1>3. t \in Stores
  BY <1>2 DEF Stores
<1>4. /\ View(t) = View(s) /\ Fold(t) = Fold(s) /\ Filter(t) = Filter(s)
      /\ Caches(t) = Caches(s) /\ t.issued = s.issued + 1
  BY DEF Stores, View, Fold, Filter, Caches
<1> QED
  BY <1>1, <1>2, <1>3, <1>4 DEF Stores

LEMMA StatsAskedFields ==
  ASSUME NEW s \in Stores
  PROVE  /\ StatsAsked(s) \in Stores
         /\ View(StatsAsked(s)) = View(s) /\ Fold(StatsAsked(s)) = Fold(s)
         /\ Filter(StatsAsked(s)) = Filter(s) /\ StatsAsked(s).memo = s.memo
         /\ StatsAsked(s).issued >= s.issued
         /\ StatsDue(s) => /\ StatsAsked(s).issued = s.issued + 1
                           /\ StatsAsked(s).stats = [id |-> s.issued + 1, is |-> None]
         /\ ~ StatsDue(s) => StatsAsked(s) = s
PROOF
<1> DEFINE p == [id |-> s.issued + 1, is |-> None]
           t == [s EXCEPT !.stats = p, !.issued = @ + 1]
<1>1. StatsAsked(s) = IF StatsDue(s) THEN t ELSE s
  BY DEF StatsAsked
<1>2. s.issued + 1 \in Nat /\ s.issued \in Nat
  BY DEF Stores
<1>3. p \in Promise(Answer)
  BY <1>2 DEF Promise
<1>4. t \in Stores
  BY <1>2, <1>3 DEF Stores
<1>5. /\ View(t) = View(s) /\ Fold(t) = Fold(s) /\ Filter(t) = Filter(s)
      /\ t.memo = s.memo /\ t.issued = s.issued + 1 /\ t.stats = p
  BY DEF Stores, View, Fold, Filter
<1> QED
  BY <1>1, <1>2, <1>4, <1>5

LEMMA FoldedFields ==
  ASSUME NEW s \in Stores
  PROVE  /\ Folded(s) \in Stores
         /\ View(Folded(s)) = View(s) /\ Filter(Folded(s)) = Filter(s)
         /\ Caches(Folded(s)) = Caches(s)
         /\ Folded(s).issued = s.issued /\ Folded(s).compactTree = s.compactTree
         /\ FoldDue(s) => /\ Folded(s).compactSeq = s.compactSeq + 1
                          /\ Folded(s).folded = s.query
         /\ ~ FoldDue(s) => Folded(s).compactSeq = s.compactSeq
         /\ ~ FoldDue(s) => Folded(s).folded = IF s.compact /\ s.tree # None THEN s.folded ELSE None
PROOF
<1> DEFINE t == [s EXCEPT !.folded = s.query, !.compactError = FALSE, !.compactSeq = @ + 1]
           u == [s EXCEPT !.folded = None]
<1>1. Folded(s) = IF FoldDue(s) THEN t ELSE IF s.compact /\ s.tree # None THEN s ELSE u
  BY DEF Folded
<1>2. s.compactSeq + 1 \in Nat /\ s.query \in Filters
  BY DEF Stores
<1>3. t \in Stores /\ u \in Stores
  BY <1>2 DEF Stores
<1>4. /\ View(t) = View(s) /\ Filter(t) = Filter(s) /\ Caches(t) = Caches(s)
      /\ t.issued = s.issued /\ t.compactTree = s.compactTree
      /\ t.compactSeq = s.compactSeq + 1 /\ t.folded = s.query
  BY DEF Stores, View, Filter, Caches
<1>5. /\ View(u) = View(s) /\ Filter(u) = Filter(s) /\ Caches(u) = Caches(s)
      /\ u.issued = s.issued /\ u.compactTree = s.compactTree
      /\ u.compactSeq = s.compactSeq /\ u.folded = None
  BY DEF Stores, View, Filter, Caches
<1> QED
  BY <1>1, <1>3, <1>4, <1>5

LEMMA EditedFields ==
  ASSUME NEW s \in Stores, NEW q \in Filters
  PROVE  /\ Edited(s, q) \in Stores
         /\ Edited(s, q).query = q
         /\ Edited(s, q).compact = s.compact /\ Edited(s, q).tree = s.tree
         /\ Fold(Edited(s, q)) = Fold(s) /\ Caches(Edited(s, q)) = Caches(s)
         /\ Edited(s, q).issued = s.issued
         /\ q = s.query => Edited(s, q) = s
         /\ q # s.query => Edited(s, q).filterReq = s.filterReq + 1
         /\ q = NoQuery /\ q # s.query => /\ ~ Edited(s, q).timer
                                          /\ Edited(s, q).matches = None /\ ~ Edited(s, q).filterError
         /\ q # NoQuery => /\ Edited(s, q).matches = s.matches
                           /\ Edited(s, q).resolvedFor = s.resolvedFor
PROOF
<1> DEFINE t == [s EXCEPT !.query = q, !.filterReq = @ + 1, !.timer = FALSE,
                          !.matches = None, !.filterError = FALSE, !.resolvedFor = q]
           u == [s EXCEPT !.query = q, !.filterReq = @ + 1, !.timer = TRUE]
<1>1. Edited(s, q) = IF q = s.query THEN s ELSE IF q = NoQuery THEN t ELSE u
  BY DEF Edited
<1>2. s.filterReq + 1 \in Nat
  BY DEF Stores
<1>3. t \in Stores /\ u \in Stores
  BY <1>2 DEF Stores
<1>4. /\ t.query = q /\ t.compact = s.compact /\ t.tree = s.tree /\ Fold(t) = Fold(s)
      /\ Caches(t) = Caches(s) /\ t.issued = s.issued /\ t.filterReq = s.filterReq + 1
      /\ t.timer = FALSE /\ t.matches = None /\ t.filterError = FALSE
  BY DEF Stores, Fold, Caches
<1>5. /\ u.query = q /\ u.compact = s.compact /\ u.tree = s.tree /\ Fold(u) = Fold(s)
      /\ Caches(u) = Caches(s) /\ u.issued = s.issued /\ u.filterReq = s.filterReq + 1
      /\ u.matches = s.matches /\ u.resolvedFor = s.resolvedFor
  BY DEF Stores, Fold, Caches
<1> QED
  BY <1>1, <1>3, <1>4, <1>5

LEMMA ForgottenFields ==
  ASSUME NEW s \in Stores
  PROVE  /\ Forgotten(s) \in Stores
         /\ Forgotten(s).compact = s.compact /\ Forgotten(s).query = s.query
         /\ Filter(Forgotten(s)) = Filter(s) /\ Forgotten(s).issued = s.issued
         /\ Forgotten(s).compactSeq = s.compactSeq + 1
         /\ \A k \in Keys : Forgotten(s).memo[k] = None
         /\ Forgotten(s).stats = None /\ Forgotten(s).folded = None
         /\ Forgotten(s).tree = None /\ Forgotten(s).compactTree = None
         /\ TreeDue(Forgotten(s))
PROOF
<1>1. s.compactSeq + 1 \in Nat
  BY DEF Stores
<1>2. Forgotten(s) \in Stores
  BY <1>1 DEF Forgotten, Stores
<1>3. /\ Forgotten(s).compact = s.compact /\ Forgotten(s).query = s.query
      /\ Filter(Forgotten(s)) = Filter(s) /\ Forgotten(s).issued = s.issued
      /\ Forgotten(s).compactSeq = s.compactSeq + 1
  BY DEF Forgotten, Stores, Filter
<1>4. /\ Forgotten(s).memo = [k \in Keys |-> None]
      /\ Forgotten(s).stats = None /\ Forgotten(s).folded = None
      /\ Forgotten(s).tree = None /\ Forgotten(s).compactTree = None
      /\ Forgotten(s).treeStarted = FALSE
  BY DEF Forgotten, Stores
<1> QED
  BY <1>2, <1>3, <1>4 DEF TreeDue

(***************************************************************************)
(* Types, and the requests in flight.                                      *)
(***************************************************************************)

\* What is known of a request: which store it is for, that it carries a number
\* that was given out, and that an open that succeeded has been served.
Fits(m) ==
    /\ m.since <= served
    /\ m.what \in {"memo", "stats"} => m.id <= page.issued
    /\ m.what = "memo" => m.on \in Keys
    /\ m.what \in {"compact", "filter"} => m.on \in Filters
    /\ m.what = "compact" => m.id <= page.compactSeq
    /\ m.what = "filter" => m.id <= page.filterReq
    /\ m.what = "open" => m.on \in Switchers
    /\ m.about \in Readings => m.about <= served

Traffic == announced <= served /\ \A m \in net : Fits(m)

\* The counters only grow, so what fits goes on fitting.
LEMMA TrafficKept ==
  ASSUME TypeOK, Traffic, page' \in Stores, served' \in Readings,
         served <= served', announced' <= served',
         page.issued <= page'.issued, page.compactSeq <= page'.compactSeq,
         page.filterReq <= page'.filterReq,
         net' \subseteq Message,
         \A n \in net' : n \in net \/ Fits(n)'
  PROVE  Traffic'
PROOF
<1> SUFFICES ASSUME NEW n \in net, n \in net' PROVE Fits(n)'
  BY DEF Traffic
<1>1. Fits(n)
  BY DEF Traffic
<1>2. n \in Message /\ n.since \in Nat /\ n.id \in Nat /\ served \in Nat /\ served' \in Nat
  BY Markers DEF TypeOK, Message
<1>3. /\ page.issued \in Nat /\ page'.issued \in Nat
      /\ page.compactSeq \in Nat /\ page'.compactSeq \in Nat
      /\ page.filterReq \in Nat /\ page'.filterReq \in Nat
  BY DEF TypeOK, Stores
<1>4. n.about \in Readings => n.about \in Nat
  BY Markers
<1> QED
  BY <1>1, <1>2, <1>3, <1>4 DEF Fits

LEMMA FoldRequests ==
  ASSUME TypeOK, NEW s \in Stores, NEW n \in FoldRequest(s)
  PROVE  /\ n \in Message /\ FoldDue(s)
         /\ n.what = "compact" /\ n.on = s.query /\ n.id = s.compactSeq + 1
         /\ n.since = served /\ n.about = None
PROOF
<1>1. FoldDue(s) /\ n = Ask("compact", s.query, s.compactSeq + 1)
  BY DEF FoldRequest
<1>2. s.query \in Filters /\ s.compactSeq + 1 \in Nat /\ served \in Readings
  BY DEF Stores, TypeOK
<1> QED
  BY <1>1, <1>2 DEF Ask, Message

LEMMA StatsRequests ==
  ASSUME TypeOK, NEW s \in Stores, NEW n \in StatsRequest(s)
  PROVE  /\ n \in Message /\ StatsDue(s)
         /\ n.what = "stats" /\ n.id = s.issued + 1 /\ n.since = served /\ n.about = None
PROOF
<1>1. StatsDue(s) /\ n = Ask("stats", None, s.issued + 1)
  BY DEF StatsRequest
<1>2. s.issued + 1 \in Nat /\ served \in Readings
  BY DEF Stores, TypeOK
<1> QED
  BY <1>1, <1>2 DEF Ask, Message

LEMMA TreeRequests ==
  ASSUME TypeOK, NEW s \in Stores, NEW by \in Switchers \cup {None}, NEW n \in TreeRequest(by, s)
  PROVE  n \in Message /\ n.what = "tree" /\ n.since = served /\ n.about = None
PROOF
<1>1. n = Ask("tree", by, s.issued + 1)
  BY DEF TreeRequest
<1>2. s.issued + 1 \in Nat /\ served \in Readings
  BY DEF Stores, TypeOK
<1> QED
  BY <1>1, <1>2 DEF Ask, Message

LEMMA TypeInit == Init => TypeOK /\ Traffic
PROOF
<1> SUFFICES ASSUME Init PROVE TypeOK /\ Traffic
  OBVIOUS
<1>1. FreshStores \in Stores
  <2>1. [k \in Keys |-> None] \in [Keys -> Promise(Readings) \cup {None}]
    OBVIOUS
  <2>2. NoQuery \in Filters
    BY DEF Filters
  <2> QED
    BY <2>1, <2>2 DEF FreshStores, Stores
<1>2. page \in Stores
  BY <1>1, TreeAskedFields DEF Init
<1>3. served \in Readings /\ announced \in Readings /\ announced <= served
  BY ReadingsAssumption DEF Init, Readings
<1>4. \A n \in net : n = Ask("tree", None, FreshStores.issued + 1)
  BY DEF Init, TreeRequest
<1>5. FreshStores.issued + 1 \in Nat
  BY <1>1 DEF Stores
<1>6. \A n \in net : n \in Message /\ n.what = "tree" /\ n.since = served /\ n.about = None
  BY <1>3, <1>4, <1>5 DEF Ask, Message
<1>7. \A n \in net : Fits(n)
  BY <1>3, <1>6, Markers DEF Fits
<1>8. switch \in [Switchers -> {"idle", "opening", "loading"}]
  BY DEF Init
<1> QED
  BY <1>2, <1>3, <1>6, <1>7, <1>8 DEF TypeOK, Traffic

\* A step of the page alone: the server is where it was.
LEMMA PageSteps ==
  ASSUME TypeOK, Traffic, page' \in Stores, UNCHANGED <<served, announced>>,
         switch' \in [Switchers -> {"idle", "opening", "loading"}],
         page.issued <= page'.issued, page.compactSeq <= page'.compactSeq,
         page.filterReq <= page'.filterReq,
         \A n \in net' : n \in net \/ (n \in Message /\ Fits(n)')
  PROVE  TypeOK' /\ Traffic'
PROOF
<1>1. served \in Nat /\ announced \in Nat /\ announced <= served
  BY Markers DEF TypeOK, Traffic
<1>2. net' \subseteq Message
  BY DEF TypeOK
<1>3. Traffic'
  BY <1>1, <1>2, TrafficKept DEF TypeOK
<1> QED
  BY <1>2, <1>3 DEF TypeOK

LEMMA CountersAre ==
  ASSUME NEW s \in Stores
  PROVE  s.issued \in Nat /\ s.compactSeq \in Nat /\ s.filterReq \in Nat
PROOF
  BY DEF Stores

\* A request of the page is about what is served now, and no open.
LEMMA AskedFits ==
  ASSUME TypeOK, NEW n \in Message, n.since = served, n.about = None,
         n.what \in {"memo", "stats"} => n.id <= page'.issued,
         n.what = "memo" => n.on \in Keys,
         n.what \in {"compact", "filter"} => n.on \in Filters,
         n.what = "compact" => n.id <= page'.compactSeq,
         n.what = "filter" => n.id <= page'.filterReq,
         n.what = "open" => n.on \in Switchers,
         served' = served
  PROVE  Fits(n)'
PROOF
<1>1. served \in Nat /\ None \notin Readings
  BY Markers DEF TypeOK
<1> QED
  BY <1>1 DEF Fits

LEMMA TypeOpens ==
  ASSUME TypeOK, Traffic, NEW m \in net, RespondOpen(m)
  PROVE  TypeOK' /\ Traffic'
PROOF
<1>1. m \in Message /\ Fits(m) /\ m.what = "open" /\ m.about = None
  BY DEF TypeOK, Traffic, RespondOpen
<1>2. served \in Nat /\ served' \in Nat /\ served <= served' /\ served' \in Readings
  <2>1. served' = served \/ (served < MaxReadings /\ served' = served + 1)
    BY DEF RespondOpen
  <2> QED
    BY <2>1, ReadingsAssumption DEF TypeOK, Readings
<1>3. PICK about \in {served', Failed} : Outcome(m, about)
  BY DEF RespondOpen
<1> DEFINE n == [m EXCEPT !.about = about]
<1>4. /\ n \in Message /\ n.what = "open" /\ n.on = m.on /\ n.since = m.since
      /\ n.about = about
  BY <1>1, <1>2, <1>3 DEF Message, Answer
<1>5. net' = (net \ {m}) \cup {n}
  BY <1>3 DEF Outcome
<1>6. m.since \in Nat /\ Failed \notin Readings
  BY <1>1, Markers DEF Message
<1>7. Fits(n)'
  BY <1>1, <1>2, <1>3, <1>4, <1>6 DEF Fits
<1>8. UNCHANGED <<page, switch, announced>>
  BY DEF RespondOpen
<1>9. announced \in Nat /\ announced <= served
  BY Markers DEF TypeOK, Traffic
<1>10. Traffic'
  <2>1. net' \subseteq Message /\ \A p \in net' : p \in net \/ Fits(p)'
    BY <1>4, <1>5, <1>7 DEF TypeOK
  <2>2. page \in Stores
    BY DEF TypeOK
  <2>3. announced' <= served'
    BY <1>2, <1>8, <1>9
  <2> QED
    BY <1>2, <1>8, <2>1, <2>2, <2>3, TrafficKept, CountersAre
<1> QED
  BY <1>2, <1>4, <1>5, <1>8, <1>10 DEF TypeOK

LEMMA TypeTree ==
  ASSUME TypeOK, Traffic, NEW m \in net, TreeArrives(m)
  PROVE  TypeOK' /\ Traffic'
PROOF
<1>1. PICK about \in Answers(m) :
        LET s1 == IF about = Failed THEN [page EXCEPT !.treeError = TRUE]
                                    ELSE [page EXCEPT !.tree = about]
            folds == about # Failed
            s2 == IF folds THEN Folded(s1) ELSE s1
        IN  Update(StatsAsked(s2),
                   StatsRequest(s2) \cup (IF folds THEN FoldRequest(s1) ELSE {}), m)
  BY DEF TreeArrives
<1> DEFINE s1 == IF about = Failed THEN [page EXCEPT !.treeError = TRUE]
                                   ELSE [page EXCEPT !.tree = about]
           s2 == IF about # Failed THEN Folded(s1) ELSE s1
           sent == StatsRequest(s2) \cup (IF about # Failed THEN FoldRequest(s1) ELSE {})
<1>2. about \in Readings \cup {Failed}
  <2>1. m \in Message /\ served \in Readings
    BY DEF TypeOK
  <2> QED
    BY <2>1, ReadingsAssumption DEF Answers, Message, Readings
<1>3. s1 \in Stores /\ s1.issued = page.issued /\ s1.compactSeq = page.compactSeq
      /\ s1.filterReq = page.filterReq
  BY <1>2 DEF TypeOK, Stores
<1>4. /\ s2 \in Stores /\ s2.issued = page.issued /\ s2.filterReq = page.filterReq
      /\ about = Failed => s2.compactSeq = page.compactSeq
      /\ ~ FoldDue(s1) => s2.compactSeq = page.compactSeq
      /\ about # Failed /\ FoldDue(s1) => s2.compactSeq = page.compactSeq + 1
  <2> HIDE DEF s1
  <2> QED
    BY <1>3, FoldedFields DEF Filter
<1>5. page' = StatsAsked(s2) /\ net' = (net \ {m}) \cup sent /\ UNCHANGED <<served, announced>>
  BY <1>1 DEF Update
<1> HIDE DEF s1, s2
<1>6. /\ page' \in Stores /\ page'.compactSeq = s2.compactSeq /\ page'.filterReq = s2.filterReq
      /\ s2.issued <= page'.issued
      /\ StatsDue(s2) => page'.issued = s2.issued + 1
  BY <1>4, <1>5, StatsAskedFields DEF Fold, Filter, Stores
<1>7. page.issued \in Nat /\ page.compactSeq \in Nat /\ page.filterReq \in Nat
  BY CountersAre DEF TypeOK
<1>8. \A n \in StatsRequest(s2) : n \in Message /\ Fits(n)'
  <2> SUFFICES ASSUME NEW n \in StatsRequest(s2) PROVE n \in Message /\ Fits(n)'
    OBVIOUS
  <2>1. /\ n \in Message /\ StatsDue(s2)
        /\ n.what = "stats" /\ n.id = s2.issued + 1 /\ n.since = served /\ n.about = None
    BY <1>4, StatsRequests
  <2>2. n.id <= page'.issued
    BY <1>4, <1>6, <1>7, <2>1
  <2> QED
    BY <1>5, <2>1, <2>2, AskedFits
<1>9. \A n \in FoldRequest(s1) : about # Failed => n \in Message /\ Fits(n)'
  <2> SUFFICES ASSUME NEW n \in FoldRequest(s1), about # Failed PROVE n \in Message /\ Fits(n)'
    OBVIOUS
  <2>1. /\ n \in Message /\ FoldDue(s1)
        /\ n.what = "compact" /\ n.on = s1.query /\ n.id = s1.compactSeq + 1
        /\ n.since = served /\ n.about = None
    BY <1>3, FoldRequests
  <2>2. n.id <= page'.compactSeq /\ n.on \in Filters
    BY <1>3, <1>4, <1>6, <1>7, <2>1 DEF Stores
  <2> QED
    BY <1>5, <2>1, <2>2, AskedFits
<1>10. switch' \in [Switchers -> {"idle", "opening", "loading"}]
  BY DEF TreeArrives, TypeOK
<1>11. \A n \in net' : n \in net \/ (n \in Message /\ Fits(n)')
  BY <1>5, <1>8, <1>9
<1>12. page.issued <= page'.issued /\ page.compactSeq <= page'.compactSeq
       /\ page.filterReq <= page'.filterReq
  BY <1>4, <1>6, <1>7
<1> QED
  BY <1>5, <1>6, <1>10, <1>11, <1>12, PageSteps

LEMMA TypeOpenArrives ==
  ASSUME TypeOK, Traffic, NEW m \in net, OpenArrives(m)
  PROVE  TypeOK' /\ Traffic'
PROOF
<1> DEFINE quiet == [page EXCEPT !.opening = FALSE]
           reset == [Edited(quiet, NoQuery) EXCEPT
                         !.matches = None, !.filterError = FALSE, !.resolvedFor = NoQuery]
           empty == Forgotten(Folded(reset))
<1>1. /\ m.what = "open" /\ m.about \in Readings
      /\ page' = TreeAsked(empty)
      /\ net' = (net \ {m}) \cup FoldRequest(reset) \cup TreeRequest(m.on, empty)
      /\ switch' = [switch EXCEPT ![m.on] = "loading"]
      /\ announced' = IF m.about > announced THEN m.about ELSE announced
      /\ UNCHANGED served
  BY DEF OpenArrives
<1>2. page.issued \in Nat /\ page.compactSeq \in Nat /\ page.filterReq \in Nat
  BY CountersAre DEF TypeOK
<1>3. NoQuery \in Filters
  BY DEF Filters
<1>4. quiet \in Stores /\ Fold(quiet) = Fold(page) /\ quiet.issued = page.issued
      /\ quiet.filterReq = page.filterReq
  BY DEF TypeOK, Stores, Fold
<1> HIDE DEF quiet
<1> DEFINE edited == Edited(quiet, NoQuery)
<1>5. edited \in Stores /\ edited.compactSeq = page.compactSeq /\ edited.issued = page.issued
      /\ edited.filterReq >= page.filterReq
  BY <1>2, <1>3, <1>4, EditedFields DEF Fold
<1> HIDE DEF edited
<1>6. reset \in Stores /\ reset.compactSeq = page.compactSeq /\ reset.issued = page.issued
      /\ reset.filterReq >= page.filterReq
  <2>1. reset = [edited EXCEPT !.matches = None, !.filterError = FALSE, !.resolvedFor = NoQuery]
    BY DEF edited
  <2> HIDE DEF reset
  <2> QED
    BY <1>3, <1>5, <2>1 DEF Stores
<1> HIDE DEF reset
<1>7. /\ Folded(reset) \in Stores /\ Folded(reset).issued = page.issued
      /\ Folded(reset).filterReq = reset.filterReq
      /\ FoldDue(reset) => Folded(reset).compactSeq = page.compactSeq + 1
      /\ ~ FoldDue(reset) => Folded(reset).compactSeq = page.compactSeq
  BY <1>6, FoldedFields DEF Filter
<1>8. /\ empty \in Stores /\ empty.issued = page.issued /\ empty.filterReq = reset.filterReq
      /\ empty.compactSeq = Folded(reset).compactSeq + 1
  BY <1>7, ForgottenFields DEF Filter
<1> HIDE DEF empty
<1>9. /\ page' \in Stores /\ page.issued <= page'.issued /\ page'.filterReq = reset.filterReq
      /\ page'.compactSeq = empty.compactSeq
  BY <1>1, <1>8, TreeAskedFields DEF Filter, Fold
<1>10. m \in Message /\ Fits(m)
  BY DEF TypeOK, Traffic
<1>11. \A n \in FoldRequest(reset) : n \in Message /\ Fits(n)'
  <2> SUFFICES ASSUME NEW n \in FoldRequest(reset) PROVE n \in Message /\ Fits(n)'
    OBVIOUS
  <2>1. /\ n \in Message /\ FoldDue(reset)
        /\ n.what = "compact" /\ n.on = reset.query /\ n.id = reset.compactSeq + 1
        /\ n.since = served /\ n.about = None
    BY <1>6, FoldRequests
  <2>2. n.id <= page'.compactSeq /\ n.on \in Filters
    BY <1>2, <1>6, <1>7, <1>8, <1>9, <2>1 DEF Stores
  <2> QED
    BY <1>1, <2>1, <2>2, AskedFits
<1>12. \A n \in TreeRequest(m.on, empty) : n \in Message /\ Fits(n)'
  <2> SUFFICES ASSUME NEW n \in TreeRequest(m.on, empty) PROVE n \in Message /\ Fits(n)'
    OBVIOUS
  <2>1. m.on \in Switchers
    BY <1>1, <1>10 DEF Fits
  <2>2. n \in Message /\ n.what = "tree" /\ n.since = served /\ n.about = None
    BY <1>8, <2>1, TreeRequests
  <2> QED
    BY <1>1, <2>2, AskedFits
<1>13. announced' \in Readings /\ announced' <= served /\ served \in Nat
  <2>1. m.about <= served /\ m.about \in Nat /\ announced \in Nat /\ announced <= served
    BY <1>1, <1>10, Markers DEF Fits, TypeOK, Traffic
  <2> QED
    BY <1>1, <2>1, Markers DEF TypeOK
<1>14. net' \subseteq Message /\ \A n \in net' : n \in net \/ Fits(n)'
  BY <1>1, <1>11, <1>12 DEF TypeOK
<1>15. page.compactSeq <= page'.compactSeq /\ page.filterReq <= page'.filterReq
  BY <1>2, <1>6, <1>7, <1>8, <1>9
<1>16. served' \in Readings /\ served <= served' /\ announced' <= served'
  BY <1>1, <1>13 DEF TypeOK
<1>17. Traffic'
  BY <1>9, <1>14, <1>15, <1>16, TrafficKept
<1>18. switch' \in [Switchers -> {"idle", "opening", "loading"}]
  BY <1>1 DEF TypeOK
<1> QED
  BY <1>9, <1>13, <1>14, <1>16, <1>17, <1>18 DEF TypeOK

LEMMA AnswersAre ==
  ASSUME TypeOK, NEW m \in net, NEW about \in Answers(m)
  PROVE  /\ about \in Readings \cup {Failed}
         /\ about # Failed => m.since \in Nat /\ about \in Nat /\ m.since <= about
PROOF
<1>1. m \in Message /\ served \in Readings
  BY DEF TypeOK
<1> QED
  BY <1>1, ReadingsAssumption DEF Answers, Message, Readings

\* The stores after an answer that leaves the counters alone.
Quiet ==
    /\ page' \in Stores /\ page'.issued = page.issued
    /\ page'.compactSeq = page.compactSeq /\ page'.filterReq = page.filterReq

LEMMA QuietSteps ==
  ASSUME TypeOK, Traffic, Quiet, UNCHANGED <<served, announced>>, net' \subseteq net,
         switch' \in [Switchers -> {"idle", "opening", "loading"}]
  PROVE  TypeOK' /\ Traffic'
PROOF
<1>1. page.issued \in Nat /\ page.compactSeq \in Nat /\ page.filterReq \in Nat
  BY CountersAre DEF TypeOK
<1> QED
  BY <1>1, PageSteps DEF Quiet

LEMMA QuietAnswers ==
  ASSUME TypeOK, Traffic, NEW m \in net,
         CompactArrives(m) \/ FilterArrives(m) \/ Superseded(m) \/ StatsArrive(m)
           \/ MemoArrives(m) \/ OpenRejected(m)
  PROVE  Quiet
PROOF
<1>1. page \in Stores
  BY DEF TypeOK
<1>2. m \in Message /\ Fits(m)
  BY DEF TypeOK, Traffic
<1>3. CASE CompactArrives(m)
  <2>1. PICK about \in Answers(m) :
          page' = IF about = Failed
                  THEN [page EXCEPT !.compactTree = None, !.compactError = TRUE]
                  ELSE [page EXCEPT !.compactTree = Stored(m, about)]
    BY <1>3 DEF CompactArrives, Update
  <2>2. about # Failed => Stored(m, about) \in Scoped
    BY <1>2, <1>3, AnswersAre DEF Fits, CompactArrives, Stored, Scoped
  <2> QED
    BY <1>1, <2>1, <2>2 DEF Stores, Quiet
<1>4. CASE FilterArrives(m)
  <2>1. PICK about \in Answers(m) :
          page' = [page EXCEPT !.matches = IF about = Failed THEN None ELSE Stored(m, about),
                               !.filterError = (about = Failed),
                               !.resolvedFor = m.on]
    BY <1>4 DEF FilterArrives, Update
  <2>2. m.on \in Filters /\ (about # Failed => Stored(m, about) \in Scoped)
    BY <1>2, <1>4, AnswersAre DEF Fits, FilterArrives, Stored, Scoped
  <2> DEFINE found == IF about = Failed THEN None ELSE Stored(m, about)
             bad == about = Failed
  <2>3. found \in Scoped \cup {None} /\ bad \in BOOLEAN
    BY <2>2
  <2>4. page' = [page EXCEPT !.matches = found, !.filterError = bad, !.resolvedFor = m.on]
    BY <2>1
  <2> HIDE DEF found, bad
  <2> QED
    BY <1>1, <2>2, <2>3, <2>4 DEF Stores, Quiet
<1>5. CASE Superseded(m)
  BY <1>1, <1>5 DEF Superseded, Update, Quiet
<1>6. CASE StatsArrive(m)
  <2>1. PICK about \in Answers(m) :
          page' = IF page.stats # None /\ page.stats.id = m.id
                  THEN [page EXCEPT !.stats.is = about] ELSE page
    BY <1>6 DEF StatsArrive, Update
  <2>2. about \in Answer
    BY AnswersAre DEF Answer
  <2>3. page.stats # None => [page.stats EXCEPT !.is = about] \in Promise(Answer)
    BY <1>1, <2>2 DEF Stores, Promise
  <2> QED
    BY <1>1, <2>1, <2>3 DEF Stores, Quiet
<1>7. CASE MemoArrives(m)
  <2>1. PICK about \in Answers(m) :
          page' = [page EXCEPT !.memo[m.on] = IF about = Failed THEN None ELSE Kept(@, m, about)]
    BY <1>7 DEF MemoArrives, Update
  <2>2. m.on \in Keys /\ page.memo \in [Keys -> Promise(Readings) \cup {None}]
    BY <1>1, <1>2, <1>7 DEF Fits, MemoArrives, Stores
  <2> DEFINE kept == IF about = Failed THEN None ELSE Kept(page.memo[m.on], m, about)
  <2>3. kept \in Promise(Readings) \cup {None}
    BY <2>2, AnswersAre DEF Kept, Promise
  <2>4. page' = [page EXCEPT !.memo = [page.memo EXCEPT ![m.on] = kept]]
    BY <1>1, <2>1 DEF Stores
  <2> HIDE DEF kept
  <2>5. [page.memo EXCEPT ![m.on] = kept] \in [Keys -> Promise(Readings) \cup {None}]
    BY <2>2, <2>3
  <2> QED
    BY <1>1, <2>4, <2>5 DEF Stores, Quiet
<1>8. CASE OpenRejected(m)
  BY <1>1, <1>8 DEF OpenRejected, Update, Stores, Quiet
<1> QED
  BY <1>3, <1>4, <1>5, <1>6, <1>7, <1>8

LEMMA TypeAnswers ==
  ASSUME TypeOK, Traffic, NEW m \in net,
         CompactArrives(m) \/ FilterArrives(m) \/ Superseded(m) \/ StatsArrive(m)
           \/ MemoArrives(m) \/ OpenRejected(m)
  PROVE  TypeOK' /\ Traffic'
PROOF
<1>1. UNCHANGED <<served, announced>> /\ net' \subseteq net
  BY DEF CompactArrives, FilterArrives, Superseded, StatsArrive, MemoArrives, OpenRejected, Update
<1>2. switch' = switch \/ switch' = [switch EXCEPT ![m.on] = "idle"]
  BY DEF CompactArrives, FilterArrives, Superseded, StatsArrive, MemoArrives, OpenRejected
<1>3. switch' \in [Switchers -> {"idle", "opening", "loading"}]
  BY <1>2 DEF TypeOK
<1> QED
  BY <1>1, <1>3, QuietAnswers, QuietSteps

LEMMA TypeOthers ==
  ASSUME TypeOK, Traffic, OthersOpen
  PROVE  TypeOK' /\ Traffic'
PROOF
<1>1. served' = served + 1 /\ served < MaxReadings /\ UNCHANGED <<net, page, switch, announced>>
  BY DEF OthersOpen
<1>2. served \in Nat /\ served' \in Readings /\ announced \in Nat /\ announced <= served
  BY <1>1, Markers, ReadingsAssumption DEF TypeOK, Readings, Traffic
<1>3. page \in Stores /\ net \subseteq Message
  BY DEF TypeOK
<1>4. served <= served' /\ announced' <= served'
  BY <1>1, <1>2
<1>5. Traffic'
  BY <1>1, <1>2, <1>3, <1>4, CountersAre, TrafficKept
<1> QED
  BY <1>1, <1>2, <1>5 DEF TypeOK

\* What the user clicks, counted.
LEMMA ClickedFields ==
  ASSUME TypeOK
  PROVE  /\ Clicked \in Stores /\ View(Clicked) = View(page) /\ Fold(Clicked) = Fold(page)
         /\ Filter(Clicked) = Filter(page) /\ Caches(Clicked) = Caches(page)
         /\ Clicked.issued = page.issued
PROOF
<1>1. page \in Stores
  BY DEF TypeOK
<1> QED
  BY <1>1 DEF Clicked, Stores, View, Fold, Filter, Caches

LEMMA TypeFolds ==
  ASSUME TypeOK, Traffic, NEW s \in Stores, Click(Folded(s), FoldRequest(s)), UNCHANGED switch,
         s.issued = page.issued, s.compactSeq = page.compactSeq, page.filterReq <= s.filterReq
  PROVE  TypeOK' /\ Traffic'
PROOF
<1>1. page' = Folded(s) /\ net' = net \cup FoldRequest(s) /\ UNCHANGED <<served, announced>>
  BY DEF Click
<1>2. page.issued \in Nat /\ page.compactSeq \in Nat /\ page.filterReq \in Nat
  BY CountersAre DEF TypeOK
<1>3. /\ page' \in Stores /\ page'.issued = page.issued /\ page'.filterReq = s.filterReq
      /\ FoldDue(s) => page'.compactSeq = page.compactSeq + 1
      /\ ~ FoldDue(s) => page'.compactSeq = page.compactSeq
  BY <1>1, FoldedFields DEF Filter
<1>4. \A n \in FoldRequest(s) : n \in Message /\ Fits(n)'
  <2> SUFFICES ASSUME NEW n \in FoldRequest(s) PROVE n \in Message /\ Fits(n)'
    OBVIOUS
  <2>1. /\ n \in Message /\ FoldDue(s)
        /\ n.what = "compact" /\ n.on = s.query /\ n.id = s.compactSeq + 1
        /\ n.since = served /\ n.about = None
    BY FoldRequests
  <2>2. n.id <= page'.compactSeq /\ n.on \in Filters
    BY <1>2, <1>3, <2>1 DEF Stores
  <2> QED
    BY <1>1, <2>1, <2>2, AskedFits
<1>5. page.issued <= page'.issued /\ page.compactSeq <= page'.compactSeq
      /\ page.filterReq <= page'.filterReq
  BY <1>2, <1>3
<1>6. switch' \in [Switchers -> {"idle", "opening", "loading"}]
  BY DEF TypeOK
<1> QED
  BY <1>1, <1>3, <1>4, <1>5, <1>6, PageSteps

\* The stores after the compact view is switched on or off.
LEMMA ToggledFields ==
  ASSUME TypeOK
  PROVE  LET s == [Clicked EXCEPT !.compact = ~@]
         IN  /\ s \in Stores /\ s.tree = page.tree /\ s.query = page.query /\ Fold(s) = Fold(page)
             /\ Filter(s) = Filter(page) /\ Caches(s) = Caches(page) /\ s.issued = page.issued
PROOF
<1> DEFINE s == [Clicked EXCEPT !.compact = ~@]
<1>1. Clicked \in Stores
  BY ClickedFields
<1>2. s \in Stores
  <2> DEFINE on == ~ Clicked.compact
  <2>1. on \in BOOLEAN
    OBVIOUS
  <2>2. s = [Clicked EXCEPT !.compact = on]
    BY <1>1 DEF Stores
  <2> HIDE DEF on, s
  <2> QED
    BY <1>1, <2>1, <2>2 DEF Stores
<1>3. /\ s.tree = Clicked.tree /\ s.query = Clicked.query /\ Fold(s) = Fold(Clicked)
      /\ Filter(s) = Filter(Clicked) /\ Caches(s) = Caches(Clicked) /\ s.issued = Clicked.issued
  BY <1>1 DEF Stores, Fold, Filter, Caches
<1> QED
  BY <1>2, <1>3, ClickedFields DEF View

LEMMA TypeUser ==
  ASSUME TypeOK, Traffic,
         \/ \E by \in Switchers : SubmitOpen(by)
         \/ ToggleCompact
         \/ \E q \in Filters : TypeFilter(q)
         \/ \E k \in Keys : OpenDetail(k)
         \/ TimerFires
  PROVE  TypeOK' /\ Traffic'
PROOF
<1>1. page \in Stores /\ page.issued \in Nat /\ page.compactSeq \in Nat /\ page.filterReq \in Nat
  BY CountersAre DEF TypeOK
<1>2. Clicked \in Stores /\ Clicked.issued = page.issued /\ Clicked.compactSeq = page.compactSeq
      /\ Clicked.filterReq = page.filterReq
  BY ClickedFields DEF Fold, Filter
<1>3. ASSUME NEW by \in Switchers, SubmitOpen(by) PROVE TypeOK' /\ Traffic'
  <2>0. PICK n : n = Ask("open", by, 0)
    OBVIOUS
  <2>1. /\ page' = [Clicked EXCEPT !.opening = TRUE] /\ net' = net \cup {n}
        /\ UNCHANGED <<served, announced>> /\ switch' = [switch EXCEPT ![by] = "opening"]
    BY <1>3, <2>0 DEF SubmitOpen, Click
  <2>2. page' \in Stores /\ page'.issued = page.issued /\ page'.compactSeq = page.compactSeq
        /\ page'.filterReq = page.filterReq
    BY <1>2, <2>1 DEF Stores
  <2>3. n \in Message /\ n.what = "open" /\ n.on = by /\ n.since = served /\ n.about = None
    BY <2>0 DEF Ask, Message, TypeOK
  <2>4. Fits(n)'
    BY <2>1, <2>3, AskedFits
  <2>5. switch' \in [Switchers -> {"idle", "opening", "loading"}]
    BY <2>1 DEF TypeOK
  <2>6. \A p \in net' : p \in net \/ (p \in Message /\ Fits(p)')
    BY <2>1, <2>3, <2>4
  <2> QED
    BY <1>1, <2>1, <2>2, <2>5, <2>6, PageSteps
<1>4. CASE ToggleCompact
  <2> DEFINE s == [Clicked EXCEPT !.compact = ~@]
  <2>1. Click(Folded(s), FoldRequest(s)) /\ UNCHANGED switch
    BY <1>4 DEF ToggleCompact
  <2>2. s \in Stores /\ s.issued = page.issued /\ s.compactSeq = page.compactSeq
        /\ s.filterReq = page.filterReq
    BY ToggledFields DEF Fold, Filter
  <2> HIDE DEF s
  <2> QED
    BY <1>1, <2>1, <2>2, TypeFolds
<1>5. ASSUME NEW q \in Filters, TypeFilter(q) PROVE TypeOK' /\ Traffic'
  <2> DEFINE s == Edited(Clicked, q)
  <2>1. Click(Folded(s), FoldRequest(s)) /\ UNCHANGED switch
    BY <1>5 DEF TypeFilter
  <2>2. s \in Stores /\ s.issued = page.issued /\ s.compactSeq = page.compactSeq
        /\ page.filterReq <= s.filterReq
    BY <1>1, <1>2, EditedFields DEF Fold
  <2> HIDE DEF s
  <2> QED
    BY <2>1, <2>2, TypeFolds
<1>6. ASSUME NEW k \in Keys, OpenDetail(k) PROVE TypeOK' /\ Traffic'
  <2>0. PICK id, n : id = page.issued + 1 /\ n = Ask("memo", k, id)
    OBVIOUS
  <2> DEFINE slot == [id |-> id, is |-> None]
  <2>1. /\ page' = [Clicked EXCEPT !.memo[k] = slot, !.issued = id]
        /\ net' = net \cup {n} /\ UNCHANGED <<served, announced, switch>>
    BY <1>6, <2>0 DEF OpenDetail, Click
  <2>2. id \in Nat /\ slot \in Promise(Readings)
    BY <1>1, <2>0 DEF Promise
  <2> HIDE DEF slot
  <2>3. page' \in Stores /\ page'.issued = id /\ page'.compactSeq = page.compactSeq
        /\ page'.filterReq = page.filterReq
    BY <1>2, <2>1, <2>2 DEF Stores
  <2>4. n \in Message /\ n.what = "memo" /\ n.on = k /\ n.id = id /\ n.since = served /\ n.about = None
    BY <2>0, <2>2 DEF Ask, Message, TypeOK
  <2>5. page.issued <= id
    BY <1>1, <2>0
  <2>6. Fits(n)'
    BY <2>1, <2>2, <2>3, <2>4, AskedFits
  <2>7. \A p \in net' : p \in net \/ (p \in Message /\ Fits(p)')
    BY <2>1, <2>4, <2>6
  <2>8. switch' \in [Switchers -> {"idle", "opening", "loading"}]
    BY <2>1 DEF TypeOK
  <2> QED
    BY <1>1, <2>1, <2>3, <2>5, <2>7, <2>8, PageSteps
<1>7. CASE TimerFires
  <2>0. PICK n : n = Ask("filter", page.query, page.filterReq)
    OBVIOUS
  <2>1. /\ page' = [page EXCEPT !.timer = FALSE] /\ net' = net \cup {n}
        /\ UNCHANGED <<served, switch, announced>>
    BY <1>7, <2>0 DEF TimerFires
  <2>2. page' \in Stores /\ page'.issued = page.issued /\ page'.compactSeq = page.compactSeq
        /\ page'.filterReq = page.filterReq
    BY <1>1, <2>1 DEF Stores
  <2>3. page.query \in Filters /\ served \in Readings
    BY <1>1 DEF Stores, TypeOK
  <2>4. n \in Message /\ n.what = "filter" /\ n.on \in Filters /\ n.id = page.filterReq
        /\ n.since = served /\ n.about = None
    BY <1>1, <2>0, <2>3 DEF Ask, Message
  <2>5. Fits(n)'
    BY <1>1, <2>1, <2>2, <2>4, AskedFits
  <2>6. \A p \in net' : p \in net \/ (p \in Message /\ Fits(p)')
    BY <2>1, <2>4, <2>5
  <2>7. switch' \in [Switchers -> {"idle", "opening", "loading"}]
    BY <2>1 DEF TypeOK
  <2> QED
    BY <1>1, <2>1, <2>2, <2>6, <2>7, PageSteps
<1> QED
  BY <1>3, <1>4, <1>5, <1>6, <1>7

LEMMA TypeStep == TypeOK /\ Traffic /\ [Next]_vars => (TypeOK /\ Traffic)'
PROOF
<1> SUFFICES ASSUME TypeOK, Traffic, [Next]_vars PROVE (TypeOK /\ Traffic)'
  OBVIOUS
<1>1. CASE UNCHANGED vars
  BY <1>1 DEF vars, TypeOK, Traffic, Fits
<1>2. ASSUME NEW m \in net, RespondOpen(m) \/ Arrival(m) PROVE TypeOK' /\ Traffic'
  BY <1>2, TypeOpens, TypeTree, TypeOpenArrives, TypeAnswers DEF Arrival
<1> QED
  BY <1>1, <1>2, TypeOthers, TypeUser DEF Next

\* Every store of the page, and every message, keeps its type.
THEOREM TypeCorrect == Spec => []TypeOK
PROOF
  BY TypeInit, TypeStep, PTL DEF Spec

(***************************************************************************)
(* The handlers that do several things before their next await.            *)
(***************************************************************************)

LEMMA TreeArrivesDoes ==
  ASSUME TypeOK, NEW m \in net, TreeArrives(m)
  PROVE  \E s1 \in Stores, s2 \in Stores, folds \in SUBSET Message :
           /\ Fold(s1) = Fold(page) /\ Filter(s1) = Filter(page) /\ Caches(s1) = Caches(page)
           /\ s1.issued = page.issued /\ s1.compact = page.compact /\ s1.query = page.query
           /\ \/ s1.tree = page.tree /\ s2 = s1 /\ folds = {}
              \/ s2 = Folded(s1) /\ folds = FoldRequest(s1)
           /\ page' = StatsAsked(s2) /\ net' = (net \ {m}) \cup StatsRequest(s2) \cup folds
           /\ m.what = "tree" /\ UNCHANGED <<served, announced>>
PROOF
<1>1. PICK about \in Answers(m) :
        LET s1 == IF about = Failed THEN [page EXCEPT !.treeError = TRUE]
                                    ELSE [page EXCEPT !.tree = about]
            folds == about # Failed
            s2 == IF folds THEN Folded(s1) ELSE s1
        IN  Update(StatsAsked(s2),
                   StatsRequest(s2) \cup (IF folds THEN FoldRequest(s1) ELSE {}), m)
  BY DEF TreeArrives
<1> DEFINE s1 == IF about = Failed THEN [page EXCEPT !.treeError = TRUE]
                                   ELSE [page EXCEPT !.tree = about]
           s2 == IF about # Failed THEN Folded(s1) ELSE s1
           folds == IF about # Failed THEN FoldRequest(s1) ELSE {}
<1>2. about \in Readings \cup {Failed}
  BY AnswersAre
<1>3. /\ s1 \in Stores
      /\ Fold(s1) = Fold(page) /\ Filter(s1) = Filter(page) /\ Caches(s1) = Caches(page)
      /\ s1.issued = page.issued /\ s1.compact = page.compact /\ s1.query = page.query
      /\ about = Failed => s1.tree = page.tree
  BY <1>2 DEF TypeOK, Stores, Fold, Filter, Caches
<1>4. /\ page' = StatsAsked(s2) /\ net' = (net \ {m}) \cup StatsRequest(s2) \cup folds
      /\ m.what = "tree" /\ UNCHANGED <<served, announced>>
  BY <1>1 DEF Update, TreeArrives
<1> HIDE DEF s1
<1>5. s2 \in Stores /\ folds \in SUBSET Message
  BY <1>3, FoldedFields, FoldRequests
<1>6. \/ s1.tree = page.tree /\ s2 = s1 /\ folds = {}
      \/ s2 = Folded(s1) /\ folds = FoldRequest(s1)
  BY <1>3
<1> HIDE DEF s2, folds
<1> QED
  BY <1>3, <1>4, <1>5, <1>6

LEMMA OpenArrivesDoes ==
  ASSUME TypeOK, NEW m \in net, OpenArrives(m)
  PROVE  \E reset \in Stores :
           /\ Fold(reset) = Fold(page) /\ reset.issued = page.issued
           /\ reset.query = NoQuery /\ reset.matches = None /\ ~ reset.filterError
           /\ \/ page.query = NoQuery /\ reset.filterReq = page.filterReq /\ reset.timer = page.timer
              \/ page.query # NoQuery /\ reset.filterReq = page.filterReq + 1 /\ ~ reset.timer
           /\ page' = TreeAsked(Forgotten(Folded(reset)))
           /\ net' = (net \ {m}) \cup FoldRequest(reset)
                        \cup TreeRequest(m.on, Forgotten(Folded(reset)))
           /\ m.what = "open" /\ UNCHANGED served
PROOF
<1> DEFINE quiet == [page EXCEPT !.opening = FALSE]
           edited == Edited(quiet, NoQuery)
           reset == [edited EXCEPT !.matches = None, !.filterError = FALSE, !.resolvedFor = NoQuery]
<1>1. /\ m.what = "open"
      /\ page' = TreeAsked(Forgotten(Folded(reset)))
      /\ net' = (net \ {m}) \cup FoldRequest(reset)
                  \cup TreeRequest(m.on, Forgotten(Folded(reset)))
      /\ UNCHANGED served
  BY DEF OpenArrives
<1>2. NoQuery \in Filters
  BY DEF Filters
<1>3. quiet \in Stores /\ Fold(quiet) = Fold(page) /\ quiet.issued = page.issued
      /\ quiet.query = page.query /\ quiet.filterReq = page.filterReq /\ quiet.timer = page.timer
  BY DEF TypeOK, Stores, Fold
<1> HIDE DEF quiet
<1>4. edited \in Stores /\ Fold(edited) = Fold(page) /\ edited.issued = page.issued
      /\ edited.query = NoQuery
      /\ \/ page.query = NoQuery /\ edited.filterReq = page.filterReq /\ edited.timer = page.timer
         \/ page.query # NoQuery /\ edited.filterReq = page.filterReq + 1 /\ ~ edited.timer
  BY <1>2, <1>3, EditedFields
<1> HIDE DEF edited
<1>5. /\ reset \in Stores /\ Fold(reset) = Fold(edited) /\ reset.issued = edited.issued
      /\ reset.query = edited.query /\ reset.filterReq = edited.filterReq
      /\ reset.timer = edited.timer /\ reset.matches = None /\ ~ reset.filterError
  BY <1>2, <1>4 DEF Stores, Fold
<1> HIDE DEF reset
<1> QED
  BY <1>1, <1>4, <1>5

LEMMA FoldsDo ==
  ASSUME TypeOK, ToggleCompact \/ \E q \in Filters : TypeFilter(q)
  PROVE  \E s \in Stores :
           /\ Fold(s) = Fold(page) /\ Caches(s) = Caches(page) /\ s.issued = page.issued
           /\ \/ Filter(s) = Filter(page) /\ s.query = page.query
              \/ \E q \in Filters, c \in Stores :
                    /\ q # page.query /\ s = Edited(c, q) /\ Filter(c) = Filter(page)
                    /\ c.query = page.query
           /\ page' = Folded(s) /\ net' = net \cup FoldRequest(s) /\ UNCHANGED <<served, announced>>
PROOF
<1>1. CASE ToggleCompact
  <2> DEFINE s == [Clicked EXCEPT !.compact = ~@]
  <2>1. /\ page' = Folded(s) /\ net' = net \cup FoldRequest(s) /\ UNCHANGED <<served, announced>>
    BY <1>1 DEF ToggleCompact, Click
  <2>2. /\ s \in Stores /\ s.query = page.query /\ Fold(s) = Fold(page)
        /\ Filter(s) = Filter(page) /\ Caches(s) = Caches(page) /\ s.issued = page.issued
    BY ToggledFields
  <2> HIDE DEF s
  <2> QED
    BY <2>1, <2>2
<1>2. ASSUME NEW q \in Filters, TypeFilter(q)
      PROVE  \E s \in Stores :
               /\ Fold(s) = Fold(page) /\ Caches(s) = Caches(page) /\ s.issued = page.issued
               /\ \E c \in Stores :
                    /\ q # page.query /\ s = Edited(c, q) /\ Filter(c) = Filter(page)
                    /\ c.query = page.query
               /\ page' = Folded(s) /\ net' = net \cup FoldRequest(s)
               /\ UNCHANGED <<served, announced>>
  <2> DEFINE s == Edited(Clicked, q)
  <2>1. /\ page' = Folded(s) /\ net' = net \cup FoldRequest(s) /\ UNCHANGED <<served, announced>>
        /\ q # page.query
    BY <1>2 DEF TypeFilter, Click
  <2>2. /\ Clicked \in Stores /\ Filter(Clicked) = Filter(page) /\ Clicked.query = page.query
        /\ Fold(Clicked) = Fold(page) /\ Caches(Clicked) = Caches(page)
        /\ Clicked.issued = page.issued
    BY ClickedFields DEF View
  <2>3. s \in Stores /\ Fold(s) = Fold(page) /\ Caches(s) = Caches(page) /\ s.issued = page.issued
    BY <2>2, EditedFields
  <2>4. s = Edited(Clicked, q)
    OBVIOUS
  <2> HIDE DEF s
  <2> QED
    BY <2>1, <2>2, <2>3, <2>4
<1> QED
  BY <1>1, <1>2

(***************************************************************************)
(* The caches.                                                             *)
(***************************************************************************)

\* A request for the slot that is kept was sent after the last switch.
Caching ==
    /\ \A m \in net :
          (m.what = "memo" /\ page.memo[m.on] # None /\ page.memo[m.on].id = m.id)
            => m.since >= announced
    /\ \A m \in net :
          (m.what = "stats" /\ page.stats # None /\ page.stats.id = m.id)
            => m.since >= announced
    /\ KeptAnswersAreCurrent

LEMMA CachesLeft ==
  ASSUME Caching, Caches(page') = Caches(page), announced' = announced,
         \A n \in net' : n.what \in {"memo", "stats"} => n \in net
  PROVE  Caching'
PROOF
<1>1. page'.memo = page.memo /\ page'.stats = page.stats
  BY DEF Caches
<1> QED
  BY <1>1 DEF Caching, KeptAnswersAreCurrent, Settled

LEMMA CachingTree ==
  ASSUME TypeOK, Traffic, Caching, NEW m \in net, TreeArrives(m)
  PROVE  Caching'
PROOF
<1>1. PICK s1 \in Stores, s2 \in Stores, folds \in SUBSET Message :
        /\ Fold(s1) = Fold(page) /\ Filter(s1) = Filter(page) /\ Caches(s1) = Caches(page)
        /\ s1.issued = page.issued /\ s1.compact = page.compact /\ s1.query = page.query
        /\ \/ s1.tree = page.tree /\ s2 = s1 /\ folds = {}
           \/ s2 = Folded(s1) /\ folds = FoldRequest(s1)
        /\ page' = StatsAsked(s2) /\ net' = (net \ {m}) \cup StatsRequest(s2) \cup folds
        /\ m.what = "tree" /\ UNCHANGED <<served, announced>>
  BY TreeArrivesDoes
<1>2. Caches(s2) = Caches(page) /\ s2.issued = page.issued
  BY <1>1, FoldedFields
<1>3. \A n \in folds : n.what = "compact"
  BY <1>1, FoldRequests
<1>4. page'.memo = page.memo
  BY <1>1, <1>2, StatsAskedFields DEF Caches
<1>5. CASE ~ StatsDue(s2)
  <2>1. page' = s2 /\ StatsRequest(s2) = {}
    BY <1>1, <1>5, StatsAskedFields DEF StatsRequest
  <2> QED
    BY <1>1, <1>2, <1>3, <2>1, CachesLeft
<1>6. CASE StatsDue(s2)
  <2>1. page'.stats = [id |-> page.issued + 1, is |-> None]
    BY <1>1, <1>2, <1>6, StatsAskedFields
  <2>2. page'.stats.id = page.issued + 1 /\ page'.stats.is = None
    BY <2>1
  <2>3. \A n \in StatsRequest(s2) : n.what = "stats" /\ n.since = served
    BY <1>1, StatsRequests
  <2>4. served >= announced /\ page.issued \in Nat
    BY CountersAre, Markers DEF Traffic, TypeOK
  <2>5. \A n \in net : n.what = "stats" => n.id \in Nat /\ n.id <= page.issued
    BY DEF Traffic, Fits, TypeOK, Message
  <2>6. \A n \in net' : (n.what = "stats" /\ page'.stats.id = n.id) => n.since >= announced
    BY <1>1, <1>3, <2>2, <2>3, <2>4, <2>5
  <2>7. \A n \in net' : n.what = "memo" => n \in net
    BY <1>1, <1>3, <2>3
  <2>8. KeptAnswersAreCurrent'
    BY <1>1, <1>4, <2>2 DEF Caching, KeptAnswersAreCurrent, Settled
  <2> QED
    BY <1>1, <1>4, <2>6, <2>7, <2>8 DEF Caching
<1> QED
  BY <1>5, <1>6

LEMMA CachingStats ==
  ASSUME TypeOK, Traffic, Caching, NEW m \in net, StatsArrive(m)
  PROVE  Caching'
PROOF
<1>1. PICK about \in Answers(m) :
        /\ page' = IF page.stats # None /\ page.stats.id = m.id
                   THEN [page EXCEPT !.stats.is = about] ELSE page
        /\ net' = net \ {m} /\ UNCHANGED <<served, announced>>
  BY DEF StatsArrive, Update
<1>2. page \in Stores
  BY DEF TypeOK
<1>3. CASE page.stats # None /\ page.stats.id = m.id
  <2>1. page.stats \in Promise(Answer)
    BY <1>2, <1>3 DEF Stores
  <2>2. page'.memo = page.memo /\ page'.stats = [page.stats EXCEPT !.is = about]
    BY <1>1, <1>2, <1>3 DEF Stores
  <2>3. page'.stats.id = page.stats.id /\ page'.stats.is = about
    BY <2>1, <2>2 DEF Promise
  <2>4. m.since >= announced
    BY <1>3 DEF Caching, StatsArrive
  <2>5. about # Failed => about >= announced
    BY <2>4, AnswersAre, Markers DEF TypeOK
  <2>6. KeptAnswersAreCurrent'
    BY <1>1, <2>2, <2>3, <2>5 DEF Caching, KeptAnswersAreCurrent, Settled
  <2>7. \A n \in net' : (n.what = "stats" /\ page'.stats.id = n.id) => n.since >= announced
    BY <1>1, <1>3, <2>3 DEF Caching
  <2> QED
    BY <1>1, <2>2, <2>6, <2>7 DEF Caching
<1>4. CASE ~ (page.stats # None /\ page.stats.id = m.id)
  BY <1>1, <1>4, CachesLeft
<1> QED
  BY <1>3, <1>4

LEMMA CachingMemo ==
  ASSUME TypeOK, Traffic, Caching, NEW m \in net, MemoArrives(m)
  PROVE  Caching'
PROOF
<1>1. PICK about \in Answers(m) :
        /\ page' = [page EXCEPT !.memo[m.on] = IF about = Failed THEN None ELSE Kept(@, m, about)]
        /\ net' = net \ {m} /\ UNCHANGED <<served, announced>>
  BY DEF MemoArrives, Update
<1>2. page \in Stores
  BY DEF TypeOK
<1>3. m.on \in Keys /\ m.what = "memo"
  BY DEF Traffic, Fits, MemoArrives
<1> DEFINE slot == page.memo[m.on]
           kept == IF about = Failed THEN None ELSE Kept(slot, m, about)
<1>4. page'.memo = [page.memo EXCEPT ![m.on] = kept] /\ page'.stats = page.stats
  BY <1>1, <1>2 DEF Stores
<1>5. \A k \in Keys : page'.memo[k] = IF k = m.on THEN kept ELSE page.memo[k]
  BY <1>2, <1>4 DEF Stores
<1>6. slot # None => slot \in Promise(Readings)
  BY <1>2, <1>3 DEF Stores
<1>7. kept # None => slot # None /\ kept.id = slot.id
  BY <1>6 DEF Kept, Promise
<1>8. Settled(kept) => kept.is >= announced
  <2>1. CASE slot # None /\ slot.id = m.id /\ about # Failed
    <3>1. m.since >= announced
      BY <1>3, <2>1 DEF Caching
    <3>2. about >= announced
      BY <2>1, <3>1, AnswersAre, Markers DEF TypeOK
    <3>3. kept.is = about
      BY <1>6, <2>1 DEF Kept, Promise
    <3> QED
      BY <3>2, <3>3
  <2>2. CASE ~ (slot # None /\ slot.id = m.id) /\ about # Failed
    <3>1. kept = slot
      BY <2>2 DEF Kept
    <3> QED
      BY <1>3, <3>1 DEF Caching, KeptAnswersAreCurrent
  <2>3. CASE about = Failed
    BY <2>3 DEF Settled
  <2> QED
    BY <2>1, <2>2, <2>3
<1> HIDE DEF kept
<1>9. KeptAnswersAreCurrent'
  <2>1. \A k \in Keys : Settled(page'.memo[k]) => page'.memo[k].is >= announced
    BY <1>5, <1>8 DEF Caching, KeptAnswersAreCurrent
  <2>2. Settled(page'.stats) /\ page'.stats.is # Failed => page'.stats.is >= announced
    BY <1>4 DEF Caching, KeptAnswersAreCurrent
  <2> QED
    BY <1>1, <2>1, <2>2 DEF KeptAnswersAreCurrent, Settled
<1>10. \A n \in net' : (n.what = "memo" /\ page'.memo[n.on] # None /\ page'.memo[n.on].id = n.id)
                         => n.since >= announced
  <2> SUFFICES ASSUME NEW n \in net', n.what = "memo", page'.memo[n.on] # None,
                      page'.memo[n.on].id = n.id
               PROVE  n.since >= announced
    OBVIOUS
  <2>1. n \in net /\ n.on \in Keys
    BY <1>1 DEF Traffic, Fits
  <2>2. page.memo[n.on] # None /\ page.memo[n.on].id = n.id
    BY <1>5, <1>7, <2>1
  <2> QED
    BY <2>1, <2>2 DEF Caching
<1> QED
  BY <1>1, <1>4, <1>9, <1>10 DEF Caching

LEMMA CachingOpen ==
  ASSUME TypeOK, Traffic, Traffic', NEW m \in net, OpenArrives(m)
  PROVE  Caching'
PROOF
<1>1. PICK reset \in Stores : page' = TreeAsked(Forgotten(Folded(reset)))
  BY OpenArrivesDoes
<1>2. Folded(reset) \in Stores
  BY FoldedFields
<1>3. Forgotten(Folded(reset)) \in Stores
  BY <1>2, ForgottenFields
<1>4. page'.stats = None /\ \A k \in Keys : page'.memo[k] = None
  BY <1>1, <1>2, <1>3, ForgottenFields, TreeAskedFields DEF Caches
<1>5. \A n \in net' : n.what = "memo" => n.on \in Keys
  BY DEF Traffic, Fits
<1> QED
  BY <1>4, <1>5 DEF Caching, KeptAnswersAreCurrent, Settled

LEMMA CachingDetail ==
  ASSUME TypeOK, Traffic, Caching, NEW k \in Keys, OpenDetail(k)
  PROVE  Caching'
PROOF
<1>1. PICK id, n : id = page.issued + 1 /\ n = Ask("memo", k, id)
  OBVIOUS
<1> DEFINE slot == [id |-> id, is |-> None]
<1>2. /\ page' = [Clicked EXCEPT !.memo[k] = slot, !.issued = id]
      /\ net' = net \cup {n} /\ UNCHANGED <<served, announced>>
  BY <1>1 DEF OpenDetail, Click
<1>3. Clicked \in Stores /\ Clicked.memo = page.memo /\ Clicked.stats = page.stats
  BY ClickedFields DEF Caches
<1> HIDE DEF slot
<1>4. page'.memo = [page.memo EXCEPT ![k] = slot] /\ page'.stats = page.stats
  BY <1>2, <1>3 DEF Stores
<1>5. page.memo \in [Keys -> Promise(Readings) \cup {None}]
  BY DEF TypeOK, Stores
<1>6. \A j \in Keys : page'.memo[j] = IF j = k THEN slot ELSE page.memo[j]
  BY <1>4, <1>5
<1>7. slot.id = id /\ slot.is = None
  BY DEF slot
<1>8. n.what = "memo" /\ n.since = served /\ served >= announced
  BY <1>1, Markers DEF Ask, Traffic, TypeOK
<1>9. \A p \in net : p.what = "memo" => p.on \in Keys /\ p.id # id
  <2>1. page.issued \in Nat
    BY CountersAre DEF TypeOK
  <2>2. \A p \in net : p.what = "memo" => p.on \in Keys /\ p.id \in Nat /\ p.id <= page.issued
    BY DEF Traffic, Fits, TypeOK, Message
  <2> QED
    BY <1>1, <2>1, <2>2
<1>10. KeptAnswersAreCurrent'
  BY <1>2, <1>4, <1>6, <1>7 DEF Caching, KeptAnswersAreCurrent, Settled
<1>11. \A p \in net' : (p.what = "memo" /\ page'.memo[p.on] # None /\ page'.memo[p.on].id = p.id)
                         => p.since >= announced
  BY <1>2, <1>6, <1>7, <1>8, <1>9 DEF Caching
<1>12. \A p \in net' : p.what = "stats" => p \in net
  BY <1>2, <1>8
<1> QED
  BY <1>2, <1>4, <1>10, <1>11, <1>12 DEF Caching

LEMMA CachingStep == TypeOK /\ Traffic /\ Caching /\ [Next]_vars => Caching'
PROOF
<1> SUFFICES ASSUME TypeOK, Traffic, Caching, [Next]_vars PROVE Caching'
  OBVIOUS
<1>0. Traffic' /\ page \in Stores
  BY TypeStep DEF TypeOK
<1>1. CASE UNCHANGED vars
  BY <1>1, CachesLeft DEF vars
<1>2. ASSUME NEW m \in net, RespondOpen(m) PROVE Caching'
  <2>1. PICK about : Outcome(m, about)
    BY <1>2 DEF RespondOpen
  <2>2. m \in Message /\ m.what = "open"
    BY <1>2 DEF TypeOK, RespondOpen
  <2>3. \A n \in net' : n.what \in {"memo", "stats"} => n \in net
    BY <2>1, <2>2 DEF Outcome, Message
  <2> QED
    BY <1>2, <2>3, CachesLeft DEF RespondOpen
<1>3. ASSUME NEW m \in net, CompactArrives(m) \/ FilterArrives(m) \/ Superseded(m) \/ OpenRejected(m)
      PROVE  Caching'
  <2>1. Caches(page') = Caches(page)
    BY <1>0, <1>3 DEF CompactArrives, FilterArrives, Superseded, OpenRejected, Update, Stores, Caches
  <2>2. net' \subseteq net /\ announced' = announced
    BY <1>3 DEF CompactArrives, FilterArrives, Superseded, OpenRejected, Update
  <2> QED
    BY <2>1, <2>2, CachesLeft
<1>4. CASE OthersOpen
  BY <1>4, CachesLeft DEF OthersOpen
<1>5. ASSUME NEW by \in Switchers, SubmitOpen(by) PROVE Caching'
  <2>1. page' = [Clicked EXCEPT !.opening = TRUE] /\ net' = net \cup {Ask("open", by, 0)}
        /\ announced' = announced
    BY <1>5 DEF SubmitOpen, Click
  <2>2. Caches(page') = Caches(page)
    BY <2>1, ClickedFields DEF Stores, Caches
  <2>3. \A n \in net' : n.what \in {"memo", "stats"} => n \in net
    BY <2>1 DEF Ask
  <2> QED
    BY <2>1, <2>2, <2>3, CachesLeft
<1>6. CASE ToggleCompact \/ \E q \in Filters : TypeFilter(q)
  <2>1. PICK s \in Stores :
          /\ Caches(s) = Caches(page)
          /\ page' = Folded(s) /\ net' = net \cup FoldRequest(s) /\ announced' = announced
    BY <1>6, FoldsDo
  <2>2. \A n \in FoldRequest(s) : n.what = "compact"
    BY FoldRequests
  <2> QED
    BY <2>1, <2>2, FoldedFields, CachesLeft
<1>7. CASE TimerFires
  <2>1. page' = [page EXCEPT !.timer = FALSE] /\ announced' = announced
        /\ net' = net \cup {Ask("filter", page.query, page.filterReq)}
    BY <1>7 DEF TimerFires
  <2>2. Caches(page') = Caches(page)
    BY <1>0, <2>1 DEF Stores, Caches
  <2>3. \A n \in net' : n.what \in {"memo", "stats"} => n \in net
    BY <2>1 DEF Ask
  <2> QED
    BY <2>1, <2>2, <2>3, CachesLeft
<1> QED
  BY <1>0, <1>1, <1>2, <1>3, <1>4, <1>5, <1>6, <1>7, CachingTree, CachingStats, CachingMemo,
     CachingOpen, CachingDetail DEF Next, Arrival

\* No answer that is kept is about a checkpoint from before the last switch:
\* whatever overtakes what, a late answer finds its slot gone.
THEOREM KeptIsCurrent == Spec => []KeptAnswersAreCurrent
PROOF
<1>1. Init => Caching
  <2> SUFFICES ASSUME Init PROVE Caching
    OBVIOUS
  <2>1. \A n \in net : n.what = "tree"
    BY DEF Init, TreeRequest, Ask
  <2>2. FreshStores \in Stores /\ FreshStores.stats = None
        /\ \A k \in Keys : FreshStores.memo[k] = None
    BY DEF FreshStores, Stores, Filters
  <2>3. page.stats = None /\ \A k \in Keys : page.memo[k] = None
    BY <2>2, TreeAskedFields DEF Init, Caches
  <2> QED
    BY <2>1, <2>3 DEF Caching, KeptAnswersAreCurrent, Settled
<1>2. Caching => KeptAnswersAreCurrent
  BY DEF Caching
<1> QED
  BY <1>1, <1>2, TypeInit, TypeStep, CachingStep, PTL DEF Spec

(***************************************************************************)
(* The fold.                                                               *)
(***************************************************************************)

Newest(m) == m.what = "compact" /\ m.id = page.compactSeq

\* `last` is the filter in the box while there is something to fold, and the
\* newest fetch is for it, as is what its answer leaves behind.
Folding ==
    /\ page.compact /\ page.tree # None => page.folded = page.query
    /\ \A m \in net : Newest(m) => /\ m.since >= announced
                                   /\ page.folded # None => m.on = page.folded
    /\ page.compactTree # None =>
          /\ page.compactTree.about >= announced
          /\ page.folded # None => \/ page.compactTree.on = page.folded
                                   \/ \E m \in net : Newest(m)

LEMMA FoldingIs == TypeOK /\ Folding => FoldIsCurrent
PROOF
<1>1. TypeOK => page.query # None
  BY Markers DEF TypeOK, Stores
<1> QED
  BY <1>1 DEF Folding, FoldIsCurrent, Newest

LEMMA FoldLeft ==
  ASSUME Folding, Fold(page') = Fold(page), announced' = announced,
         page'.compact = page.compact, page'.tree = page.tree, page'.query = page.query,
         \A n \in net' : n.what = "compact" => n \in net,
         \A n \in net : Newest(n) => n \in net'
  PROVE  Folding'
PROOF
<1>1. /\ page'.folded = page.folded /\ page'.compactTree = page.compactTree
      /\ page'.compactSeq = page.compactSeq
  BY DEF Fold
<1> QED
  BY <1>1 DEF Folding, Newest

\* foldWhenCompact leaves it so, whatever changed before it ran.
LEMMA FoldingFolds ==
  ASSUME TypeOK, Traffic, Folding, NEW s \in Stores, Fold(s) = Fold(page),
         Fold(page') = Fold(Folded(s)), View(page') = View(s), announced' = announced,
         \A n \in net' : n.what = "compact" => n \in net \/ n \in FoldRequest(s),
         \A n \in net : n.what = "compact" => n \in net',
         FoldRequest(s) \subseteq net'
  PROVE  Folding'
PROOF
<1>1. /\ s.folded = page.folded /\ s.compactTree = page.compactTree
      /\ s.compactSeq = page.compactSeq
      /\ page'.compact = s.compact /\ page'.tree = s.tree /\ page'.query = s.query
  BY DEF Fold, View
<1>2. /\ page'.folded = Folded(s).folded /\ page'.compactTree = page.compactTree
      /\ page'.compactSeq = Folded(s).compactSeq
  BY <1>1, FoldedFields DEF Fold
<1>3. page.compactSeq \in Nat
  BY CountersAre DEF TypeOK
<1>4. CASE FoldDue(s)
  <2>1. page'.compactSeq = page.compactSeq + 1 /\ page'.folded = page'.query
    BY <1>1, <1>2, <1>4, FoldedFields
  <2>2. \A n \in net : n.what = "compact" => n.id # page'.compactSeq
    <3>1. \A n \in net : n.what = "compact" => n.id \in Nat /\ n.id <= page.compactSeq
      BY DEF Traffic, Fits, TypeOK, Message
    <3> QED
      BY <1>3, <2>1, <3>1
  <2>3. \A n \in FoldRequest(s) : n.what = "compact" /\ n.on = page'.query /\ n.since = served
                                    /\ n.id = page'.compactSeq
    BY <1>1, <2>1, FoldRequests
  <2>4. served >= announced
    BY Markers DEF TypeOK, Traffic
  <2>5. \E n \in net' : Newest(n)'
    <3>1. PICK n : n \in FoldRequest(s)
      BY <1>4 DEF FoldRequest
    <3> QED
      BY <2>3, <3>1 DEF Newest
  <2>6. \A n \in net' : Newest(n)' => n.since >= announced /\ n.on = page'.folded
    BY <2>1, <2>2, <2>3, <2>4 DEF Newest
  <2>7. page'.compactTree # None => page'.compactTree.about >= announced
    BY <1>2 DEF Folding
  <2> QED
    BY <2>1, <2>5, <2>6, <2>7 DEF Folding
<1>5. CASE ~ FoldDue(s)
  <2>1. /\ page'.compactSeq = page.compactSeq /\ FoldRequest(s) = {}
        /\ page'.folded = IF s.compact /\ s.tree # None THEN page.folded ELSE None
    BY <1>1, <1>2, <1>5, FoldedFields DEF FoldRequest
  <2>2. s.compact /\ s.tree # None => s.query = s.folded
    BY <1>5 DEF FoldDue
  <2>3. \A n \in net' : Newest(n)' => n \in net /\ Newest(n)
    BY <2>1 DEF Newest
  <2>4. \A n \in net : Newest(n) => n \in net' /\ Newest(n)'
    BY <2>1 DEF Newest
  <2>5. page'.folded # None => page'.folded = page.folded
    BY <2>1
  <2>6. page'.compact /\ page'.tree # None => page'.folded = page'.query
    BY <1>1, <2>1, <2>2
  <2>7. \A n \in net' : Newest(n)' => /\ n.since >= announced
                                      /\ page'.folded # None => n.on = page'.folded
    BY <2>3, <2>5 DEF Folding
  <2>8. page'.compactTree # None =>
          /\ page'.compactTree.about >= announced
          /\ page'.folded # None => \/ page'.compactTree.on = page'.folded
                                    \/ \E n \in net' : Newest(n)'
    BY <1>2, <2>4, <2>5 DEF Folding
  <2> QED
    BY <2>6, <2>7, <2>8 DEF Folding
<1> QED
  BY <1>4, <1>5

LEMMA FoldingTree ==
  ASSUME TypeOK, Traffic, Folding, NEW m \in net, TreeArrives(m)
  PROVE  Folding'
PROOF
<1>1. PICK s1 \in Stores, s2 \in Stores, folds \in SUBSET Message :
        /\ Fold(s1) = Fold(page) /\ Filter(s1) = Filter(page) /\ Caches(s1) = Caches(page)
        /\ s1.issued = page.issued /\ s1.compact = page.compact /\ s1.query = page.query
        /\ \/ s1.tree = page.tree /\ s2 = s1 /\ folds = {}
           \/ s2 = Folded(s1) /\ folds = FoldRequest(s1)
        /\ page' = StatsAsked(s2) /\ net' = (net \ {m}) \cup StatsRequest(s2) \cup folds
        /\ m.what = "tree" /\ UNCHANGED <<served, announced>>
  BY TreeArrivesDoes
<1>2. View(page') = View(s2) /\ Fold(page') = Fold(s2)
  BY <1>1, StatsAskedFields
<1>3. \A n \in StatsRequest(s2) : n.what = "stats"
  BY <1>1, StatsRequests
<1>4. /\ \A n \in net' : n.what = "compact" => n \in net \/ n \in folds
      /\ \A n \in net : n.what = "compact" => n \in net'
      /\ folds \subseteq net'
  BY <1>1, <1>3
<1>5. CASE s1.tree = page.tree /\ s2 = s1 /\ folds = {}
  <2>1. /\ page'.compact = page.compact /\ page'.tree = page.tree /\ page'.query = page.query
    BY <1>1, <1>2, <1>5 DEF View
  <2> QED
    BY <1>1, <1>2, <1>4, <1>5, <2>1, FoldLeft DEF Newest
<1>6. CASE s2 = Folded(s1) /\ folds = FoldRequest(s1)
  <2>1. View(page') = View(s1) /\ Fold(page') = Fold(Folded(s1))
    BY <1>1, <1>2, <1>6, FoldedFields
  <2> QED
    BY <1>1, <1>4, <1>6, <2>1, FoldingFolds
<1> QED
  BY <1>1, <1>5, <1>6

LEMMA FoldingCompact ==
  ASSUME TypeOK, Traffic, Folding, NEW m \in net, CompactArrives(m)
  PROVE  Folding'
PROOF
<1>1. PICK about \in Answers(m) :
        /\ page' = IF about = Failed
                   THEN [page EXCEPT !.compactTree = None, !.compactError = TRUE]
                   ELSE [page EXCEPT !.compactTree = Stored(m, about)]
        /\ net' = net \ {m} /\ UNCHANGED <<served, announced>>
  BY DEF CompactArrives, Update
<1>2. page \in Stores /\ Newest(m)
  BY DEF TypeOK, CompactArrives, Newest
<1>3. /\ page'.compact = page.compact /\ page'.tree = page.tree /\ page'.query = page.query
      /\ page'.folded = page.folded /\ page'.compactSeq = page.compactSeq
      /\ page'.compactTree = IF about = Failed THEN None ELSE Stored(m, about)
  BY <1>1, <1>2 DEF Stores
<1>4. m.since >= announced /\ (page.folded # None => m.on = page.folded)
  BY <1>2 DEF Folding
<1>5. about # Failed => about >= announced
  <2>1. announced \in Nat
    BY Markers DEF TypeOK
  <2>2. about # Failed => m.since \in Nat /\ about \in Nat /\ m.since <= about
    BY AnswersAre
  <2> QED
    BY <1>4, <2>1, <2>2
<1>6. about # Failed => page'.compactTree.about = about /\ page'.compactTree.on = m.on
  BY <1>3 DEF Stored
<1> QED
  BY <1>1, <1>3, <1>4, <1>5, <1>6 DEF Folding, Newest

LEMMA FoldingOpen ==
  ASSUME TypeOK, Traffic, NEW m \in net, OpenArrives(m)
  PROVE  Folding'
PROOF
<1>1. PICK reset \in Stores :
        /\ Fold(reset) = Fold(page)
        /\ page' = TreeAsked(Forgotten(Folded(reset)))
        /\ net' = (net \ {m}) \cup FoldRequest(reset)
                      \cup TreeRequest(m.on, Forgotten(Folded(reset)))
        /\ m.what = "open"
  BY OpenArrivesDoes
<1>2. Folded(reset) \in Stores
  BY FoldedFields
<1>3. Forgotten(Folded(reset)) \in Stores
  BY <1>2, ForgottenFields
<1>4. /\ page'.folded = None /\ page'.tree = None /\ page'.compactTree = None
      /\ page'.compactSeq = Folded(reset).compactSeq + 1
  BY <1>1, <1>2, <1>3, ForgottenFields, TreeAskedFields DEF Fold, View
<1>5. page.compactSeq \in Nat /\ reset.compactSeq = page.compactSeq
  BY <1>1, CountersAre DEF TypeOK, Fold
<1>6. /\ FoldDue(reset) => page'.compactSeq = page.compactSeq + 1 + 1
      /\ ~ FoldDue(reset) => page'.compactSeq = page.compactSeq + 1
  BY <1>4, <1>5, FoldedFields
<1>7. \A n \in net : n.what = "compact" => n.id \in Nat /\ n.id <= page.compactSeq
  BY DEF Traffic, Fits, TypeOK, Message
<1>8. \A n \in FoldRequest(reset) : FoldDue(reset) /\ n.id = page.compactSeq + 1
  BY <1>5, FoldRequests
<1>9. \A n \in TreeRequest(m.on, Forgotten(Folded(reset))) : n.what = "tree"
  BY DEF TreeRequest, Ask
<1>10. \A n \in net' : n.what = "compact" => n.id # page'.compactSeq
  BY <1>1, <1>5, <1>6, <1>7, <1>8, <1>9
<1> QED
  BY <1>4, <1>10 DEF Folding, Newest

LEMMA FoldingStep == TypeOK /\ Traffic /\ Folding /\ [Next]_vars => Folding'
PROOF
<1> SUFFICES ASSUME TypeOK, Traffic, Folding, [Next]_vars PROVE Folding'
  OBVIOUS
<1>0. page \in Stores
  BY DEF TypeOK
<1>1. CASE UNCHANGED vars
  BY <1>1, FoldLeft DEF vars
<1>2. ASSUME NEW m \in net, RespondOpen(m) PROVE Folding'
  <2>1. PICK about : Outcome(m, about)
    BY <1>2 DEF RespondOpen
  <2>2. m \in Message /\ m.what = "open"
    BY <1>2 DEF TypeOK, RespondOpen
  <2>3. /\ \A n \in net' : n.what = "compact" => n \in net
        /\ \A n \in net : n.what = "compact" => n \in net'
    BY <2>1, <2>2 DEF Outcome, Message
  <2> QED
    BY <1>2, <2>3, FoldLeft DEF RespondOpen, Newest
<1>3. ASSUME NEW m \in net,
             FilterArrives(m) \/ Superseded(m) \/ StatsArrive(m) \/ MemoArrives(m) \/ OpenRejected(m)
      PROVE  Folding'
  <2>1. /\ Fold(page') = Fold(page) /\ page'.compact = page.compact /\ page'.tree = page.tree
        /\ announced' = announced /\ net' = net \ {m}
    BY <1>0, <1>3 DEF FilterArrives, Superseded, StatsArrive, MemoArrives, OpenRejected, Update,
                      Stores, Fold
  <2>2. page'.query = page.query
    BY <1>0, <1>3 DEF FilterArrives, Superseded, StatsArrive, MemoArrives, OpenRejected, Update,
                      Stores
  <2>3. ~ Newest(m)
    BY <1>3 DEF FilterArrives, Superseded, StatsArrive, MemoArrives, OpenRejected, Newest
  <2> QED
    BY <2>1, <2>2, <2>3, FoldLeft
<1>4. CASE OthersOpen
  BY <1>4, FoldLeft DEF OthersOpen
<1>5. ASSUME NEW by \in Switchers, SubmitOpen(by) PROVE Folding'
  <2>1. page' = [Clicked EXCEPT !.opening = TRUE] /\ net' = net \cup {Ask("open", by, 0)}
        /\ announced' = announced
    BY <1>5 DEF SubmitOpen, Click
  <2>2. Fold(page') = Fold(page) /\ View(page') = View(page)
    BY <2>1, ClickedFields DEF Stores, Fold, View
  <2>3. \A n \in net' : n.what = "compact" => n \in net
    BY <2>1 DEF Ask
  <2> QED
    BY <2>1, <2>2, <2>3, FoldLeft DEF View
<1>6. CASE ToggleCompact \/ \E q \in Filters : TypeFilter(q)
  <2>1. PICK s \in Stores :
          /\ Fold(s) = Fold(page)
          /\ page' = Folded(s) /\ net' = net \cup FoldRequest(s) /\ announced' = announced
    BY <1>6, FoldsDo
  <2> QED
    BY <2>1, FoldedFields, FoldingFolds
<1>7. ASSUME NEW k \in Keys, OpenDetail(k) PROVE Folding'
  <2>1. PICK id, slot : page' = [Clicked EXCEPT !.memo[k] = slot, !.issued = id]
                        /\ net' = net \cup {Ask("memo", k, id)} /\ announced' = announced
    BY <1>7 DEF OpenDetail, Click
  <2>2. Fold(page') = Fold(page) /\ View(page') = View(page)
    BY <2>1, ClickedFields DEF Stores, Fold, View
  <2>3. \A n \in net' : n.what = "compact" => n \in net
    BY <2>1 DEF Ask
  <2> QED
    BY <2>1, <2>2, <2>3, FoldLeft DEF View
<1>8. CASE TimerFires
  <2>1. page' = [page EXCEPT !.timer = FALSE] /\ announced' = announced
        /\ net' = net \cup {Ask("filter", page.query, page.filterReq)}
    BY <1>8 DEF TimerFires
  <2>2. Fold(page') = Fold(page) /\ View(page') = View(page)
    BY <1>0, <2>1 DEF Stores, Fold, View
  <2>3. \A n \in net' : n.what = "compact" => n \in net
    BY <2>1 DEF Ask
  <2> QED
    BY <2>1, <2>2, <2>3, FoldLeft DEF View
<1> QED
  BY <1>1, <1>2, <1>3, <1>4, <1>5, <1>6, <1>7, <1>8, FoldingTree, FoldingCompact, FoldingOpen
     DEF Next, Arrival

LEMMA PageInit ==
  ASSUME Init
  PROVE  /\ page.tree = None /\ page.compactTree = None /\ page.matches = None
         /\ ~ page.timer /\ ~ page.filterError
         /\ \A n \in net : n.what = "tree"
PROOF
<1>1. FreshStores \in Stores
  BY DEF FreshStores, Stores, Filters
<1>2. /\ FreshStores.tree = None /\ FreshStores.compactTree = None /\ FreshStores.matches = None
      /\ FreshStores.timer = FALSE /\ FreshStores.filterError = FALSE
  BY DEF FreshStores
<1>3. page = TreeAsked(FreshStores)
  BY DEF Init
<1>4. \A n \in net : n.what = "tree"
  BY DEF Init, TreeRequest, Ask
<1> QED
  BY <1>1, <1>2, <1>3, <1>4, TreeAskedFields DEF View, Fold, Filter

\* The folded tree on screen is the current checkpoint's, and the fold for the
\* filter in the box unless a newer one is on its way.
THEOREM FoldStaysCurrent == Spec => []FoldIsCurrent
PROOF
<1>1. Init => Folding
  BY PageInit DEF Folding, Newest
<1> QED
  BY <1>1, FoldingIs, TypeInit, TypeStep, FoldingStep, PTL DEF Spec

(***************************************************************************)
(* The filter.                                                             *)
(***************************************************************************)

\* The request that will be heard is for the filter in the box, which is then
\* not the empty one; and what was heard is what resolvedFor says.
Resolving ==
    /\ page.timer => page.query # NoQuery
    /\ \A m \in net : (m.what = "filter" /\ m.id = page.filterReq)
                        => m.on = page.query /\ m.since >= announced /\ page.query # NoQuery
    /\ page.query = NoQuery => page.matches = None /\ ~ page.filterError
    /\ page.matches # None =>
          page.matches.about >= announced /\ page.matches.on = page.resolvedFor

LEMMA ResolvingIs == Resolving => FilterIsCurrent
PROOF
  BY DEF Resolving, FilterIsCurrent, Filtering

LEMMA FilterLeft ==
  ASSUME Resolving, Filter(page') = Filter(page), page'.query = page.query,
         announced' = announced,
         \A n \in net' : n.what = "filter" => n \in net
  PROVE  Resolving'
PROOF
<1>1. /\ page'.timer = page.timer /\ page'.filterReq = page.filterReq
      /\ page'.matches = page.matches /\ page'.filterError = page.filterError
      /\ page'.resolvedFor = page.resolvedFor
  BY DEF Filter
<1> QED
  BY <1>1 DEF Resolving

LEMMA ResolvingTree ==
  ASSUME TypeOK, Resolving, NEW m \in net, TreeArrives(m)
  PROVE  Resolving'
PROOF
<1>1. PICK s1 \in Stores, s2 \in Stores, folds \in SUBSET Message :
        /\ Fold(s1) = Fold(page) /\ Filter(s1) = Filter(page) /\ Caches(s1) = Caches(page)
        /\ s1.issued = page.issued /\ s1.compact = page.compact /\ s1.query = page.query
        /\ \/ s1.tree = page.tree /\ s2 = s1 /\ folds = {}
           \/ s2 = Folded(s1) /\ folds = FoldRequest(s1)
        /\ page' = StatsAsked(s2) /\ net' = (net \ {m}) \cup StatsRequest(s2) \cup folds
        /\ m.what = "tree" /\ UNCHANGED <<served, announced>>
  BY TreeArrivesDoes
<1>2. View(page') = View(s2) /\ Filter(page') = Filter(s2)
  BY <1>1, StatsAskedFields
<1>3. s2.query = page.query /\ Filter(s2) = Filter(page)
  BY <1>1, FoldedFields DEF View
<1>4. \A n \in StatsRequest(s2) \cup folds : n.what # "filter"
  BY <1>1, StatsRequests, FoldRequests
<1> QED
  BY <1>1, <1>2, <1>3, <1>4, FilterLeft DEF View

LEMMA ResolvingFilter ==
  ASSUME TypeOK, Resolving, NEW m \in net, FilterArrives(m)
  PROVE  Resolving'
PROOF
<1>1. PICK about \in Answers(m) :
        /\ page' = [page EXCEPT !.matches = IF about = Failed THEN None ELSE Stored(m, about),
                                !.filterError = (about = Failed), !.resolvedFor = m.on]
        /\ net' = net \ {m} /\ UNCHANGED <<served, announced>>
  BY DEF FilterArrives, Update
<1>2. page \in Stores
  BY DEF TypeOK
<1>3. /\ page'.timer = page.timer /\ page'.filterReq = page.filterReq /\ page'.query = page.query
      /\ page'.matches = (IF about = Failed THEN None ELSE Stored(m, about))
      /\ page'.resolvedFor = m.on
  BY <1>1, <1>2 DEF Stores
<1>4. m.on = page.query /\ m.since >= announced /\ page.query # NoQuery
  BY DEF Resolving, FilterArrives
<1>5. about # Failed => about >= announced
  <2>1. announced \in Nat
    BY Markers DEF TypeOK
  <2>2. about # Failed => m.since \in Nat /\ about \in Nat /\ m.since <= about
    BY AnswersAre
  <2> QED
    BY <1>4, <2>1, <2>2
<1>6. about # Failed => page'.matches.about = about /\ page'.matches.on = m.on
  BY <1>3 DEF Stored
<1> QED
  BY <1>1, <1>3, <1>4, <1>5, <1>6 DEF Resolving

LEMMA ResolvingOpen ==
  ASSUME TypeOK, Traffic, Resolving, NEW m \in net, OpenArrives(m)
  PROVE  Resolving'
PROOF
<1>1. PICK reset \in Stores :
        /\ reset.query = NoQuery /\ reset.matches = None /\ ~ reset.filterError
        /\ \/ page.query = NoQuery /\ reset.filterReq = page.filterReq /\ reset.timer = page.timer
           \/ page.query # NoQuery /\ reset.filterReq = page.filterReq + 1 /\ ~ reset.timer
        /\ page' = TreeAsked(Forgotten(Folded(reset)))
        /\ net' = (net \ {m}) \cup FoldRequest(reset)
                      \cup TreeRequest(m.on, Forgotten(Folded(reset)))
  BY OpenArrivesDoes
<1>2. Folded(reset) \in Stores /\ Filter(Folded(reset)) = Filter(reset)
      /\ Folded(reset).query = NoQuery
  BY <1>1, FoldedFields DEF View
<1>3. /\ Forgotten(Folded(reset)) \in Stores /\ Filter(Forgotten(Folded(reset))) = Filter(reset)
      /\ Forgotten(Folded(reset)).query = NoQuery
  BY <1>2, ForgottenFields
<1>4. Filter(page') = Filter(reset) /\ page'.query = NoQuery
  BY <1>1, <1>3, TreeAskedFields DEF View
<1>5. /\ page'.timer = reset.timer /\ page'.filterReq = reset.filterReq
      /\ page'.matches = None /\ page'.filterError = reset.filterError
  BY <1>1, <1>4 DEF Filter
<1>6. \A n \in FoldRequest(reset) : n.what = "compact"
  BY FoldRequests
<1>7. \A n \in TreeRequest(m.on, Forgotten(Folded(reset))) : n.what = "tree"
  BY DEF TreeRequest, Ask
<1>8. page.filterReq \in Nat
  BY CountersAre DEF TypeOK
<1>9. \A n \in net : n.what = "filter" => n.id \in Nat /\ n.id <= page.filterReq
  BY DEF Traffic, Fits, TypeOK, Message
<1>10. \A n \in net' : n.what = "filter" => n.id # page'.filterReq
  <2> SUFFICES ASSUME NEW n \in net', n.what = "filter" PROVE n.id # page'.filterReq
    OBVIOUS
  <2>1. n \in net
    BY <1>1, <1>6, <1>7
  <2>2. CASE page.query = NoQuery
    BY <1>1, <1>5, <2>1, <2>2 DEF Resolving
  <2>3. CASE page.query # NoQuery
    BY <1>1, <1>5, <1>8, <1>9, <2>1, <2>3
  <2> QED
    BY <2>2, <2>3
<1>11. ~ page'.timer
  BY <1>1, <1>5 DEF Resolving
<1> QED
  BY <1>1, <1>4, <1>5, <1>10, <1>11 DEF Resolving

LEMMA ResolvingFolds ==
  ASSUME TypeOK, Traffic, Resolving, ToggleCompact \/ \E q \in Filters : TypeFilter(q)
  PROVE  Resolving'
PROOF
<1>1. PICK s \in Stores :
        /\ \/ Filter(s) = Filter(page) /\ s.query = page.query
           \/ \E q \in Filters, c \in Stores :
                 /\ q # page.query /\ s = Edited(c, q) /\ Filter(c) = Filter(page)
                 /\ c.query = page.query
        /\ page' = Folded(s) /\ net' = net \cup FoldRequest(s) /\ UNCHANGED <<served, announced>>
  BY FoldsDo
<1>2. Filter(page') = Filter(s) /\ page'.query = s.query
  BY <1>1, FoldedFields DEF View
<1>3. \A n \in FoldRequest(s) : n.what = "compact"
  BY FoldRequests
<1>4. CASE Filter(s) = Filter(page) /\ s.query = page.query
  BY <1>1, <1>2, <1>3, <1>4, FilterLeft
<1>5. ASSUME NEW q \in Filters, NEW c \in Stores, q # page.query, s = Edited(c, q),
             Filter(c) = Filter(page), c.query = page.query
      PROVE  Resolving'
  <2>1. /\ c.filterReq = page.filterReq /\ c.matches = page.matches
        /\ c.resolvedFor = page.resolvedFor
    BY <1>5 DEF Filter
  <2>2. /\ page'.timer = s.timer /\ page'.filterReq = s.filterReq /\ page'.matches = s.matches
        /\ page'.filterError = s.filterError /\ page'.resolvedFor = s.resolvedFor
    BY <1>2 DEF Filter
  <2>3. /\ page'.query = q /\ page'.filterReq = page.filterReq + 1
        /\ q = NoQuery => ~ page'.timer /\ page'.matches = None /\ ~ page'.filterError
        /\ q # NoQuery => page'.matches = page.matches /\ page'.resolvedFor = page.resolvedFor
    BY <1>2, <1>5, <2>1, <2>2, EditedFields
  <2>4. page.filterReq \in Nat
    BY CountersAre DEF TypeOK
  <2>5. \A n \in net : n.what = "filter" => n.id \in Nat /\ n.id <= page.filterReq
    BY DEF Traffic, Fits, TypeOK, Message
  <2>6. \A n \in net' : n.what = "filter" => n.id # page'.filterReq
    BY <1>1, <1>3, <2>3, <2>4, <2>5
  <2> QED
    BY <1>1, <2>3, <2>6 DEF Resolving
<1> QED
  BY <1>1, <1>4, <1>5

LEMMA ResolvingTimer ==
  ASSUME TypeOK, Traffic, Resolving, TimerFires
  PROVE  Resolving'
PROOF
<1>1. PICK n : n = Ask("filter", page.query, page.filterReq)
  OBVIOUS
<1>2. page' = [page EXCEPT !.timer = FALSE] /\ net' = net \cup {n} /\ page.timer
      /\ UNCHANGED <<served, announced>>
  BY <1>1 DEF TimerFires
<1>3. /\ page'.timer = FALSE /\ page'.query = page.query /\ page'.filterReq = page.filterReq
      /\ page'.matches = page.matches /\ page'.filterError = page.filterError
      /\ page'.resolvedFor = page.resolvedFor
  BY <1>2 DEF TypeOK, Stores
<1>4. n.on = page.query /\ n.since >= announced
  BY <1>1, Markers DEF Ask, Traffic, TypeOK
<1>5. page.query # NoQuery
  BY <1>2 DEF Resolving
<1>6. \A p \in net' : (p.what = "filter" /\ p.id = page'.filterReq)
                        => p.on = page'.query /\ p.since >= announced /\ page'.query # NoQuery
  BY <1>2, <1>3, <1>4, <1>5 DEF Resolving
<1> QED
  BY <1>2, <1>3, <1>5, <1>6 DEF Resolving

LEMMA ResolvingStep == TypeOK /\ Traffic /\ Resolving /\ [Next]_vars => Resolving'
PROOF
<1> SUFFICES ASSUME TypeOK, Traffic, Resolving, [Next]_vars PROVE Resolving'
  OBVIOUS
<1>0. page \in Stores
  BY DEF TypeOK
<1>1. CASE UNCHANGED vars
  BY <1>1, FilterLeft DEF vars
<1>2. ASSUME NEW m \in net, RespondOpen(m) PROVE Resolving'
  <2>1. PICK about : Outcome(m, about)
    BY <1>2 DEF RespondOpen
  <2>2. m \in Message /\ m.what = "open"
    BY <1>2 DEF TypeOK, RespondOpen
  <2>3. \A n \in net' : n.what = "filter" => n \in net
    BY <2>1, <2>2 DEF Outcome, Message
  <2> QED
    BY <1>2, <2>3, FilterLeft DEF RespondOpen
<1>3. ASSUME NEW m \in net,
             CompactArrives(m) \/ Superseded(m) \/ StatsArrive(m) \/ MemoArrives(m) \/ OpenRejected(m)
      PROVE  Resolving'
  <2>1. Filter(page') = Filter(page) /\ announced' = announced /\ net' = net \ {m}
    BY <1>0, <1>3 DEF CompactArrives, Superseded, StatsArrive, MemoArrives, OpenRejected, Update,
                      Stores, Filter
  <2>2. page'.query = page.query
    BY <1>0, <1>3 DEF CompactArrives, Superseded, StatsArrive, MemoArrives, OpenRejected, Update,
                      Stores
  <2> QED
    BY <2>1, <2>2, FilterLeft
<1>4. CASE OthersOpen
  BY <1>4, FilterLeft DEF OthersOpen
<1>5. ASSUME NEW by \in Switchers, SubmitOpen(by) PROVE Resolving'
  <2>1. page' = [Clicked EXCEPT !.opening = TRUE] /\ net' = net \cup {Ask("open", by, 0)}
        /\ announced' = announced
    BY <1>5 DEF SubmitOpen, Click
  <2>2. Filter(page') = Filter(page) /\ View(page') = View(page)
    BY <2>1, ClickedFields DEF Stores, Filter, View
  <2>3. \A n \in net' : n.what = "filter" => n \in net
    BY <2>1 DEF Ask
  <2> QED
    BY <2>1, <2>2, <2>3, FilterLeft DEF View
<1>6. ASSUME NEW k \in Keys, OpenDetail(k) PROVE Resolving'
  <2>1. PICK id, slot : page' = [Clicked EXCEPT !.memo[k] = slot, !.issued = id]
                        /\ net' = net \cup {Ask("memo", k, id)} /\ announced' = announced
    BY <1>6 DEF OpenDetail, Click
  <2>2. Filter(page') = Filter(page) /\ View(page') = View(page)
    BY <2>1, ClickedFields DEF Stores, Filter, View
  <2>3. \A n \in net' : n.what = "filter" => n \in net
    BY <2>1 DEF Ask
  <2> QED
    BY <2>1, <2>2, <2>3, FilterLeft DEF View
<1> QED
  BY <1>1, <1>2, <1>3, <1>4, <1>5, <1>6, ResolvingTree, ResolvingFilter, ResolvingOpen,
     ResolvingFolds, ResolvingTimer DEF Next, Arrival

\* The rows shown are those of the filter in the box and of the current
\* checkpoint, or the page says that it is still filtering.
THEOREM FilterStaysCurrent == Spec => []FilterIsCurrent
PROOF
<1>1. Init => Resolving
  BY PageInit DEF Resolving
<1> QED
  BY <1>1, ResolvingIs, TypeInit, TypeStep, ResolvingStep, PTL DEF Spec

=============================================================================
