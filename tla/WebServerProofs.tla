--------------------------- MODULE WebServerProofs ---------------------------
(***************************************************************************)
(* Theorems about WebServer, for any number of workers, requests, specs    *)
(* and memo keys and for any bound on the checkpoints read.                *)
(*                                                                         *)
(* Every invariant of the module follows from IInv.  Most steps only       *)
(* answer a request or move a worker on to a computation, and touch        *)
(* nothing that IInv relates: AnswerKeeps and GotoKeeps say so once.  The  *)
(* steps of an open, the removal of a recent and a panic are proved one    *)
(* by one.  The second half shows that the server implements               *)
(* ServedCheckpoint.                                                       *)
(***************************************************************************)
EXTENDS WebServer, RecentsListFacts

\* The fields that the kind of a request gives it.
LEMMA AskFields ==
    ASSUME NEW a \in Asks
    PROVE  /\ a.op = "body" => a.key \in Endpoints
           /\ a.op \in {"stats", "histogram"} => a.key \in Views
           /\ a.op \in {"open", "forget"} => a.spec \in Specs
PROOF BY DEF Asks

\* The kinds of answers.
LEMMA AnswersAreReplies ==
    /\ \A g \in States : Data(g) \in Replies
    /\ \A g \in States, l \in Seq(Specs) : Opened(g, l) \in Replies
    /\ \A l \in Seq(Specs) : Listed(l) \in Replies
    /\ Error \in Replies /\ Busy \in Replies /\ Panicked \in Replies
PROOF BY DEF Replies, Data, Opened, Listed, Error, Busy, Panicked

\* What is known of a worker that handles a request.
LEMMA HandlingFacts ==
    ASSUME IInv, NEW w \in Workers, serving[w] # None
    PROVE  /\ serving[w] \in Requests
           /\ stage[w] # "free"
           /\ snap[w] \in States /\ snap[w] \in 1..built
           /\ asked[serving[w]].op = "body" => Key(w) \in Endpoints
           /\ asked[serving[w]].op \in {"stats", "histogram"} => Key(w) \in Views
           /\ asked[serving[w]].op \in {"open", "forget"} => Path(w) \in Specs
PROOF
<1>1. /\ serving[w] \in Requests /\ stage[w] # "free"
      /\ snap[w] \in 1..built
      /\ asked[serving[w]] \in Asks
  BY NoneAssumption DEF IInv, WorkersInv
<1>2. snap[w] \in States
  BY <1>1, StatesAssumption DEF IInv, TypeOK, States
<1> QED
  BY <1>1, <1>2, AskFields DEF Key, Path

\* A request answered by a worker that is in no open's critical section.
LEMMA AnswerKeeps ==
    ASSUME IInv, NEW w \in Workers, NEW a \in Replies,
           serving[w] # None,
           stage[w] \notin {"reading", "built", "recorded"},
           Respond(w, a), UNCHANGED <<cell, asked>>,
           bodies' \in [States -> [Endpoints -> 0..MaxStates]],
           stats' \in [States -> [Views -> 0..MaxStates]]
    PROVE  IInv'
PROOF
<1>0. serving[w] \in Requests /\ stage[w] # "free"
  BY HandlingFacts
<1>1. TypeOK'
  BY <1>0, StatesAssumption DEF IInv, TypeOK, Respond, cell, Stages
<1>2. WorkersInv'
  BY <1>0, NoneAssumption DEF IInv, TypeOK, WorkersInv, Respond, cell
<1>3. OneOpenAtATime'
  BY <1>0, NoneAssumption DEF IInv, TypeOK, OneOpenAtATime, Respond, cell
<1>4. OpensInv'
  BY <1>0 DEF IInv, TypeOK, OpensInv, Respond, cell, Path
<1>5. RecentsWereRead'
  BY DEF IInv, RecentsWereRead, cell
<1>6. HeadInv'
  BY <1>0 DEF IInv, TypeOK, HeadInv, Heads, Respond, cell
<1> QED
  BY <1>1, <1>2, <1>3, <1>4, <1>5, <1>6 DEF IInv

\* A worker that goes on to compute something, outside any open.
LEMMA GotoKeeps ==
    ASSUME IInv, NEW w \in Workers,
           NEW st \in {"encoding", "scanning", "binning"},
           serving[w] # None,
           stage[w] \in {"routed", "scanning"},
           Goto(w, st), UNCHANGED <<cell, asked, made>>,
           bodies' \in [States -> [Endpoints -> 0..MaxStates]],
           stats' \in [States -> [Views -> 0..MaxStates]]
    PROVE  IInv'
PROOF
<1>1. TypeOK'
  BY DEF IInv, TypeOK, Goto, cell, Stages
<1>2. WorkersInv'
  BY DEF IInv, TypeOK, WorkersInv, Goto, cell
<1>3. OneOpenAtATime'
  BY DEF IInv, TypeOK, OneOpenAtATime, Goto, cell
<1>4. OpensInv'
  BY DEF IInv, TypeOK, OpensInv, Goto, cell, Path
<1>5. RecentsWereRead'
  BY DEF IInv, RecentsWereRead, cell
<1>6. HeadInv'
  BY DEF IInv, TypeOK, HeadInv, Heads, Goto, cell
<1> QED
  BY <1>1, <1>2, <1>3, <1>4, <1>5, <1>6 DEF IInv

----------------------------------------------------------------------------
(* Init, and each step of Next.                                            *)

\* Current::new leaves a consistent server.
LEMMA InitIInv == Init => IInv
PROOF
<1> SUFFICES ASSUME Init PROVE IInv
  OBVIOUS
<1>1. /\ recents \in Seq(Specs)
      /\ NoRepeats(recents)
      /\ Entries(recents) \subseteq {StartSpec}
      /\ recents[1] = StartSpec
  <2>1. <<>> \in Seq(Specs) /\ NoRepeats(<<>>) /\ Entries(<<>>) = {}
    BY DEF NoRepeats, Entries
  <2>2. /\ Recorded(<<>>, StartSpec, RecentsCap) \in Seq(Specs)
        /\ NoRepeats(Recorded(<<>>, StartSpec, RecentsCap))
        /\ Entries(Recorded(<<>>, StartSpec, RecentsCap))
              \subseteq Entries(<<>>) \cup {StartSpec}
        /\ Recorded(<<>>, StartSpec, RecentsCap)[1] = StartSpec
    BY <2>1, RecordedFacts, SpecsAssumption, CapAssumption
  <2>3. recents = Recorded(<<>>, StartSpec, RecentsCap)
    BY DEF Init
  <2> QED
    BY <2>1, <2>2, <2>3
<1>2. TypeOK
  <2>1. /\ state \in 1..built /\ built \in States
        /\ opening \in Workers \cup {None}
        /\ poisoned \in BOOLEAN
    <3>1. state = 1 /\ built = 1 /\ opening = None /\ poisoned = FALSE
      BY DEF Init
    <3>2. state \in 1..built /\ built \in States
      BY <3>1, StatesAssumption DEF States
    <3> QED
      BY <3>1, <3>2
  <2>2. /\ specOf \in [States -> Specs \cup {None}]
        /\ bodies \in [States -> [Endpoints -> 0..MaxStates]]
        /\ stats \in [States -> [Views -> 0..MaxStates]]
    <3>1. 0 \in 0..MaxStates
      BY StatesAssumption
    <3>2. specOf \in [States -> Specs \cup {None}]
      BY SpecsAssumption DEF Init
    <3>3. bodies \in [States -> [Endpoints -> 0..MaxStates]]
      BY <3>1 DEF Init
    <3>4. stats \in [States -> [Views -> 0..MaxStates]]
      BY <3>1 DEF Init
    <3> QED
      BY <3>2, <3>3, <3>4
  <2>3. /\ asked \in [Requests -> Asks \cup {None}]
        /\ reply \in [Requests -> Replies \cup {None}]
        /\ serving \in [Workers -> Requests \cup {None}]
        /\ stage \in [Workers -> Stages]
        /\ snap \in [Workers -> 0..MaxStates]
        /\ made \in [Workers -> 0..MaxStates]
    BY StatesAssumption DEF Init, Stages
  <2> QED
    BY <1>1, <2>1, <2>2, <2>3 DEF TypeOK
<1>3. WorkersInv
  BY DEF Init, WorkersInv
<1>4. OneOpenAtATime
  BY NoneAssumption DEF Init, OneOpenAtATime
<1>5. OpensInv
  BY DEF Init, OpensInv
<1>6. RecentsWereRead
  BY <1>1, StatesAssumption DEF Init, RecentsWereRead, States
<1>7. HeadInv
  BY <1>1, StatesAssumption DEF Init, HeadInv, Heads, States
<1> QED
  BY <1>2, <1>3, <1>4, <1>5, <1>6, <1>7 DEF IInv

\* A request arrives: nobody was handling it.
LEMMA SendKeeps ==
    ASSUME IInv, NEW r \in Requests, Send(r)
    PROVE  IInv'
PROOF
<1>1. TypeOK'
  BY DEF IInv, TypeOK, Send, cell, memos, pool
<1>2. WorkersInv'
  BY DEF IInv, TypeOK, WorkersInv, Send, cell, pool
<1>3. OneOpenAtATime'
  BY DEF IInv, OneOpenAtATime, Send, cell, pool
<1>4. OpensInv'
  <2>1. asked[r] = None
    BY DEF Send
  <2>2. ASSUME NEW w \in Workers, stage[w] # "free"
        PROVE  asked'[serving[w]] = asked[serving[w]]
    <3>1. serving[w] \in Requests /\ asked[serving[w]] # None
      BY <2>2 DEF IInv, WorkersInv
    <3> QED
      BY <2>1, <3>1 DEF IInv, TypeOK, Send
  <2> QED
    BY <2>2 DEF IInv, OpensInv, Send, cell, pool, Path
<1>5. RecentsWereRead'
  BY DEF IInv, RecentsWereRead, Send, cell
<1>6. HeadInv'
  BY DEF IInv, HeadInv, Heads, Send, cell, pool
<1> QED
  BY <1>1, <1>2, <1>3, <1>4, <1>5, <1>6 DEF IInv

\* A worker at rest takes a request and a snapshot of what is served.
LEMMA AcceptKeeps ==
    ASSUME IInv, NEW w \in Workers, NEW r \in Requests, Accept(w, r)
    PROVE  IInv'
PROOF
<1>0. serving[w] = None /\ stage[w] = "free" /\ made[w] = 0
  BY NoneAssumption DEF IInv, WorkersInv, Accept
<1>1. state \in 1..built /\ state \in 0..MaxStates
  BY StatesAssumption DEF IInv, TypeOK, States
<1>2. TypeOK'
  BY <1>1 DEF IInv, TypeOK, Accept, cell, memos, Stages
<1>3. WorkersInv'
  BY NoneAssumption DEF IInv, TypeOK, WorkersInv, Accept, Waiting, cell
<1>4. OneOpenAtATime'
  BY <1>0 DEF IInv, TypeOK, OneOpenAtATime, Accept, cell
<1>5. OpensInv'
  BY <1>0 DEF IInv, TypeOK, OpensInv, Accept, cell, Path
<1>6. RecentsWereRead'
  BY DEF IInv, RecentsWereRead, Accept, cell
<1>7. HeadInv'
  BY <1>0 DEF IInv, TypeOK, HeadInv, Heads, Accept, cell
<1> QED
  BY <1>2, <1>3, <1>4, <1>5, <1>6, <1>7 DEF IInv

\* WebState::cached_body.
LEMMA StaticKeeps ==
    ASSUME IInv, NEW w \in Workers, Static(w)
    PROVE  IInv'
PROOF
<1>0. /\ serving[w] # None
      /\ snap[w] \in States /\ Key(w) \in Endpoints
  BY HandlingFacts
     DEF Static, BodyHit, BodyMiss, Encode, EncodeUncached, Handling
<1>1. CASE BodyHit(w)
  <2>1. bodies[snap[w]][Key(w)] \in States
    BY <1>0, <1>1, StatesAssumption DEF BodyHit, IInv, TypeOK, States
  <2>2. Data(bodies[snap[w]][Key(w)]) \in Replies
    BY <2>1, AnswersAreReplies
  <2> QED
    BY <1>1, <2>2, AnswerKeeps DEF BodyHit, Handling, memos, IInv, TypeOK
<1>2. CASE BodyMiss(w)
  BY <1>2, GotoKeeps DEF BodyMiss, Handling, memos, IInv, TypeOK
<1>3. CASE Encode(w)
  <2>1. bodies' \in [States -> [Endpoints -> 0..MaxStates]]
    BY <1>0, <1>3 DEF Encode, IInv, TypeOK, States
  <2>2. Data(snap[w]) \in Replies
    BY <1>0, AnswersAreReplies
  <2> QED
    BY <1>3, <2>1, <2>2, AnswerKeeps DEF Encode, Handling, IInv, TypeOK
<1>4. CASE EncodeUncached(w)
  <2>1. Data(snap[w]) \in Replies
    BY <1>0, AnswersAreReplies
  <2> QED
    BY <1>4, <2>1, AnswerKeeps
       DEF EncodeUncached, Handling, memos, IInv, TypeOK
<1> QED
  BY <1>1, <1>2, <1>3, <1>4 DEF Static

\* The data endpoints, over the memo of scans.
LEMMA OnDemandKeeps ==
    ASSUME IInv, NEW w \in Workers, OnDemand(w)
    PROVE  IInv'
PROOF
<1>0. serving[w] # None /\ snap[w] \in States
  BY HandlingFacts
     DEF OnDemand, StatsHit, StatsMiss, Scan, ScanFails, Bin, Read,
         DataRefused, Handling
<1>1. Data(snap[w]) \in Replies /\ Error \in Replies
  BY <1>0, AnswersAreReplies
<1>2. CASE StatsHit(w)
  <2>1. Key(w) \in Views
    BY <1>0, <1>2, HandlingFacts DEF StatsHit, Handling
  <2>2. stats[snap[w]][Key(w)] \in States
    BY <1>0, <1>2, <2>1, StatesAssumption DEF StatsHit, IInv, TypeOK, States
  <2>3. Data(stats[snap[w]][Key(w)]) \in Replies
    BY <2>2, AnswersAreReplies
  <2> QED
    BY <1>2, <2>3, AnswerKeeps, GotoKeeps
       DEF StatsHit, StatsReady, Handling, memos, IInv, TypeOK
<1>3. CASE StatsMiss(w)
  BY <1>3, GotoKeeps DEF StatsMiss, Handling, memos, IInv, TypeOK
<1>4. CASE Scan(w)
  <2>1. Key(w) \in Views
    BY <1>0, <1>4, HandlingFacts DEF Scan, Handling
  <2>2. stats' \in [States -> [Views -> 0..MaxStates]]
    BY <1>0, <1>4, <2>1 DEF Scan, IInv, TypeOK, States
  <2>3. bodies' \in [States -> [Endpoints -> 0..MaxStates]]
    BY <1>4 DEF Scan, IInv, TypeOK
  <2> QED
    BY <1>1, <1>4, <2>2, <2>3, AnswerKeeps, GotoKeeps
       DEF Scan, StatsReady, Handling
<1>5. CASE ScanFails(w)
  BY <1>1, <1>5, AnswerKeeps DEF ScanFails, Handling, memos, IInv, TypeOK
<1>6. CASE Bin(w)
  BY <1>1, <1>6, AnswerKeeps DEF Bin, Handling, memos, IInv, TypeOK
<1>7. CASE Read(w)
  BY <1>1, <1>7, AnswerKeeps DEF Read, Handling, memos, IInv, TypeOK
<1>8. CASE DataRefused(w)
  BY <1>1, <1>8, AnswerKeeps DEF DataRefused, Handling, memos, IInv, TypeOK
<1> QED
  BY <1>2, <1>3, <1>4, <1>5, <1>6, <1>7, <1>8 DEF OnDemand

----------------------------------------------------------------------------
(* Current::open.                                                          *)

\* A second open is answered at once.
LEMMA OpenRefusedKeeps ==
    ASSUME IInv, NEW w \in Workers, OpenRefused(w)
    PROVE  IInv'
PROOF
<1>1. Busy \in Replies
  BY AnswersAreReplies
<1> QED
  BY <1>1, AnswerKeeps DEF OpenRefused, Handling, memos, IInv, TypeOK

\* The answer to an open, after its guard is gone.
LEMMA OpenReplyKeeps ==
    ASSUME IInv, NEW w \in Workers, OpenReply(w)
    PROVE  IInv'
PROOF
<1>1. made[w] \in States
  BY StatesAssumption
     DEF OpenReply, Handling, IInv, TypeOK, OpensInv, States
<1>2. Opened(made[w], recents) \in Replies
  BY <1>1, AnswersAreReplies DEF IInv, TypeOK
<1> QED
  BY <1>2, AnswerKeeps DEF OpenReply, Handling, memos, IInv, TypeOK

\* Nobody is between guard and swap while the guard is free.
LEMMA OpenBeginKeeps ==
    ASSUME IInv, NEW w \in Workers, OpenBegin(w)
    PROVE  IInv'
PROOF
<1>0. /\ opening = None /\ stage[w] = "routed" /\ serving[w] # None
      /\ asked[serving[w]].op = "open"
  BY DEF OpenBegin, Handling
<1>1. TypeOK'
  BY DEF IInv, TypeOK, OpenBegin, Goto, memos, Stages
<1>2. WorkersInv'
  BY <1>0 DEF IInv, TypeOK, WorkersInv, OpenBegin, Goto
<1>3. OneOpenAtATime'
  BY <1>0, NoneAssumption DEF IInv, TypeOK, OneOpenAtATime, OpenBegin, Goto
<1>4. OpensInv'
  BY <1>0 DEF IInv, TypeOK, OpensInv, OpenBegin, Goto, Path
<1>5. RecentsWereRead'
  BY DEF IInv, RecentsWereRead, OpenBegin
<1>6. HeadInv'
  BY <1>0 DEF IInv, TypeOK, HeadInv, Heads, OpenBegin, Goto
<1> QED
  BY <1>1, <1>2, <1>3, <1>4, <1>5, <1>6 DEF IInv

\* A checkpoint that cannot be read leaves the head and the pointer alone.
LEMMA OpenFailsKeeps ==
    ASSUME IInv, NEW w \in Workers, OpenFails(w)
    PROVE  IInv'
PROOF
<1>0. /\ stage[w] = "reading" /\ serving[w] \in Requests
      /\ opening = w /\ w # None
      /\ Error \in Replies
  BY HandlingFacts, AnswersAreReplies, NoneAssumption
     DEF OpenFails, Handling, IInv, OneOpenAtATime
<1>1. TypeOK'
  BY <1>0, StatesAssumption DEF IInv, TypeOK, OpenFails, Respond, memos, Stages
<1>2. WorkersInv'
  BY <1>0, NoneAssumption DEF IInv, TypeOK, WorkersInv, OpenFails, Respond
<1>3. OneOpenAtATime'
  BY <1>0, NoneAssumption DEF IInv, TypeOK, OneOpenAtATime, OpenFails, Respond
<1>4. OpensInv'
  BY <1>0 DEF IInv, TypeOK, OpensInv, OpenFails, Respond, Path
<1>5. RecentsWereRead'
  BY DEF IInv, RecentsWereRead, OpenFails
<1>6. HeadInv'
  BY <1>0 DEF IInv, TypeOK, HeadInv, Heads, OpenFails, Respond
<1> QED
  BY <1>1, <1>2, <1>3, <1>4, <1>5, <1>6 DEF IInv

\* A new WebState: nothing that was built before it changes its spec.
LEMMA OpenReadKeeps ==
    ASSUME IInv, NEW w \in Workers, OpenRead(w)
    PROVE  IInv'
PROOF
<1>0. /\ stage[w] = "reading" /\ serving[w] \in Requests
      /\ asked[serving[w]].op = "open" /\ Path(w) \in Specs
      /\ opening = w
  BY HandlingFacts DEF OpenRead, Handling, IInv, OneOpenAtATime
<1>1. /\ built \in Nat /\ built + 1 \in States /\ built' = built + 1
      /\ state \in 1..built' /\ state < built + 1 /\ state' = state
      /\ \A g \in 1..built : specOf'[g] = specOf[g] /\ g \in 1..built'
      /\ specOf'[built + 1] = Path(w)
  BY StatesAssumption DEF OpenRead, IInv, TypeOK, States
<1>2. TypeOK'
  BY <1>0, <1>1, StatesAssumption
     DEF IInv, TypeOK, OpenRead, Goto, memos, Stages, States
<1>3. WorkersInv'
  <2>1. \A x \in Workers : snap[x] \in 1..built => snap'[x] \in 1..built'
    BY <1>1 DEF OpenRead, Goto
  <2>2. \A x \in Workers :
           /\ x # w => stage'[x] = stage[x] /\ made'[x] = made[x]
           /\ stage'[w] = "built"
    BY DEF OpenRead, Goto, IInv, TypeOK
  <2> QED
    BY <1>0, <2>1, <2>2 DEF IInv, WorkersInv, OpenRead, Goto
<1>4. OneOpenAtATime'
  BY <1>0 DEF IInv, TypeOK, OneOpenAtATime, OpenRead, Goto
<1>5. OpensInv'
  <2>1. /\ made'[w] = built + 1 /\ stage'[w] = "built"
        /\ \A x \in Workers \ {w} : /\ stage'[x] = stage[x]
                                     /\ made'[x] = made[x]
    BY <1>1 DEF OpenRead, Goto, IInv, TypeOK, States
  <2>2. \A x \in Workers : Path(x)' = Path(x)
    BY DEF OpenRead, Goto, Path
  <2> QED
    BY <1>0, <1>1, <2>1, <2>2 DEF IInv, OpensInv, OpenRead, Goto, Path
<1>6. RecentsWereRead'
  BY <1>1 DEF IInv, RecentsWereRead, OpenRead
<1>7. HeadInv'
  BY <1>0, <1>1 DEF IInv, TypeOK, OpensInv, HeadInv, Heads, OpenRead, Goto
<1> QED
  BY <1>2, <1>3, <1>4, <1>5, <1>6, <1>7 DEF IInv

\* The head moves first, to what is about to be served.
LEMMA OpenRecordKeeps ==
    ASSUME IInv, NEW w \in Workers, OpenRecord(w)
    PROVE  IInv'
PROOF
<1>0. /\ stage[w] = "built" /\ serving[w] \in Requests
      /\ asked[serving[w]].op = "open" /\ Path(w) \in Specs
      /\ opening = w
      /\ made[w] \in 1..built /\ specOf[made[w]] = Path(w)
  BY HandlingFacts DEF OpenRecord, Handling, IInv, OneOpenAtATime, OpensInv
<1>1. /\ recents' \in Seq(Specs)
      /\ NoRepeats(recents')
      /\ Entries(recents') \subseteq Entries(recents) \cup {Path(w)}
      /\ recents'[1] = Path(w)
  <2>1. /\ recents \in Seq(Specs) /\ NoRepeats(recents)
        /\ recents' = Recorded(recents, Path(w), RecentsCap)
    BY DEF OpenRecord, IInv, TypeOK, RecentsWereRead
  <2> QED
    BY <1>0, <2>1, RecordedFacts, CapAssumption
<1>2. TypeOK'
  BY <1>0, <1>1 DEF IInv, TypeOK, OpenRecord, Goto, memos, Stages
<1>3. WorkersInv'
  BY <1>0 DEF IInv, TypeOK, WorkersInv, OpenRecord, Goto
<1>4. OneOpenAtATime'
  BY <1>0 DEF IInv, TypeOK, OneOpenAtATime, OpenRecord, Goto
<1>5. OpensInv'
  BY <1>0 DEF IInv, TypeOK, OpensInv, OpenRecord, Goto, Path
<1>6. RecentsWereRead'
  BY <1>0, <1>1 DEF IInv, RecentsWereRead, OpenRecord
<1>7. HeadInv'
  <2>1. \A x \in Workers : stage'[x] = "recorded" <=> x = w
    BY <1>0 DEF IInv, TypeOK, OneOpenAtATime, OpenRecord, Goto
  <2>2. recents'[1] = specOf'[made'[w]] /\ made'[w] = made[w]
    BY <1>0, <1>1 DEF OpenRecord
  <2> QED
    BY <2>1, <2>2 DEF HeadInv, Heads
<1> QED
  BY <1>2, <1>3, <1>4, <1>5, <1>6, <1>7 DEF IInv

\* The pointer follows.
LEMMA OpenInstallKeeps ==
    ASSUME IInv, NEW w \in Workers, OpenInstall(w)
    PROVE  IInv'
PROOF
<1>0. /\ stage[w] = "recorded" /\ serving[w] \in Requests
      /\ asked[serving[w]].op = "open"
      /\ opening = w /\ w # None
      /\ made[w] \in 1..built
      /\ Heads(made[w])
  BY HandlingFacts, NoneAssumption
     DEF OpenInstall, Handling, IInv, OneOpenAtATime, OpensInv, HeadInv
<1>1. TypeOK'
  BY <1>0 DEF IInv, TypeOK, OpenInstall, Goto, memos, Stages
<1>2. WorkersInv'
  BY <1>0 DEF IInv, TypeOK, WorkersInv, OpenInstall, Goto
<1>3. OneOpenAtATime'
  BY <1>0, NoneAssumption DEF IInv, TypeOK, OneOpenAtATime, OpenInstall, Goto
<1>4. OpensInv'
  <2>1. \A x \in Workers : stage'[x] \notin {"built", "recorded"}
    BY <1>0 DEF IInv, TypeOK, OneOpenAtATime, OpenInstall, Goto
  <2> QED
    BY <1>0, <2>1 DEF IInv, TypeOK, OpensInv, OpenInstall, Goto, Path
<1>5. RecentsWereRead'
  BY DEF IInv, RecentsWereRead, OpenInstall
<1>6. HeadInv'
  <2>1. \A x \in Workers : stage'[x] # "recorded"
    BY <1>0 DEF IInv, TypeOK, OneOpenAtATime, OpenInstall, Goto
  <2>2. Heads(state)'
    BY <1>0 DEF OpenInstall, Heads
  <2> QED
    BY <2>1, <2>2 DEF HeadInv
<1> QED
  BY <1>1, <1>2, <1>3, <1>4, <1>5, <1>6 DEF IInv

----------------------------------------------------------------------------
(* The recents, and panics.                                                *)

\* A recent is removed: the head stays, or the served checkpoint is not listed.
LEMMA ForgetKeeps ==
    ASSUME IInv, NEW w \in Workers, Forget(w)
    PROVE  IInv'
PROOF
<1>0. /\ stage[w] = "routed" /\ serving[w] \in Requests
      /\ asked[serving[w]].op = "forget" /\ Path(w) \in Specs
      /\ Error \in Replies
  BY HandlingFacts, AnswersAreReplies DEF Forget, Handling
<1>1. /\ recents' \in Seq(Specs)
      /\ NoRepeats(recents')
      /\ Entries(recents') \subseteq Entries(recents)
      /\ Entries(recents') # {} /\ recents[1] # Path(w)
            => recents'[1] = recents[1]
      /\ Path(w) \notin Entries(recents')
  <2>1. /\ recents \in Seq(Specs) /\ NoRepeats(recents)
        /\ recents' = Without(recents, Path(w))
    BY DEF Forget, IInv, TypeOK, RecentsWereRead
  <2> QED
    BY <2>1, WithoutFacts
<1>2. \A g : Heads(g) /\ specOf[g] \in Entries(recents')
                => recents'[1] = specOf[g]
  BY <1>1 DEF Heads
<1>3. CASE Goto(w, "forgotten") /\ UNCHANGED made
  <2>1. TypeOK'
    BY <1>1, <1>3 DEF IInv, TypeOK, Forget, Goto, memos, Stages
  <2>2. WorkersInv'
    BY <1>0, <1>3 DEF IInv, TypeOK, WorkersInv, Forget, Goto
  <2>3. OneOpenAtATime'
    BY <1>0, <1>3 DEF IInv, TypeOK, OneOpenAtATime, Forget, Goto
  <2>4. OpensInv'
    BY <1>0, <1>3 DEF IInv, TypeOK, OpensInv, Forget, Goto, Path
  <2>5. RecentsWereRead'
    BY <1>1 DEF IInv, RecentsWereRead, Forget
  <2>6. HeadInv'
    BY <1>0, <1>2, <1>3 DEF IInv, TypeOK, HeadInv, Heads, Forget, Goto
  <2> QED
    BY <2>1, <2>2, <2>3, <2>4, <2>5, <2>6 DEF IInv
<1>4. CASE Path(w) \notin Entries(recents) /\ Respond(w, Error)
  <2>1. recents' = recents
    BY <1>4 DEF Forget, Without
  <2> QED
    BY <1>0, <1>4, <2>1, AnswerKeeps
       DEF Forget, Handling, cell, memos, IInv, TypeOK
<1> QED
  BY <1>3, <1>4 DEF Forget

\* Listing the recents, and forgetting one.
LEMMA ListStepsKeep ==
    ASSUME IInv, NEW w \in Workers, ListSteps(w)
    PROVE  IInv'
PROOF
<1>1. Listed(recents) \in Replies
  BY AnswersAreReplies DEF IInv, TypeOK
<1>2. CASE Recents(w)
  BY <1>1, <1>2, AnswerKeeps DEF Recents, Handling, memos, IInv, TypeOK
<1>3. CASE ForgetReply(w)
  BY <1>1, <1>3, AnswerKeeps DEF ForgetReply, Handling, memos, IInv, TypeOK
<1> QED
  BY <1>2, <1>3, ForgetKeeps DEF ListSteps

\* A panic in an open drops its guard before it has moved anything.
LEMMA PanicKeeps ==
    ASSUME IInv, NEW w \in Workers, Panic(w)
    PROVE  IInv'
PROOF
<1>0. /\ serving[w] \in Requests /\ w # None
      /\ stage[w] \in {"encoding", "scanning", "binning", "reading"}
      /\ opening = w <=> stage[w] = "reading"
      /\ Panicked \in Replies
  BY AnswersAreReplies, NoneAssumption
     DEF Panic, IInv, WorkersInv, OneOpenAtATime
<1>1. TypeOK'
  BY <1>0, StatesAssumption DEF IInv, TypeOK, Panic, Respond, memos, Stages
<1>2. WorkersInv'
  BY <1>0, NoneAssumption DEF IInv, TypeOK, WorkersInv, Panic, Respond
<1>3. OneOpenAtATime'
  BY <1>0, NoneAssumption DEF IInv, TypeOK, OneOpenAtATime, Panic, Respond
<1>4. OpensInv'
  BY <1>0 DEF IInv, TypeOK, OpensInv, Panic, Respond, Path
<1>5. RecentsWereRead'
  BY DEF IInv, RecentsWereRead, Panic
<1>6. HeadInv'
  BY <1>0 DEF IInv, TypeOK, HeadInv, Heads, Panic, Respond
<1> QED
  BY <1>1, <1>2, <1>3, <1>4, <1>5, <1>6 DEF IInv

----------------------------------------------------------------------------
(* The theorems.                                                           *)

\* The invariant is inductive.
LEMMA StepKeeps == IInv /\ [Next]_vars => IInv'
PROOF
<1> SUFFICES ASSUME IInv, [Next]_vars PROVE IInv'
  OBVIOUS
<1>1. ASSUME NEW r \in Requests, Send(r) PROVE IInv'
  BY <1>1, SendKeeps
<1>2. ASSUME NEW w \in Workers, NEW r \in Requests, Accept(w, r) PROVE IInv'
  BY <1>2, AcceptKeeps
<1>3. ASSUME NEW w \in Workers, Step(w) PROVE IInv'
  <2>1. CASE Static(w)
    BY <2>1, StaticKeeps
  <2>2. CASE OnDemand(w)
    BY <2>2, OnDemandKeeps
  <2>3. CASE OpenSteps(w)
    BY <2>3, OpenRefusedKeeps, OpenBeginKeeps, OpenRecordKeeps,
       OpenInstallKeeps, OpenReplyKeeps DEF OpenSteps
  <2>4. CASE ListSteps(w)
    BY <2>4, ListStepsKeep
  <2> QED
    BY <1>3, <2>1, <2>2, <2>3, <2>4 DEF Step
<1>4. ASSUME NEW w \in Workers, ReadEnds(w) PROVE IInv'
  BY <1>4, OpenFailsKeeps, OpenReadKeeps DEF ReadEnds
<1>5. ASSUME NEW w \in Workers, Panic(w) PROVE IInv'
  BY <1>5, PanicKeeps
<1>6. CASE UNCHANGED vars
  BY <1>6 DEF vars, IInv, TypeOK, WorkersInv, OneOpenAtATime, OpensInv,
              RecentsWereRead, HeadInv, Heads, Path
<1> QED
  BY <1>1, <1>2, <1>3, <1>4, <1>5, <1>6 DEF Next

\* ... and holds of every behaviour.
THEOREM Inductive == Spec => []IInv
PROOF
<1>1. Init => IInv
  BY InitIInv
<1>2. IInv /\ [Next]_vars => IInv'
  BY StepKeeps
<1> QED
  BY <1>1, <1>2, PTL DEF Spec

\* The state always has its type.
THEOREM TypeCorrect == Spec => []TypeOK
PROOF
<1>1. IInv => TypeOK
  BY DEF IInv
<1> QED
  BY <1>1, Inductive, PTL

\* However requests, failures and panics interleave, at most one open is
\* between its guard and its swap, and it is the one that holds the guard.
THEOREM OpensExclude == Spec => []OneOpenAtATime
PROOF
<1>1. IInv => OneOpenAtATime
  BY DEF IInv
<1> QED
  BY <1>1, Inductive, PTL

\* Whenever no open is in progress, the checkpoint served heads the recents
\* unless it has been forgotten.
THEOREM HeadIsServed == Spec => []ServedHeadsRecents
PROOF
<1>1. IInv => ServedHeadsRecents
  <2> SUFFICES ASSUME IInv, opening = None PROVE Heads(state)
    BY DEF ServedHeadsRecents, Heads
  <2>1. \A w \in Workers : stage[w] # "recorded"
    BY NoneAssumption DEF IInv, OneOpenAtATime
  <2> QED
    BY <2>1 DEF IInv, HeadInv
<1> QED
  BY <1>1, Inductive, PTL

\* The recents only ever name checkpoints that were read, each of them once.
THEOREM RecentsAreReal == Spec => []RecentsWereRead
PROOF
<1>1. IInv => RecentsWereRead
  BY DEF IInv
<1> QED
  BY <1>1, Inductive, PTL

\* No memo of a WebState ever holds anything computed from another one.
THEOREM MemosStayWithTheirState == Spec => []MemosHoldTheirOwnState
PROOF
<1>1. Init => MemosHoldTheirOwnState
  BY DEF Init, MemosHoldTheirOwnState
<1>2. IInv /\ MemosHoldTheirOwnState /\ [Next]_vars => MemosHoldTheirOwnState'
  <2> SUFFICES ASSUME IInv, MemosHoldTheirOwnState, [Next]_vars
               PROVE  MemosHoldTheirOwnState'
    OBVIOUS
  <2>1. CASE UNCHANGED memos
    BY <2>1 DEF memos, MemosHoldTheirOwnState
  <2>2. ASSUME NEW w \in Workers, Encode(w)
        PROVE  MemosHoldTheirOwnState'
    <3>1. \A g \in States, e \in Endpoints :
             bodies'[g][e] \in {bodies[g][e], g}
      BY <2>2 DEF Encode, IInv, TypeOK
    <3> QED
      BY <2>2, <3>1 DEF Encode, MemosHoldTheirOwnState
  <2>3. ASSUME NEW w \in Workers, Scan(w)
        PROVE  MemosHoldTheirOwnState'
    <3>1. \A g \in States, v \in Views :
             stats'[g][v] \in {stats[g][v], g}
      BY <2>3 DEF Scan, IInv, TypeOK
    <3> QED
      BY <2>3, <3>1 DEF Scan, MemosHoldTheirOwnState
  <2>4. CASE UNCHANGED vars
    BY <2>1, <2>4 DEF vars, memos
  <2>5. CASE \E r \in Requests : Send(r)
    BY <2>1, <2>5 DEF Send
  <2>6. CASE \E w \in Workers, r \in Requests : Accept(w, r)
    BY <2>1, <2>6 DEF Accept
  <2>7. ASSUME NEW w \in Workers, Static(w) \/ OnDemand(w)
        PROVE  MemosHoldTheirOwnState'
    BY <2>1, <2>2, <2>3, <2>7
       DEF Static, BodyHit, BodyMiss, EncodeUncached, OnDemand, StatsHit,
           StatsMiss, ScanFails, Bin, Read, DataRefused
  <2>8. ASSUME NEW w \in Workers, OpenSteps(w) \/ ReadEnds(w)
        PROVE  MemosHoldTheirOwnState'
    BY <2>1, <2>8
       DEF OpenSteps, OpenRefused, OpenBegin, OpenRecord, OpenInstall,
           OpenReply, ReadEnds, OpenFails, OpenRead, memos
  <2>9. ASSUME NEW w \in Workers, ListSteps(w) \/ Panic(w)
        PROVE  MemosHoldTheirOwnState'
    BY <2>1, <2>9 DEF ListSteps, Recents, Forget, ForgetReply, Panic, memos
  <2> QED
    BY <2>4, <2>5, <2>6, <2>7, <2>8, <2>9 DEF Next, Step
<1> QED
  BY <1>1, <1>2, Inductive, PTL DEF Spec

(***************************************************************************)
(* The web server implements ServedCheckpoint, for every value of the      *)
(* constants.  A step that hands a request over observes, the swap         *)
(* switches, a response answers, and everything else is a stutter.         *)
(***************************************************************************)

\* What the refinement needs of a state: the invariants proved in
\* WebServerProofs.
RInv == IInv /\ MemosHoldTheirOwnState

\* Only its worker handles a request.
LEMMA HolderIs ==
    ASSUME WorkersInv, NEW w \in Workers, serving[w] # None
    PROVE  Handled(serving[w]) /\ Holder(serving[w]) = w
PROOF
<1>1. Handled(serving[w])
  BY DEF Handled
<1>2. \A x \in Workers : serving[x] = serving[w] => x = w
  BY DEF WorkersInv
<1>3. Holder(serving[w]) \in Workers /\ serving[Holder(serving[w])] = serving[w]
  BY DEF Holder
<1> QED
  BY <1>1, <1>2, <1>3

\* What the mapping makes of a request that a worker handles.
LEMMA MappingOfHandled ==
    ASSUME IInv, NEW w \in Workers, serving[w] # None
    PROVE  /\ PhaseOf(serving[w]) = "waiting"
           /\ SeenBy(serving[w]) = snap[w]
           /\ SeenBy(serving[w]) # 0
           /\ OpenedBy(serving[w]) =
                 IF stage[w] = "installed" THEN made[w] ELSE 0
PROOF
<1>1. Handled(serving[w]) /\ Holder(serving[w]) = w
  BY HolderIs DEF IInv
<1>2. /\ asked[serving[w]] # None /\ reply[serving[w]] = None
      /\ snap[w] \in 1..built
  BY DEF IInv, WorkersInv
<1>3. built \in Nat
  BY StatesAssumption DEF IInv, TypeOK, States
<1> QED
  BY <1>1, <1>2, <1>3 DEF PhaseOf, SeenBy, OpenedBy

\* ... and of one that nobody handles.
LEMMA MappingOfUnhandled ==
    ASSUME NEW r \in Requests, \A w \in Workers : serving[w] # r
    PROVE  SeenBy(r) = 0 /\ OpenedBy(r) = 0
PROOF BY DEF Handled, SeenBy, OpenedBy

\* The mapping of a request only looks at its worker.
LEMMA SameMapping ==
    ASSUME IInv, IInv', NEW r \in Requests,
           asked'[r] = asked[r], reply'[r] = reply[r],
           \A w \in Workers :
              /\ serving'[w] = r <=> serving[w] = r
              /\ serving[w] = r =>
                   /\ snap'[w] = snap[w]
                   /\ (stage'[w] = "installed") <=> (stage[w] = "installed")
                   /\ stage[w] = "installed" => made'[w] = made[w]
    PROVE  /\ PhaseOf(r)' = PhaseOf(r) /\ AnswerTo(r)' = AnswerTo(r)
           /\ SeenBy(r)' = SeenBy(r) /\ OpenedBy(r)' = OpenedBy(r)
PROOF
<1>1. PhaseOf(r)' = PhaseOf(r) /\ AnswerTo(r)' = AnswerTo(r)
  BY DEF PhaseOf, AnswerTo
<1>2. CASE \A w \in Workers : serving[w] # r
  <2>1. \A w \in Workers : serving'[w] # r
    BY <1>2
  <2>2. SeenBy(r) = 0 /\ OpenedBy(r) = 0
    BY <1>2, MappingOfUnhandled
  <2>3. SeenBy(r)' = 0 /\ OpenedBy(r)' = 0
    BY <2>1 DEF Handled, SeenBy, OpenedBy
  <2> QED
    BY <1>1, <2>2, <2>3
<1>3. CASE \E w \in Workers : serving[w] = r
  <2>1. PICK w \in Workers : serving[w] = r
    BY <1>3
  <2>2. Handled(r) /\ Holder(r) = w
    BY <2>1, HolderIs, NoneAssumption DEF IInv
  <2>3. (Handled(r) /\ Holder(r) = w)'
    <3>1. serving'[w] = r
      BY <2>1
    <3>2. \A x \in Workers : serving'[x] = r => x = w
      BY <3>1, NoneAssumption DEF IInv, WorkersInv
    <3>3. Handled(r)'
      BY <3>1 DEF Handled
    <3>4. Holder(r)' \in Workers /\ serving'[Holder(r)'] = r
      BY <3>1 DEF Holder
    <3> QED
      BY <3>2, <3>3, <3>4
  <2> QED
    BY <1>1, <2>1, <2>2, <2>3 DEF SeenBy, OpenedBy
<1> QED
  BY <1>2, <1>3

----------------------------------------------------------------------------
(* The kinds of steps.                                                     *)

\* The server starts with nothing asked, and its first reading served.
LEMMA InitMaps == Init => Abstract!Init
PROOF
<1> SUFFICES ASSUME Init PROVE Abstract!Init
  OBVIOUS
<1>1. \A r \in Requests, w \in Workers : serving[w] # r
  BY NoneAssumption DEF Init
<1>2. \A r \in Requests : SeenBy(r) = 0 /\ OpenedBy(r) = 0
  BY <1>1, MappingOfUnhandled
<1>3. \A r \in Requests : PhaseOf(r) = "unsent" /\ AnswerTo(r) = 0
  BY DEF Init, PhaseOf, AnswerTo
<1>4. state = 1
  BY DEF Init
<1> QED
  BY <1>2, <1>3, <1>4 DEF Abstract!Init

\* A step that neither hands a request over nor answers one nor swaps.
LEMMA StutterMaps ==
    ASSUME IInv, IInv', UNCHANGED <<state, asked, reply, serving, snap>>,
           \A w \in Workers :
              /\ (stage'[w] = "installed") <=> (stage[w] = "installed")
              /\ stage[w] = "installed" => made'[w] = made[w]
    PROVE  UNCHANGED Abstract!vars
PROOF
<1>1. \A r \in Requests :
         /\ PhaseOf(r)' = PhaseOf(r) /\ AnswerTo(r)' = AnswerTo(r)
         /\ SeenBy(r)' = SeenBy(r) /\ OpenedBy(r)' = OpenedBy(r)
  BY SameMapping
<1> QED
  BY <1>1 DEF Abstract!vars

\* A response that is about what its request saw or opened, or about nothing.
LEMMA AnswerMaps ==
    ASSUME IInv, IInv', NEW w \in Workers, NEW a \in Replies,
           NEW r \in Requests, serving[w] = r,
           Respond(w, a), UNCHANGED <<state, asked>>,
           \/ About(a) = 0
           \/ About(a) = snap[w]
           \/ stage[w] = "installed" /\ About(a) = made[w]
    PROVE  Abstract!Answer(r)
PROOF
<1>0. r # None
  BY NoneAssumption
<1>1. /\ PhaseOf(r) = "waiting"
      /\ SeenBy(r) # 0
      /\ About(a) \in {0, SeenBy(r), OpenedBy(r)}
  BY <1>0, MappingOfHandled
<1>2. /\ PhaseOf(r)' = "answered" /\ AnswerTo(r)' = About(a)
  <2>1. asked'[r] # None /\ reply'[r] = a /\ a # None
    BY <1>0, MarkerAssumption DEF IInv, TypeOK, WorkersInv, Respond
  <2> QED
    BY <2>1 DEF PhaseOf, AnswerTo
<1>3. SeenBy(r)' = 0 /\ OpenedBy(r)' = 0
  <2>1. \A x \in Workers : serving'[x] # r
    BY <1>0, NoneAssumption DEF IInv, TypeOK, WorkersInv, Respond
  <2> QED
    BY <2>1 DEF Handled, SeenBy, OpenedBy
<1>4. ASSUME NEW q \in Requests, q # r
      PROVE  /\ PhaseOf(q)' = PhaseOf(q) /\ AnswerTo(q)' = AnswerTo(q)
             /\ SeenBy(q)' = SeenBy(q) /\ OpenedBy(q)' = OpenedBy(q)
  <2>1. asked'[q] = asked[q] /\ reply'[q] = reply[q]
    BY <1>4 DEF IInv, TypeOK, Respond
  <2>2. ASSUME NEW x \in Workers
        PROVE  /\ serving'[x] = q <=> serving[x] = q
               /\ serving[x] = q =>
                    /\ snap'[x] = snap[x]
                    /\ (stage'[x] = "installed") <=> (stage[x] = "installed")
                    /\ stage[x] = "installed" => made'[x] = made[x]
    BY <1>4, NoneAssumption DEF IInv, TypeOK, Respond
  <2> QED
    BY <2>1, <2>2, SameMapping
<1> QED
  BY <1>1, <1>2, <1>3, <1>4 DEF Abstract!Answer

\* A request arrives.
LEMMA SendMaps ==
    ASSUME IInv, IInv', NEW r \in Requests, Send(r)
    PROVE  Abstract!Ask(r)
PROOF
<1>1. PhaseOf(r) = "unsent"
  BY DEF Send, PhaseOf
<1>2. PhaseOf(r)' = "waiting"
  <2>1. asked'[r] # None
    BY MarkerAssumption DEF Send, IInv, TypeOK
  <2>2. reply'[r] = None
    BY DEF Send, IInv, WorkersInv
  <2> QED
    BY <2>1, <2>2 DEF PhaseOf
<1>3. UNCHANGED <<reply, serving, snap, stage, made, state>>
  BY DEF Send, pool, cell
<1>4. SeenBy(r)' = SeenBy(r) /\ OpenedBy(r)' = OpenedBy(r)
      /\ AnswerTo(r)' = AnswerTo(r)
  BY <1>3 DEF SeenBy, OpenedBy, AnswerTo, Handled, Holder
<1>5. ASSUME NEW q \in Requests, q # r
      PROVE  /\ PhaseOf(q)' = PhaseOf(q) /\ AnswerTo(q)' = AnswerTo(q)
             /\ SeenBy(q)' = SeenBy(q) /\ OpenedBy(q)' = OpenedBy(q)
  <2>1. asked'[q] = asked[q]
    BY <1>5 DEF Send, IInv, TypeOK
  <2> QED
    BY <1>3, <2>1, SameMapping
<1> QED
  BY <1>1, <1>2, <1>3, <1>4, <1>5 DEF Abstract!Ask

\* A worker takes its snapshot.
LEMMA AcceptMaps ==
    ASSUME IInv, IInv', NEW w \in Workers, NEW r \in Requests, Accept(w, r)
    PROVE  Abstract!Observe(r)
PROOF
<1>0. r # None
  BY NoneAssumption
<1>1. /\ serving[w] = None /\ asked[r] # None /\ reply[r] = None
      /\ \A x \in Workers : serving[x] # r
      /\ UNCHANGED <<asked, reply, state, made>>
  BY DEF Accept, Waiting, cell
<1>2. PhaseOf(r) = "waiting" /\ PhaseOf(r)' = "waiting"
      /\ AnswerTo(r)' = AnswerTo(r)
  BY <1>1 DEF PhaseOf, AnswerTo
<1>3. SeenBy(r) = 0 /\ OpenedBy(r) = 0
  BY <1>1, MappingOfUnhandled
<1>4. /\ serving'[w] = r /\ snap'[w] = state /\ stage'[w] = "routed"
      /\ \A x \in Workers \ {w} : /\ serving'[x] = serving[x]
                                  /\ snap'[x] = snap[x]
                                  /\ stage'[x] = stage[x]
  BY DEF Accept, IInv, TypeOK
<1>5. SeenBy(r)' = state /\ OpenedBy(r)' = 0
  <2>1. Handled(r)' /\ Holder(r)' = w
    <3>1. Holder(r)' \in Workers /\ serving'[Holder(r)'] = r
      BY <1>4 DEF Holder
    <3> QED
      BY <1>1, <1>4, <3>1 DEF Handled
  <2> QED
    BY <1>4, <2>1 DEF SeenBy, OpenedBy
<1>6. ASSUME NEW q \in Requests, q # r
      PROVE  /\ PhaseOf(q)' = PhaseOf(q) /\ AnswerTo(q)' = AnswerTo(q)
             /\ SeenBy(q)' = SeenBy(q) /\ OpenedBy(q)' = OpenedBy(q)
  <2>1. ASSUME NEW x \in Workers
        PROVE  /\ serving'[x] = q <=> serving[x] = q
               /\ serving[x] = q =>
                    /\ snap'[x] = snap[x]
                    /\ (stage'[x] = "installed") <=> (stage[x] = "installed")
                    /\ stage[x] = "installed" => made'[x] = made[x]
    BY <1>1, <1>4, <1>6, NoneAssumption
  <2> QED
    BY <1>1, <2>1, SameMapping
<1> QED
  BY <1>1, <1>2, <1>3, <1>5, <1>6 DEF Abstract!Observe

\* The swap.
LEMMA InstallMaps ==
    ASSUME IInv, IInv', NEW w \in Workers, NEW r \in Requests,
           serving[w] = r, OpenInstall(w)
    PROVE  Abstract!Switch(r)
PROOF
<1>0. r # None
  BY NoneAssumption
<1>1. /\ stage[w] = "recorded" /\ state' = made[w]
      /\ UNCHANGED <<asked, reply, serving, snap, made>>
      /\ stage' = [stage EXCEPT ![w] = "installed"]
  BY DEF OpenInstall, Handling, Goto
<1>2. made[w] \in States /\ made[w] > state
  <2>1. made[w] \in 1..built /\ state < made[w]
    BY <1>1 DEF IInv, OpensInv
  <2> QED
    BY <2>1, StatesAssumption DEF IInv, TypeOK, States
<1>3. PhaseOf(r) = "waiting" /\ OpenedBy(r) = 0
  BY <1>0, <1>1, MappingOfHandled
<1>4. /\ PhaseOf(r)' = PhaseOf(r) /\ AnswerTo(r)' = AnswerTo(r)
      /\ SeenBy(r)' = SeenBy(r)
  BY <1>1 DEF PhaseOf, AnswerTo, SeenBy, Handled, Holder
<1>5. OpenedBy(r)' = made[w]
  <2>1. Handled(r)' /\ Holder(r)' = w
    <3>1. Handled(r) /\ Holder(r) = w
      BY <1>0, HolderIs DEF IInv
    <3> QED
      BY <1>1, <3>1 DEF Handled, Holder
  <2>2. stage'[w] = "installed" /\ made'[w] = made[w]
    BY <1>1 DEF IInv, TypeOK
  <2> QED
    BY <2>1, <2>2 DEF OpenedBy
<1>6. ASSUME NEW q \in Requests, q # r
      PROVE  /\ PhaseOf(q)' = PhaseOf(q) /\ AnswerTo(q)' = AnswerTo(q)
             /\ SeenBy(q)' = SeenBy(q) /\ OpenedBy(q)' = OpenedBy(q)
  <2>1. ASSUME NEW x \in Workers, serving[x] = q
        PROVE  (stage'[x] = "installed") <=> (stage[x] = "installed")
    BY <1>1, <1>6, <2>1 DEF IInv, TypeOK
  <2> QED
    BY <1>1, <2>1, SameMapping
<1> QED
  BY <1>1, <1>2, <1>3, <1>4, <1>5, <1>6
     DEF Abstract!Switch, Abstract!Readings, States

----------------------------------------------------------------------------
(* Every step of the server is a step of the abstract server or a stutter. *)

\* What the answers are about.
LEMMA AnswersAbout ==
    /\ \A g : About(Data(g)) = g
    /\ \A g, l : About(Opened(g, l)) = g
    /\ \A l : About(Listed(l)) = 0
    /\ About(Error) = 0 /\ About(Busy) = 0 /\ About(Panicked) = 0
PROOF BY DEF About, Data, Opened, Listed, Error, Busy, Panicked

\* The endpoints' answers come from the snapshot, whether or not the memo has
\* them: a memo of the snapshot's state holds nothing else.
LEMMA DataStepsMap ==
    ASSUME RInv, IInv', NEW w \in Workers, NEW r \in Requests, serving[w] = r,
           Static(w) \/ OnDemand(w)
    PROVE  Abstract!Answer(r) \/ UNCHANGED Abstract!vars
PROOF
<1>0. /\ serving[w] # None
      /\ snap[w] \in States
      /\ Data(snap[w]) \in Replies /\ About(Data(snap[w])) = snap[w]
      /\ Error \in Replies /\ About(Error) = 0
  BY NoneAssumption, HandlingFacts, AnswersAreReplies, AnswersAbout DEF RInv
<1>1. ASSUME UNCHANGED <<cell, asked>>,
             Respond(w, Data(snap[w])) \/ Respond(w, Error)
      PROVE  Abstract!Answer(r)
  BY <1>0, <1>1, AnswerMaps DEF RInv, cell
<1>2. ASSUME UNCHANGED <<cell, asked, made>>,
             NEW st \in {"encoding", "scanning", "binning"}, Goto(w, st),
             stage[w] # "installed"
      PROVE  UNCHANGED Abstract!vars
  <2>1. \A x \in Workers :
           (stage'[x] = "installed") <=> (stage[x] = "installed")
    BY <1>2 DEF Goto, RInv, IInv, TypeOK
  <2> QED
    BY <1>2, <2>1, StutterMaps DEF RInv, Goto, cell
<1>3. CASE BodyHit(w)
  <2>1. Key(w) \in Endpoints
    BY <1>0, <1>3, HandlingFacts DEF RInv, BodyHit, Handling
  <2>2. bodies[snap[w]][Key(w)] = snap[w]
    BY <1>0, <1>3, <2>1 DEF RInv, MemosHoldTheirOwnState, BodyHit
  <2> QED
    BY <1>1, <1>3, <2>2 DEF BodyHit
<1>4. CASE StatsHit(w)
  <2>1. Key(w) \in Views
    BY <1>0, <1>4, HandlingFacts DEF RInv, StatsHit, Handling
  <2>2. stats[snap[w]][Key(w)] = snap[w]
    BY <1>0, <1>4, <2>1 DEF RInv, MemosHoldTheirOwnState, StatsHit
  <2> QED
    BY <1>1, <1>2, <1>4, <2>2 DEF StatsHit, StatsReady, Handling
<1>5. CASE BodyMiss(w) \/ StatsMiss(w)
  BY <1>2, <1>5 DEF BodyMiss, StatsMiss, Handling
<1>6. CASE Encode(w) \/ EncodeUncached(w) \/ Bin(w) \/ Read(w)
  BY <1>1, <1>6 DEF Encode, EncodeUncached, Bin, Read
<1>7. CASE Scan(w)
  BY <1>1, <1>2, <1>7 DEF Scan, StatsReady, Handling
<1>8. CASE ScanFails(w) \/ DataRefused(w)
  BY <1>1, <1>8 DEF ScanFails, DataRefused
<1> QED
  BY <1>3, <1>4, <1>5, <1>6, <1>7, <1>8 DEF Static, OnDemand

\* The steps of an open before and after its swap.
LEMMA OpenStepsMap ==
    ASSUME RInv, IInv', NEW w \in Workers, NEW r \in Requests, serving[w] = r,
           OpenSteps(w) \/ ReadEnds(w)
    PROVE  \/ Abstract!Answer(r) \/ Abstract!Switch(r)
           \/ UNCHANGED Abstract!vars
PROOF
<1>1. CASE OpenInstall(w)
  BY <1>1, InstallMaps DEF RInv
<1>2. CASE OpenRefused(w)
  <2>1. Busy \in Replies /\ About(Busy) = 0
    BY AnswersAreReplies, AnswersAbout
  <2> QED
    BY <1>2, <2>1, AnswerMaps DEF RInv, OpenRefused, cell
<1>3. CASE OpenFails(w)
  <2>1. Error \in Replies /\ About(Error) = 0
    BY AnswersAreReplies, AnswersAbout
  <2> QED
    BY <1>3, <2>1, AnswerMaps DEF RInv, OpenFails
<1>4. CASE OpenReply(w)
  <2>1. stage[w] = "installed" /\ made[w] \in States
    BY <1>4, StatesAssumption
       DEF OpenReply, Handling, RInv, IInv, TypeOK, OpensInv, States
  <2>2. Opened(made[w], recents) \in Replies
    BY <2>1, AnswersAreReplies DEF RInv, IInv, TypeOK
  <2>3. About(Opened(made[w], recents)) = made[w]
    BY AnswersAbout
  <2> QED
    BY <1>4, <2>1, <2>2, <2>3, AnswerMaps DEF RInv, OpenReply, cell
<1>5. CASE OpenBegin(w) \/ OpenRead(w) \/ OpenRecord(w)
  <2>1. \A x \in Workers :
           /\ (stage'[x] = "installed") <=> (stage[x] = "installed")
           /\ stage[x] = "installed" => made'[x] = made[x]
    BY <1>5 DEF OpenBegin, OpenRead, OpenRecord, Handling, Goto,
                RInv, IInv, TypeOK
  <2>2. UNCHANGED <<state, asked, reply, serving, snap>>
    BY <1>5 DEF OpenBegin, OpenRead, OpenRecord, Goto
  <2> QED
    BY <2>1, <2>2, StutterMaps DEF RInv
<1> QED
  BY <1>1, <1>2, <1>3, <1>4, <1>5 DEF OpenSteps, ReadEnds

\* The recents, and a handler that panics.
LEMMA OtherStepsMap ==
    ASSUME RInv, IInv', NEW w \in Workers, NEW r \in Requests, serving[w] = r,
           ListSteps(w) \/ Panic(w)
    PROVE  Abstract!Answer(r) \/ UNCHANGED Abstract!vars
PROOF
<1>1. /\ Listed(recents) \in Replies /\ About(Listed(recents)) = 0
      /\ Error \in Replies /\ About(Error) = 0
      /\ Panicked \in Replies /\ About(Panicked) = 0
  BY AnswersAreReplies, AnswersAbout DEF RInv, IInv, TypeOK
<1>2. CASE Recents(w) \/ ForgetReply(w)
  BY <1>1, <1>2, AnswerMaps DEF RInv, Recents, ForgetReply, cell
<1>3. CASE Panic(w)
  BY <1>1, <1>3, AnswerMaps DEF RInv, Panic
<1>4. CASE Forget(w) /\ Respond(w, Error)
  BY <1>1, <1>4, AnswerMaps DEF RInv, Forget
<1>5. CASE Forget(w) /\ Goto(w, "forgotten") /\ UNCHANGED made
  <2>1. \A x \in Workers :
           (stage'[x] = "installed") <=> (stage[x] = "installed")
    BY <1>5 DEF Forget, Handling, Goto, RInv, IInv, TypeOK
  <2> QED
    BY <1>5, <2>1, StutterMaps DEF RInv, Forget, Goto
<1> QED
  BY <1>2, <1>3, <1>4, <1>5 DEF ListSteps, Forget

\* The server implements ServedCheckpoint: every answer is about one
\* checkpoint, served at some moment between the question and the answer, and
\* what is served only ever moves on to something read later.
THEOREM Refines == Spec => ServesOneCheckpoint
PROOF
<1>1. Init => Abstract!Init
  BY InitMaps
<1>2. RInv /\ IInv' /\ [Next]_vars => [Abstract!Next]_Abstract!vars
  <2> SUFFICES ASSUME RInv, IInv', [Next]_vars
               PROVE  Abstract!Next \/ UNCHANGED Abstract!vars
    OBVIOUS
  <2>1. ASSUME NEW r \in Requests, Send(r) PROVE Abstract!Next
    BY <2>1, SendMaps DEF RInv, Abstract!Next
  <2>2. ASSUME NEW w \in Workers, NEW r \in Requests, Accept(w, r)
        PROVE  Abstract!Next
    BY <2>2, AcceptMaps DEF RInv, Abstract!Next
  <2>3. ASSUME NEW w \in Workers, Step(w) \/ ReadEnds(w) \/ Panic(w)
        PROVE  Abstract!Next \/ UNCHANGED Abstract!vars
    <3>1. serving[w] \in Requests
      <4>1. stage[w] # "free"
        BY <2>3
           DEF Step, Static, BodyHit, BodyMiss, Encode, EncodeUncached,
               OnDemand, StatsHit, StatsMiss, Scan, ScanFails, Bin, Read,
               DataRefused, OpenSteps, OpenRefused, OpenBegin, OpenRecord,
               OpenInstall, OpenReply, ListSteps, Recents, Forget,
               ForgetReply, ReadEnds, OpenFails, OpenRead, Panic, Handling
      <4> QED
        BY <4>1 DEF RInv, IInv, WorkersInv
    <3> QED
      BY <2>3, <3>1, DataStepsMap, OpenStepsMap, OtherStepsMap
         DEF Step, Abstract!Next
  <2>4. CASE UNCHANGED vars
    BY <2>4, StutterMaps DEF vars, RInv
  <2> QED
    BY <2>1, <2>2, <2>3, <2>4 DEF Next
<1> QED
  BY <1>1, <1>2, Inductive, MemosStayWithTheirState, PTL
     DEF Spec, RInv, ServesOneCheckpoint, Abstract!Spec
=============================================================================
