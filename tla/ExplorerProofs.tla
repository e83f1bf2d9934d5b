--------------------------- MODULE ExplorerProofs ---------------------------
(***************************************************************************)
(* The terminal explorer's screens and scans, proved for any checkpoints,  *)
(* names, views and threads, and any number of inputs and switches.        *)
(*                                                                         *)
(* The invariant is about who holds a thread: the screen holds at most one *)
(* for itself and one that the user waits for, both read the tensor that   *)
(* shows, of the checkpoint as it is, and every other thread is told to    *)
(* stop.  A screen can only be left, a checkpoint only be switched, where  *)
(* none is held.                                                           *)
(***************************************************************************)
EXTENDS Explorer, SequenceTheorems, TLAPS

\* The screens of a tensor are those that name one; the tree that replaces a
\* screen whose tensor is missing is the last there can be.
Screens ==
  \A i \in 1..Len(history) :
    /\ history[i].kind \in {"detail", "data"} <=> history[i].tensor # None
    /\ history[i].tensor # None => i <= MaxHistory

\* A thread whose result is waited for.
Wanted(w) ==
  /\ w \in Workers /\ workers[w] # None /\ ~workers[w].cancel
  /\ Shown # None /\ workers[w].name = Shown /\ workers[w].epoch = epoch

Scanning ==
  /\ front # None <=> stage = "animate"
  /\ stage \in {"resolve", "notice", "quit"} => job = None
  /\ job # None => Wanted(job)
  /\ front # None => Wanted(front) /\ workers[front].view = view[Shown] /\ front # job
  /\ \A w \in Workers : workers[w] # None => workers[w].cancel \/ w \in {job, front}

\* The statistics kept are under the name and the view they are of.
Placed ==
  \A n \in Names, v \in Views :
    stats[n][v] # None => stats[n][v].name = n /\ stats[n][v].view = v

IInv == TypeOK /\ Screens /\ Scanning /\ Placed

(***************************************************************************)
(* The types, in three groups.                                             *)
(***************************************************************************)

LoadedType ==
  /\ files \in Checkpoints /\ disk \in [Checkpoints -> SUBSET Names]
  /\ epoch \in 0..MaxEpoch
  /\ session \in [names : SUBSET Names, epoch : 0..epoch] \union {None}
  /\ full \in BOOLEAN /\ unread \in BOOLEAN
  /\ report \in (0..epoch) \union {None} /\ totals \in (0..epoch) \union {None}

AScreen == [kind : ScreenKinds, tensor : Names \union {None}]

NavType ==
  /\ history \in Seq(AScreen)
  /\ Len(history) \in 1..(MaxHistory + 1)
  /\ cursor \in 0..(Len(history) - 1)

Stages == {"resolve", "tick", "wait", "handle", "animate", "message", "notice", "quit"}

ScanType ==
  /\ stats \in [Names -> [Views -> [name : Names, view : Views] \union {None}]]
  /\ view \in [Names -> Views]
  /\ stage \in Stages
  /\ job \in Workers \union {None} /\ front \in Workers \union {None}
  /\ workers \in [Workers -> Thread \union {None}]
  /\ flash \in BOOLEAN /\ inputs \in 0..MaxInputs

LEMMA TypeOfParts == TypeOK <=> LoadedType /\ NavType /\ ScanType
PROOF
  BY DEF TypeOK, LoadedType, NavType, ScanType, AScreen, Stages

(***************************************************************************)
(* What is kept of a checkpoint.                                           *)
(***************************************************************************)

LEMMA LoadedStep == LoadedType /\ [Next]_vars => LoadedType'
PROOF
<1> SUFFICES ASSUME LoadedType, [Next]_vars PROVE LoadedType'
  OBVIOUS
<1>1. CASE UNCHANGED loaded
  BY <1>1 DEF loaded, LoadedType
<1>2. ASSUME NEW c \in Checkpoints, NEW d \in [Checkpoints -> SUBSET Names],
             files' = c, disk' = d, unread' \in BOOLEAN,
             epoch' \in 0..MaxEpoch, FinalizeLoad(c, d, epoch')
      PROVE  LoadedType'
  <2>1. epoch' \in 0..epoch'
    BY <1>2, ExplorerAssumptions
  <2>2. session' = [names |-> d[c], epoch |-> epoch'] /\ report' = None /\ totals' = None /\ full' = TRUE
    BY <1>2 DEF FinalizeLoad
  <2>3. session' \in [names : SUBSET Names, epoch : 0..epoch']
    BY <2>1, <2>2
  <2> QED
    BY <1>2, <2>2, <2>3 DEF LoadedType
<1>3. epoch \in Nat /\ (epoch < MaxEpoch => epoch + 1 \in 0..MaxEpoch)
  BY ExplorerAssumptions DEF LoadedType
<1>4. \A e \in Nat : 0..e \subseteq 0..(e + 1) /\ e \in 0..e
  OBVIOUS
<1>5. CASE Resolve
  <2>1. CASE EnsureFullLoad
    <3>1. CASE /\ FinalizeLoad(files, disk, epoch) /\ unread' = FALSE
               /\ UNCHANGED <<files, disk, epoch>>
      BY <1>2, <3>1 DEF LoadedType
    <3> QED
      BY <1>1, <2>1, <3>1 DEF EnsureFullLoad
  <2>2. CASE /\ totals' = IF totals = None THEN epoch ELSE totals
             /\ UNCHANGED <<files, disk, epoch, session, full, unread, report>>
    <3>1. totals' \in (0..epoch) \union {None}
      BY <1>3, <1>4, <2>2 DEF LoadedType
    <3> QED
      BY <2>2, <3>1 DEF LoadedType
  <2> QED
    BY <1>1, <1>5, <2>1, <2>2 DEF Resolve, MissingScreen
<1>6. CASE OpenCheckpoint
  <2>1. PICK c \in Checkpoints : SwitchTo(c)
    BY <1>6 DEF OpenCheckpoint
  <2>2. epoch' = epoch + 1 /\ epoch' \in 0..MaxEpoch /\ files' = c /\ disk' = disk /\ unread' = FALSE
    BY <1>3, <2>1 DEF SwitchTo
  <2>3. CASE FinalizeLoad(c, disk, epoch')
    BY <1>2, <2>2, <2>3 DEF LoadedType
  <2>4. CASE session' = None /\ full' = FALSE /\ UNCHANGED <<report, totals>>
    <3>1. report' \in (0..epoch') \union {None} /\ totals' \in (0..epoch') \union {None}
      BY <1>3, <1>4, <2>2, <2>4 DEF LoadedType
    <3> QED
      BY <2>2, <2>4, <3>1 DEF LoadedType
  <2> QED
    BY <2>1, <2>3, <2>4 DEF SwitchTo
<1>7. CASE ShowCheckReport
  <2>1. report' = (IF report = None THEN epoch ELSE report)
        /\ UNCHANGED <<files, disk, epoch, session, full, unread, totals>>
    BY <1>7 DEF ShowCheckReport
  <2>2. report' \in (0..epoch) \union {None}
    BY <1>3, <1>4, <2>1 DEF LoadedType
  <2> QED
    BY <2>1, <2>2 DEF LoadedType
<1>8. CASE ApplyRename
  <2>1. PICK names \in RenamesOf(disk[files]) : disk' = [disk EXCEPT ![files] = names]
    BY <1>8 DEF ApplyRename
  <2>2. names \subseteq Names
    BY <2>1 DEF RenamesOf, LoadedType
  <2>3. disk' \in [Checkpoints -> SUBSET Names]
    BY <2>1, <2>2 DEF LoadedType
  <2>4. epoch' = epoch + 1 /\ epoch' \in 0..MaxEpoch /\ files' = files
    BY <1>3, <1>8 DEF ApplyRename
  <2>5. CASE FinalizeLoad(files, disk', epoch') /\ unread' = FALSE
    BY <1>2, <2>3, <2>4, <2>5 DEF LoadedType
  <2>6. CASE unread' = TRUE /\ UNCHANGED <<session, full, report, totals>>
    <3>1. report' \in (0..epoch') \union {None} /\ totals' \in (0..epoch') \union {None}
      BY <1>3, <1>4, <2>4, <2>6 DEF LoadedType
    <3>2. session' \in [names : SUBSET Names, epoch : 0..epoch'] \union {None}
      BY <1>3, <1>4, <2>4, <2>6 DEF LoadedType
    <3> QED
      BY <2>3, <2>4, <2>6, <3>1, <3>2 DEF LoadedType
  <2> QED
    BY <1>8, <2>5, <2>6 DEF ApplyRename
<1>9. Next /\ ~ (Resolve \/ OpenCheckpoint \/ ShowCheckReport \/ ApplyRename) => UNCHANGED loaded
  BY DEF Next, Program, User, Step, Handle, Tick, Timeout, FlashExpires, ScanFinishes,
         Input, ScanCancelled, DismissMessage, ReadBlock, BlockBoundary, IdleInput,
         GoBackOrForward, OpenScreen, ChangeView, CopyScreen, ComputeStats, Quit
<1> QED
  BY <1>1, <1>5, <1>6, <1>7, <1>8, <1>9 DEF vars, loaded

LEMMA LoadedInit == Init => LoadedType /\ LoadedIsCurrent
PROOF
<1> SUFFICES ASSUME Init PROVE LoadedType /\ LoadedIsCurrent
  OBVIOUS
<1>1. /\ files \in Checkpoints /\ disk = TensorsOf /\ epoch = 0
      /\ unread = FALSE /\ report = None /\ totals = None /\ full = FALSE
  BY DEF Init
<1>2. 0 \in 0..MaxEpoch /\ TensorsOf \in [Checkpoints -> SUBSET Names]
  BY ExplorerAssumptions
<1>3. session \in [names : SUBSET Names, epoch : 0..0] \union {None}
  BY <1>1, <1>2 DEF Init
<1> QED
  BY <1>1, <1>2, <1>3 DEF LoadedType, LoadedIsCurrent

\* The names that show of a checkpoint, once it is read, its check report and
\* its statistics as a whole are those of all of it, as it is now, through any
\* switches and any renames that were carried through and read back.
THEOREM LoadedStaysCurrent == Spec => []LoadedIsCurrent
PROOF
<1> USE DEF LoadedIsCurrent
<1>1. ASSUME LoadedIsCurrent, [Next]_vars PROVE LoadedIsCurrent'
  <2>1. CASE UNCHANGED loaded
    BY <1>1, <2>1 DEF loaded
  <2>2. ASSUME FinalizeLoad(files', disk', epoch') PROVE LoadedIsCurrent'
    BY <2>2 DEF FinalizeLoad
  <2>3. CASE Resolve
    <3>1. CASE EnsureFullLoad
      BY <2>1, <2>2, <3>1 DEF EnsureFullLoad
    <3>2. CASE /\ totals' = IF totals = None THEN epoch ELSE totals
               /\ UNCHANGED <<files, disk, epoch, session, full, unread, report>>
      BY <1>1, <3>2
    <3> QED
      BY <2>1, <2>3, <3>1, <3>2 DEF Resolve, MissingScreen
  <2>4. CASE OpenCheckpoint
    <3>1. PICK c \in Checkpoints : SwitchTo(c)
      BY <2>4 DEF OpenCheckpoint
    <3>2. files' = c /\ disk' = disk
      BY <3>1 DEF SwitchTo
    <3>3. FinalizeLoad(files', disk', epoch') \/ full' = FALSE
      BY <3>1, <3>2 DEF SwitchTo, FinalizeLoad
    <3> QED
      BY <2>2, <3>3
  <2>5. CASE ShowCheckReport
    BY <1>1, <2>5 DEF ShowCheckReport
  <2>6. CASE ApplyRename
    <3>1. files' = files /\ (FinalizeLoad(files, disk', epoch') \/ unread' = TRUE)
      BY <2>6 DEF ApplyRename
    <3>2. FinalizeLoad(files', disk', epoch') \/ unread' = TRUE
      BY <3>1 DEF FinalizeLoad
    <3> QED
      BY <2>2, <3>2
  <2>7. Next /\ ~ (Resolve \/ OpenCheckpoint \/ ShowCheckReport \/ ApplyRename) => UNCHANGED loaded
    BY DEF Next, Program, User, Step, Handle, Tick, Timeout, FlashExpires, ScanFinishes,
           Input, ScanCancelled, DismissMessage, ReadBlock, BlockBoundary, IdleInput,
           GoBackOrForward, OpenScreen, ChangeView, CopyScreen, ComputeStats, Quit
  <2> QED
    BY <1>1, <2>1, <2>3, <2>4, <2>5, <2>6, <2>7 DEF vars, loaded
<1> HIDE DEF LoadedIsCurrent
<1> QED
  BY <1>1, LoadedInit, PTL DEF Spec

(***************************************************************************)
(* The screens.                                                            *)
(***************************************************************************)

LEMMA CurrentIs ==
  ASSUME NavType
  PROVE  /\ Current \in AScreen /\ cursor \in Nat /\ cursor + 1 \in 1..Len(history)
         /\ Len(history) \in Nat /\ Shown \in Names \union {None}
         /\ Screens => /\ Current.kind \in {"detail", "data"} <=> Shown # None
                       /\ Shown # None => cursor + 1 <= MaxHistory
PROOF
<1>1. Len(history) \in Nat /\ cursor \in Nat /\ cursor + 1 \in 1..Len(history)
  BY DEF NavType
<1>2. history[cursor + 1] \in AScreen
  BY <1>1, ElementOfSeq DEF NavType
<1> QED
  BY <1>1, <1>2 DEF Current, Shown, Screens, AScreen

\* A screen opened from the one that shows takes the place of what followed.
LEMMA Opened ==
  ASSUME NavType, Screens, NEW screen \in AScreen, cursor + 1 <= MaxHistory,
         screen.kind \in {"detail", "data"} <=> screen.tensor # None,
         screen.tensor # None => cursor + 1 < MaxHistory,
         history' = Append(SubSeq(history, 1, cursor + 1), screen), cursor' = cursor + 1
  PROVE  NavType' /\ Screens'
PROOF
<1> DEFINE before == SubSeq(history, 1, cursor + 1)
<1>1. cursor \in Nat /\ cursor + 1 \in 1..Len(history) /\ Len(history) \in Nat
  BY CurrentIs
<1>2. /\ before \in Seq(AScreen) /\ Len(before) = cursor + 1
      /\ \A i \in 1..(cursor + 1) : before[i] = history[i]
  BY <1>1, SubSeqProperties DEF NavType
<1> HIDE DEF before
<1>3. /\ history' \in Seq(AScreen) /\ Len(history') = cursor + 2
      /\ \A i \in 1..(cursor + 1) : history'[i] = before[i]
      /\ history'[cursor + 2] = screen
  <2>1. history' = Append(before, screen)
    BY DEF before
  <2> QED
    BY <1>1, <1>2, <2>1, AppendProperties
<1>4. NavType'
  BY <1>1, <1>3, ExplorerAssumptions DEF NavType
<1>5. ASSUME NEW i \in 1..Len(history')
      PROVE  /\ history'[i].kind \in {"detail", "data"} <=> history'[i].tensor # None
             /\ history'[i].tensor # None => i <= MaxHistory
  <2>1. CASE i = cursor + 2
    <3>1. cursor + 1 < MaxHistory => i <= MaxHistory
      BY <1>1, <2>1, ExplorerAssumptions
    <3> QED
      BY <1>3, <2>1, <3>1
  <2>2. CASE i # cursor + 2
    <3>1. i \in 1..(cursor + 1) /\ i \in 1..Len(history)
      BY <1>1, <1>3, <2>2
    <3>2. history'[i] = history[i]
      BY <1>2, <1>3, <3>1
    <3> QED
      BY <3>1, <3>2 DEF Screens
  <2> QED
    BY <2>1, <2>2
<1> QED
  BY <1>4, <1>5 DEF Screens

LEMMA Moved ==
  ASSUME NavType, Screens, history' = history, cursor' \in 0..(Len(history) - 1)
  PROVE  NavType' /\ Screens'
PROOF
  BY DEF NavType, Screens

LEMMA BackAndForward ==
  ASSUME NavType, Screens, Back \/ Forward
  PROVE  NavType' /\ Screens'
PROOF
<1>1. history' = history
  BY DEF Back, Forward
<1>2. cursor' \in 0..(Len(history) - 1)
  BY CurrentIs DEF Back, Forward, NavType
<1> QED
  BY <1>1, <1>2, Moved

LEMMA NavStep == TypeOK /\ Screens /\ [Next]_vars => NavType' /\ Screens'
PROOF
<1> SUFFICES ASSUME TypeOK, Screens, [Next]_vars PROVE NavType' /\ Screens'
  OBVIOUS
<1>0. NavType /\ LoadedType /\ Tree \in AScreen /\ Tree.kind = "tree" /\ Tree.tensor = None
  BY TypeOfParts DEF AScreen, ScreenKinds, Tree, Screen
<1>1. CASE UNCHANGED nav
  BY <1>0, <1>1, Moved DEF nav, NavType
<1>2. Tensors \subseteq Names /\ None \notin Names
  BY <1>0, MarkersAssumption DEF LoadedType, Tensors
<1>3. CASE Resolve
  <2>1. CASE /\ Shown # None /\ Current.kind = "detail"
             /\ history' = Append(SubSeq(history, 1, cursor + 1), Tree) /\ cursor' = cursor + 1
    BY <1>0, <2>1, CurrentIs, Opened
  <2>2. CASE Back
    BY <1>0, <2>2, BackAndForward
  <2> QED
    BY <1>1, <1>3, <2>1, <2>2 DEF Resolve, MissingScreen, EnterRename, nav
<1>4. CASE GoBackOrForward
  BY <1>0, <1>4, BackAndForward DEF GoBackOrForward, Go
<1>5. CASE OpenScreen
  <2>1. ASSUME NEW screen \in AScreen, Open(screen),
               screen.kind \in {"detail", "data"} <=> screen.tensor # None
        PROVE  NavType' /\ Screens'
    <3>1. cursor + 1 < MaxHistory /\ cursor + 1 <= MaxHistory
      BY <1>0, <2>1, CurrentIs, ExplorerAssumptions DEF Open
    <3> QED
      BY <1>0, <2>1, <3>1, Opened DEF Open
  <2>2. ASSUME NEW name \in Names, NEW kind \in {"detail", "data"}, Open(Screen(kind, name))
        PROVE  NavType' /\ Screens'
    <3>1. /\ Screen(kind, name) \in AScreen /\ Screen(kind, name).kind = kind
          /\ Screen(kind, name).tensor = name
      BY DEF Screen, AScreen, ScreenKinds
    <3> QED
      BY <1>2, <2>1, <2>2, <3>1
  <2>3. ASSUME NEW kind \in {"stats", "rename"}, Open(Screen(kind, None))
        PROVE  NavType' /\ Screens'
    <3>1. /\ Screen(kind, None) \in AScreen /\ Screen(kind, None).kind = kind
          /\ Screen(kind, None).tensor = None
      BY DEF Screen, AScreen, ScreenKinds
    <3> QED
      BY <2>1, <2>3, <3>1
  <2>4. CASE Open(Tree)
    BY <1>0, <2>1, <2>4
  <2>5. Current.kind \in {"detail", "data"} => Shown \in Names
    BY <1>0, CurrentIs
  <2> QED
    BY <1>2, <1>5, <2>2, <2>3, <2>4, <2>5 DEF OpenScreen, Go
<1>6. CASE ApplyRename \/ DismissMessage
  <2>1. Back \/ UNCHANGED nav
    BY <1>6 DEF ApplyRename, DismissMessage, Stay
  <2> QED
    BY <1>0, <1>1, <2>1, BackAndForward
<1>7. Next /\ ~ (Resolve \/ GoBackOrForward \/ OpenScreen \/ ApplyRename \/ DismissMessage)
        => UNCHANGED nav
  BY DEF Next, Program, User, Step, Handle, Tick, Timeout, FlashExpires, ScanFinishes,
         Input, ScanCancelled, ReadBlock, BlockBoundary, IdleInput,
         OpenCheckpoint, ShowCheckReport, ChangeView, CopyScreen, ComputeStats, Quit, Stay, nav
<1> QED
  BY <1>1, <1>3, <1>4, <1>5, <1>6, <1>7 DEF vars, nav

(***************************************************************************)
(* The scans.                                                              *)
(***************************************************************************)

Threads == [Workers -> Thread \union {None}]

LEMMA NoThread == None \notin Thread /\ None \notin Workers /\ None \notin Names /\ None \notin Nat
PROOF
  BY MarkersAssumption

\* Dropping a thread stops it and touches no other.
LEMMA AbandonFacts ==
  ASSUME NEW ws \in Threads, NEW w \in Workers \union {None}, w # None => ws[w] # None
  PROVE  /\ Abandon(ws, w) \in Threads
         /\ \A v \in Workers : v # w => Abandon(ws, w)[v] = ws[v]
         /\ w # None => \/ Abandon(ws, w)[w] = None
                        \/ Abandon(ws, w)[w].cancel
PROOF
<1>1. CASE w = None
  BY <1>1, NoThread DEF Abandon
<1>2. CASE w # None
  <2>1. w \in Workers /\ ws[w] \in Thread
    BY <1>2 DEF Threads
  <2> DEFINE stopped == [ws[w] EXCEPT !.cancel = TRUE, !.name = None, !.view = None, !.epoch = None]
             left == IF Ended(w) THEN None ELSE stopped
  <2>2. stopped \in Thread /\ stopped.cancel = TRUE
    BY <2>1 DEF Thread
  <2> HIDE DEF stopped
  <2>3. left \in Thread \union {None} /\ (left = None \/ left.cancel)
    BY <2>2
  <2>4. Abandon(ws, w) = [ws EXCEPT ![w] = left]
    BY <1>2 DEF Abandon, stopped
  <2> HIDE DEF left
  <2> QED
    BY <2>1, <2>3, <2>4 DEF Threads
<1> QED
  BY <1>1, <1>2

LEMMA NewThread ==
  ASSUME TypeOK, NEW name \in Names
  PROVE  /\ NewWorker(name) \in Thread /\ NewWorker(name).name = name
         /\ NewWorker(name).view = view[name] /\ NewWorker(name).epoch = epoch
         /\ ~NewWorker(name).cancel /\ NewWorker(name) # None
PROOF
<1>1. view[name] \in Views /\ epoch \in Nat /\ Blocks \in Nat
  BY ExplorerAssumptions DEF TypeOK
<1>2. NewWorker(name) \in Thread
  BY <1>1 DEF NewWorker, Thread
<1> QED
  BY <1>2, NoThread DEF NewWorker

\* The thread goes on being waited for while its screen shows.
LEMMA StillWanted ==
  ASSUME NEW w, Wanted(w), UNCHANGED nav, epoch' = epoch,
         workers'[w] # None, ~workers'[w].cancel, workers'[w].name = workers[w].name,
         workers'[w].epoch = workers[w].epoch
  PROVE  Wanted(w)'
PROOF
  BY DEF Wanted, nav, Shown, Current

\* Where no thread is held, any screen may come and any checkpoint.
LEMMA NoneHeld ==
  ASSUME job' = None, front' = None, stage' # "animate",
         \A w \in Workers : workers'[w] # None => workers'[w].cancel
  PROVE  Scanning'
PROOF
  BY DEF Scanning

LEMMA HeldAre ==
  ASSUME TypeOK, Screens, Scanning
  PROVE  /\ job # None => /\ job \in Workers /\ workers[job] \in Thread /\ workers[job] # None
                          /\ Shown \in Names /\ workers[job].name = Shown
         /\ front # None => /\ front \in Workers /\ workers[front] \in Thread
                            /\ workers[front] # None /\ Shown \in Names
                            /\ workers[front].name = Shown
PROOF
  BY TypeOfParts, CurrentIs DEF Scanning, Wanted, ScanType

\* The screen lets go of its thread, and nobody waits for another.
LEMMA LeftBehind ==
  ASSUME TypeOK, Screens, Scanning, stage = "handle", job' = None, front' = front,
         workers' = Abandon(workers, job), stage' # "animate"
  PROVE  workers' \in Threads /\ Scanning'
PROOF
<1>1. front = None
  BY DEF Scanning
<1>2. workers \in Threads /\ job \in Workers \union {None}
  BY DEF TypeOK, Threads
<1>3. job # None => workers[job] # None
  BY HeldAre
<1>4. workers' \in Threads
  BY <1>2, <1>3, AbandonFacts
<1>5. ASSUME NEW w \in Workers, workers'[w] # None PROVE workers'[w].cancel
  <2>1. CASE w = job
    BY <1>2, <1>3, <1>5, <2>1, AbandonFacts, NoThread
  <2>2. CASE w # job
    <3>1. workers'[w] = workers[w]
      BY <1>2, <1>3, <2>2, AbandonFacts
    <3> QED
      BY <1>1, <1>5, <2>2, <3>1, NoThread DEF Scanning
  <2> QED
    BY <2>1, <2>2
<1> QED
  BY <1>1, <1>4, <1>5, NoneHeld

Statistics == [Names -> [Views -> [name : Names, view : Views] \union {None}]]

\* A scan that ends is kept under the tensor that shows and its view, which is
\* what the thread was started for.
LEMMA Landed ==
  ASSUME stats \in Statistics, Placed, NEW w \in Workers, NEW n \in Names, NEW v \in Views,
         workers[w].name = n, workers[w].view = v,
         stats' = stats \/ stats' = [stats EXCEPT ![n][v] = Result(w)]
  PROVE  stats' \in Statistics /\ Placed'
PROOF
<1>1. CASE stats' = stats
  BY <1>1 DEF Placed
<1>2. CASE stats' = [stats EXCEPT ![n][v] = Result(w)]
  <2>1. /\ Result(w) \in [name : Names, view : Views]
        /\ Result(w).name = n /\ Result(w).view = v
    BY DEF Result
  <2> DEFINE kept == [stats[n] EXCEPT ![v] = Result(w)]
  <2>2. stats' = [stats EXCEPT ![n] = kept]
    BY <1>2 DEF Statistics
  <2>3. /\ kept \in [Views -> [name : Names, view : Views] \union {None}]
        /\ \A u \in Views : kept[u] = IF u = v THEN Result(w) ELSE stats[n][u]
    BY <2>1 DEF Statistics
  <2> HIDE DEF kept
  <2>4. stats' \in Statistics /\ \A m \in Names : stats'[m] = IF m = n THEN kept ELSE stats[m]
    BY <2>2, <2>3 DEF Statistics
  <2>5. ASSUME NEW m \in Names, NEW u \in Views, stats'[m][u] # None
        PROVE  stats'[m][u].name = m /\ stats'[m][u].view = u
    BY <2>1, <2>3, <2>4, <2>5 DEF Placed
  <2> QED
    BY <2>4, <2>5 DEF Placed
<1> QED
  BY <1>1, <1>2

LEMMA ScanningTick ==
  ASSUME IInv, Tick
  PROVE  ScanType' /\ Scanning' /\ Placed'
PROOF
<1>0. TypeOK /\ Screens /\ Scanning /\ Placed /\ ScanType /\ NavType
  BY TypeOfParts DEF IInv
<1>1. /\ stage = "tick" /\ stage' = "wait" /\ front' = front /\ front = None
      /\ UNCHANGED <<view, nav, flash, inputs>> /\ epoch' = epoch
  BY <1>0 DEF Tick, Scanning, loaded
<1>2. workers \in Threads /\ job \in Workers \union {None}
  BY <1>0 DEF ScanType, Threads
<1>3. job # None => /\ job \in Workers /\ workers[job] \in Thread /\ workers[job] # None
                    /\ Shown \in Names /\ workers[job].name = Shown
  BY <1>0, HeldAre
<1>4. \A w \in Workers : w # job => workers[w] = None \/ workers[w].cancel
  BY <1>0, <1>1, NoThread DEF Scanning
<1>5. stage' \in Stages
  BY <1>1 DEF Stages
<1>6. CASE UNCHANGED <<stats, job, workers>>
  <2>1. ScanType'
    BY <1>0, <1>1, <1>5, <1>6 DEF ScanType
  <2>2. job # None => Wanted(job)'
    BY <1>0, <1>1, <1>3, <1>6, StillWanted DEF Scanning, Wanted
  <2>3. Scanning'
    BY <1>0, <1>1, <1>6, <2>2 DEF Scanning
  <2> QED
    BY <1>0, <1>6, <2>1, <2>3 DEF Placed
<1>7. CASE job' = None /\ workers' = Abandon(workers, job) /\ UNCHANGED stats
  <2>1. workers' \in Threads
    BY <1>2, <1>3, <1>7, AbandonFacts
  <2>2. ScanType'
    BY <1>0, <1>1, <1>5, <1>7, <2>1 DEF ScanType, Threads
  <2>3. \A w \in Workers : workers'[w] # None => workers'[w].cancel
    BY <1>2, <1>3, <1>4, <1>7, AbandonFacts, NoThread
  <2>4. Scanning'
    BY <1>1, <1>7, <2>3, NoneHeld
  <2> QED
    BY <1>0, <1>7, <2>2, <2>4 DEF Placed
<1>8. CASE /\ Scans /\ HasFree /\ UNCHANGED stats
           /\ workers' = [Abandon(workers, job) EXCEPT ![Spare] = NewWorker(Shown)]
           /\ job' = Spare
  <2>1. Spare \in Workers /\ workers[Spare] = None
    BY <1>8 DEF Spare, HasFree
  <2>2. Spare # job
    BY <1>3, <2>1, NoThread
  <2>3. Shown \in Names
    BY <1>0, <1>8, CurrentIs DEF Scans
  <2>4. /\ NewWorker(Shown) \in Thread /\ NewWorker(Shown).name = Shown
        /\ NewWorker(Shown).epoch = epoch /\ ~NewWorker(Shown).cancel /\ NewWorker(Shown) # None
    BY <1>0, <2>3, NewThread
  <2>5. Abandon(workers, job) \in Threads
    BY <1>2, <1>3, AbandonFacts
  <2>6. workers' \in Threads /\ workers'[Spare] = NewWorker(Shown)
    BY <1>8, <2>1, <2>4, <2>5 DEF Threads
  <2>7. \A w \in Workers : w # Spare => workers'[w] = Abandon(workers, job)[w]
    BY <1>8, <2>5 DEF Threads
  <2>8. ASSUME NEW w \in Workers, w # Spare, workers'[w] # None PROVE workers'[w].cancel
    BY <1>2, <1>3, <1>4, <2>7, <2>8, AbandonFacts, NoThread
  <2>9. Shown' = Shown
    BY <1>1 DEF nav, Shown, Current
  <2>10. Wanted(job)'
    BY <1>1, <1>8, <2>1, <2>3, <2>4, <2>6, <2>9, NoThread DEF Wanted
  <2>11. ScanType'
    BY <1>0, <1>1, <1>5, <1>8, <2>1, <2>6 DEF ScanType, Threads
  <2>12. Scanning'
    BY <1>1, <1>8, <2>8, <2>10 DEF Scanning
  <2> QED
    BY <1>0, <1>8, <2>11, <2>12 DEF Placed
<1>9. CASE Scans /\ JobFits /\ Ended(job) /\ Harvest(job, view[Shown]) /\ job' = None
  <2>1. job # None /\ workers[job].view = view[Shown]
    BY <1>9 DEF JobFits
  <2>2. workers' = [workers EXCEPT ![job] = None]
    BY <1>9 DEF Harvest
  <2>3. workers' \in Threads /\ \A w \in Workers : workers'[w] = IF w = job THEN None ELSE workers[w]
    BY <1>2, <2>2 DEF Threads
  <2>4. Scanning'
    BY <1>1, <1>4, <1>9, <2>3, NoneHeld
  <2>5. view[Shown] \in Views
    BY <1>0, <1>3, <2>1 DEF ScanType
  <2>6. \/ stats' = stats
        \/ stats' = [stats EXCEPT ![Shown][view[Shown]] = Result(job)]
    BY <1>9 DEF Harvest
  <2>7. stats \in Statistics
    BY <1>0 DEF ScanType, Statistics
  <2>8. stats' \in Statistics /\ Placed'
    BY <1>0, <1>3, <2>1, <2>5, <2>6, <2>7, Landed
  <2>9. ScanType'
    BY <1>0, <1>1, <1>5, <1>9, <2>3, <2>8 DEF ScanType, Threads, Statistics
  <2> QED
    BY <2>4, <2>8, <2>9
<1> QED
  BY <1>6, <1>7, <1>8, <1>9 DEF Tick

\* An input that leaves the screen in place leaves its thread to it.  The
\* checkpoint is only switched in the tree, which has none.
LEMMA Stayed ==
  ASSUME TypeOK, Screens, Scanning, stage = "handle", stage' = "tick",
         UNCHANGED <<nav, job, front, workers>>, epoch' = epoch \/ Shown = None
  PROVE  Scanning'
PROOF
<1>1. front = None /\ front' = None
  BY DEF Scanning
<1>2. job # None => Wanted(job)'
  <2>1. job # None => epoch' = epoch
    BY DEF Scanning, Wanted
  <2> QED
    BY <2>1, StillWanted DEF Scanning, Wanted
<1> QED
  BY <1>1, <1>2 DEF Scanning

\* A thread that is waited for goes on being waited for when one thread moves.
LEMMA OneMoves ==
  ASSUME TypeOK, Scanning, NEW w \in Workers, workers[w] # None,
         NEW t \in Thread \union {None}, workers' = [workers EXCEPT ![w] = t],
         t = None => workers[w].cancel,
         t # None => /\ t.cancel = workers[w].cancel /\ t.name = workers[w].name
                     /\ t.view = workers[w].view /\ t.epoch = workers[w].epoch,
         UNCHANGED <<nav, view, job, front>>, epoch' = epoch,
         (stage = "animate") <=> (stage' = "animate"),
         stage' \in {"resolve", "notice", "quit"} => stage' = stage
  PROVE  workers' \in Threads /\ Scanning'
PROOF
<1>1. /\ workers' \in Threads
      /\ \A v \in Workers : workers'[v] = IF v = w THEN t ELSE workers[v]
  BY DEF TypeOK, Threads
<1>2. ASSUME NEW v, Wanted(v) PROVE Wanted(v)'
  BY <1>1, <1>2, StillWanted DEF Wanted
<1>3. Shown' = Shown
  BY DEF nav, Shown, Current
<1>4. front # None => workers'[front].view = view'[Shown']
  BY <1>1, <1>3 DEF Scanning, Wanted
<1>5. ASSUME NEW v \in Workers, workers'[v] # None PROVE workers'[v].cancel \/ v \in {job, front}
  BY <1>1, <1>5 DEF Scanning
<1> QED
  BY <1>1, <1>2, <1>4, <1>5 DEF Scanning

LEMMA ThreadsStep ==
  ASSUME TypeOK, Scanning, NEW w \in Workers, Step(w)
  PROVE  workers' \in Threads /\ Scanning'
PROOF
<1>1. workers[w] # None /\ workers[w] \in Thread
  BY DEF TypeOK, Step, ReadBlock, BlockBoundary
<1>2. UNCHANGED <<nav, view, job, front, stage>> /\ epoch' = epoch
  BY DEF Step, ReadBlock, BlockBoundary, loaded
<1>3. PICK t \in Thread \union {None} :
        /\ workers' = [workers EXCEPT ![w] = t]
        /\ t = None => workers[w].cancel
        /\ t # None => /\ t.cancel = workers[w].cancel /\ t.name = workers[w].name
                       /\ t.view = workers[w].view /\ t.epoch = workers[w].epoch
  <2>1. workers \in Threads
    BY DEF TypeOK, Threads
  <2>2. ASSUME NEW result \in {"ok", "failed"}, End(w, result)
        PROVE  \E t \in Thread \union {None} :
                 /\ workers' = [workers EXCEPT ![w] = t]
                 /\ t = None => workers[w].cancel
                 /\ t # None => /\ t.cancel = workers[w].cancel /\ t.name = workers[w].name
                                /\ t.view = workers[w].view /\ t.epoch = workers[w].epoch
    <3> DEFINE ended == [workers[w] EXCEPT !.end = result]
               t == IF workers[w].cancel THEN None ELSE ended
    <3>1. /\ ended \in Thread /\ ended.cancel = workers[w].cancel /\ ended.name = workers[w].name
          /\ ended.view = workers[w].view /\ ended.epoch = workers[w].epoch
      BY <1>1 DEF Thread
    <3>2. workers' = [workers EXCEPT ![w] = t]
      BY <2>1, <2>2 DEF End, Threads
    <3> HIDE DEF ended
    <3>3. t \in Thread \union {None} /\ ended # None
      BY <3>1, NoThread
    <3> QED
      BY <3>1, <3>2, <3>3
  <2>3. CASE workers' = [workers EXCEPT ![w].left = @ - 1, ![w].between = TRUE] /\ workers[w].left # 0
    <3> DEFINE less == workers[w].left - 1
               t == [workers[w] EXCEPT !.left = less, !.between = TRUE]
    <3>0. less \in Nat
      BY <1>1, <2>3 DEF Thread
    <3> HIDE DEF less
    <3>1. /\ t \in Thread /\ t.cancel = workers[w].cancel /\ t.name = workers[w].name
          /\ t.view = workers[w].view /\ t.epoch = workers[w].epoch
      BY <1>1, <3>0 DEF Thread
    <3>2. workers' = [workers EXCEPT ![w] = t]
      BY <2>1, <1>1, <2>3 DEF Threads, Thread, less
    <3> HIDE DEF t
    <3> QED
      BY <3>1, <3>2, NoThread
  <2>4. CASE workers' = [workers EXCEPT ![w].between = FALSE]
    <3> DEFINE t == [workers[w] EXCEPT !.between = FALSE]
    <3>1. /\ t \in Thread /\ t.cancel = workers[w].cancel /\ t.name = workers[w].name
          /\ t.view = workers[w].view /\ t.epoch = workers[w].epoch
      BY <1>1 DEF Thread
    <3>2. workers' = [workers EXCEPT ![w] = t]
      BY <2>1, <2>4 DEF Threads
    <3> HIDE DEF t
    <3> QED
      BY <3>1, <3>2, NoThread
  <2> QED
    BY <2>2, <2>3, <2>4 DEF Step, ReadBlock, BlockBoundary
<1> QED
  BY <1>1, <1>2, <1>3, OneMoves

LEMMA Paused ==
  ASSUME TypeOK, Screens, Scanning, NEW p \in BOOLEAN, SetPaused(p) \/ workers' = workers,
         UNCHANGED <<nav, view, job, front>>, epoch' = epoch,
         stage # "animate", stage' \in {"tick", "handle"}
  PROVE  workers' \in Threads /\ Scanning'
PROOF
<1>1. workers \in Threads
  BY DEF TypeOK, Threads
<1>2. CASE job # None /\ SetPaused(p)
  <2> DEFINE t == [workers[job] EXCEPT !.pause = p]
  <2>1. workers[job] \in Thread /\ job \in Workers /\ workers[job] # None
    BY <1>2, HeldAre
  <2>2. /\ t \in Thread /\ t.cancel = workers[job].cancel /\ t.name = workers[job].name
        /\ t.view = workers[job].view /\ t.epoch = workers[job].epoch
    BY <2>1 DEF Thread
  <2>3. workers' = [workers EXCEPT ![job] = t]
    BY <1>1, <1>2 DEF SetPaused, Threads
  <2> HIDE DEF t
  <2> QED
    BY <2>1, <2>2, <2>3, NoThread, OneMoves
<1>3. CASE workers' = workers
  <2>1. ASSUME NEW v, Wanted(v) PROVE Wanted(v)'
    BY <1>3, <2>1, StillWanted DEF Wanted
  <2>2. Shown' = Shown
    BY DEF nav, Shown, Current
  <2> QED
    BY <1>1, <1>3, <2>1, <2>2 DEF Scanning
<1> QED
  BY <1>2, <1>3 DEF SetPaused

LEMMA ScanningFront ==
  ASSUME IInv, ScanFinishes \/ ScanCancelled
  PROVE  ScanType' /\ Scanning' /\ Placed'
PROOF
<1>0. TypeOK /\ Screens /\ Scanning /\ Placed /\ ScanType
  BY TypeOfParts DEF IInv
<1>1. /\ stage = "animate" /\ front' = None /\ stage' \in {"tick", "message"}
      /\ UNCHANGED <<view, nav, flash, job>> /\ epoch' = epoch
      /\ inputs' \in 0..MaxInputs
  BY <1>0, ExplorerAssumptions DEF ScanFinishes, ScanCancelled, loaded, ScanType
<1>2. front # None /\ workers \in Threads /\ job # front
  BY <1>0, <1>1 DEF Scanning, ScanType, Threads
<1>3. /\ front \in Workers /\ workers[front] \in Thread /\ workers[front] # None
      /\ Shown \in Names /\ workers[front].name = Shown /\ workers[front].view = view[Shown]
  BY <1>0, <1>2, HeldAre DEF Scanning
<1>4. /\ workers' \in Threads
      /\ \A w \in Workers : w # front => workers'[w] = workers[w]
      /\ workers'[front] = None \/ workers'[front].cancel
      /\ stats' \in Statistics /\ Placed'
  <2>1. CASE ScanFinishes
    <3>1. workers' = [workers EXCEPT ![front] = None]
      BY <2>1 DEF ScanFinishes, Harvest
    <3>2. \/ stats' = stats
          \/ stats' = [stats EXCEPT ![Shown][view[Shown]] = Result(front)]
      BY <2>1 DEF ScanFinishes, Harvest
    <3>3. stats \in Statistics /\ view[Shown] \in Views
      BY <1>0, <1>3 DEF ScanType, Statistics
    <3>4. stats' \in Statistics /\ Placed'
      BY <1>0, <1>3, <3>2, <3>3, Landed
    <3> QED
      BY <1>2, <1>3, <3>1, <3>4 DEF Threads
  <2>2. CASE ScanCancelled
    <3>1. workers' = Abandon(workers, front) /\ stats' = stats
      BY <2>2 DEF ScanCancelled
    <3> QED
      BY <1>0, <1>2, <1>3, <3>1, AbandonFacts, NoThread DEF ScanType, Statistics, Placed
  <2> QED
    BY <2>1, <2>2
<1>5. job # None => Wanted(job)'
  BY <1>0, <1>1, <1>2, <1>4, StillWanted DEF Scanning, Wanted
<1>6. ASSUME NEW w \in Workers, workers'[w] # None PROVE workers'[w].cancel \/ w \in {job', front'}
  BY <1>0, <1>1, <1>4, <1>6 DEF Scanning
<1>7. Scanning'
  BY <1>1, <1>5, <1>6 DEF Scanning
<1>8. ScanType'
  BY <1>0, <1>1, <1>4, <1>7 DEF ScanType, Threads, Statistics, Stages
<1> QED
  BY <1>4, <1>7, <1>8

LEMMA ScanningStats ==
  ASSUME IInv, ComputeStats
  PROVE  ScanType' /\ Scanning'
PROOF
<1>0. TypeOK /\ Screens /\ Scanning /\ ScanType /\ NavType
  BY TypeOfParts DEF IInv
<1>1. stage = "handle" /\ UNCHANGED <<loaded, stats, view, inputs>> /\ Current.kind = "detail"
  BY DEF ComputeStats
<1>2. epoch' = epoch /\ front = None
  BY <1>0, <1>1 DEF loaded, Scanning
<1>3. CASE Stay(TRUE)
  <2>1. Scanning'
    BY <1>0, <1>1, <1>2, <1>3, Stayed DEF Stay, nav
  <2> QED
    BY <1>0, <1>1, <1>3, <2>1 DEF Stay, ScanType, Stages
<1>4. CASE /\ HasFree /\ workers' = [workers EXCEPT ![Spare] = NewWorker(Shown)]
           /\ front' = Spare /\ stage' = "animate" /\ flash' = FALSE /\ UNCHANGED <<nav, job>>
  <2>1. Spare \in Workers /\ workers[Spare] = None
    BY <1>4 DEF Spare, HasFree
  <2>2. job # None => job # Spare /\ job \in Workers
    BY <1>0, <2>1, HeldAre
  <2>3. Shown \in Names /\ Shown' = Shown
    BY <1>0, <1>1, <1>4, CurrentIs DEF nav, Shown, Current
  <2>4. /\ NewWorker(Shown) \in Thread /\ NewWorker(Shown).name = Shown
        /\ NewWorker(Shown).view = view[Shown]
        /\ NewWorker(Shown).epoch = epoch /\ ~NewWorker(Shown).cancel /\ NewWorker(Shown) # None
    BY <1>0, <2>3, NewThread
  <2>5. /\ workers' \in Threads /\ workers'[Spare] = NewWorker(Shown)
        /\ \A w \in Workers : w # Spare => workers'[w] = workers[w]
    BY <1>0, <1>4, <2>1, <2>4 DEF ScanType, Threads
  <2>6. job # None => Wanted(job)'
    BY <1>0, <1>2, <1>4, <2>2, <2>5, StillWanted DEF Scanning, Wanted
  <2>7. Wanted(front)' /\ workers'[front'].view = view'[Shown']
    BY <1>1, <1>2, <1>4, <2>1, <2>3, <2>4, <2>5, NoThread DEF Wanted
  <2>8. ASSUME NEW w \in Workers, workers'[w] # None PROVE workers'[w].cancel \/ w \in {job', front'}
    BY <1>0, <1>2, <1>4, <2>5, <2>8, NoThread DEF Scanning
  <2>9. front' # None /\ front' # job'
    BY <1>4, <2>1, <2>2, NoThread
  <2>10. Scanning'
    BY <1>4, <2>6, <2>7, <2>8, <2>9 DEF Scanning
  <2> QED
    BY <1>0, <1>1, <1>4, <2>1, <2>5, <2>10 DEF ScanType, Threads, Stages
<1> QED
  BY <1>3, <1>4 DEF ComputeStats

LEMMA ScanningStay ==
  ASSUME IInv, stage = "handle", Stay(flash'), flash' \in BOOLEAN, view' \in [Names -> Views],
         UNCHANGED <<stats, inputs>>, epoch' = epoch \/ Shown = None
  PROVE  ScanType' /\ Scanning'
PROOF
<1>0. TypeOK /\ Screens /\ Scanning /\ ScanType
  BY TypeOfParts DEF IInv
<1>1. stage' = "tick" /\ UNCHANGED <<nav, job, front, workers>>
  BY DEF Stay
<1>2. Scanning'
  BY <1>0, <1>1, Stayed
<1> QED
  BY <1>0, <1>1, <1>2 DEF ScanType, Stages

LEMMA ScanningLeave ==
  ASSUME IInv, stage = "handle", job' = None, workers' = Abandon(workers, job),
         stage' \in {"resolve", "quit"}, flash' \in BOOLEAN, UNCHANGED <<front, stats, view, inputs>>
  PROVE  ScanType' /\ Scanning'
PROOF
<1>0. TypeOK /\ Screens /\ Scanning /\ ScanType
  BY TypeOfParts DEF IInv
<1>1. workers' \in Threads /\ Scanning'
  BY <1>0, LeftBehind
<1> QED
  BY <1>0, <1>1 DEF ScanType, Threads, Stages

LEMMA ScanningHandle ==
  ASSUME IInv, Handle
  PROVE  ScanType' /\ Scanning' /\ Placed'
PROOF
<1>0. Screens /\ Placed /\ ScanType /\ NavType
  BY TypeOfParts DEF IInv
<1>1. stage = "handle" /\ stats' = stats /\ (~ComputeStats => inputs' = inputs)
  BY DEF Handle, IdleInput, GoBackOrForward, OpenScreen, OpenCheckpoint, ShowCheckReport,
         ApplyRename, ChangeView, CopyScreen, ComputeStats, Quit
<1>2. Placed'
  BY <1>0, <1>1 DEF Placed
<1>3. flash \in BOOLEAN /\ view \in [Names -> Views]
  BY <1>0 DEF ScanType
<1>4. CASE ComputeStats
  BY <1>2, <1>4, ScanningStats
<1>5. CASE IdleInput \/ ShowCheckReport \/ ChangeView \/ CopyScreen
  <2>1. /\ flash' \in {flash, TRUE, FALSE} /\ Stay(flash')
        /\ epoch' = epoch /\ UNCHANGED <<stats, inputs>>
    BY <1>5 DEF IdleInput, ShowCheckReport, ChangeView, CopyScreen, Stay, loaded
  <2>2. view' = view \/ \E v \in Views : view' = [view EXCEPT ![Shown] = v]
    BY <1>5 DEF IdleInput, ShowCheckReport, ChangeView, CopyScreen
  <2>3. view' \in [Names -> Views]
    BY <1>3, <2>2
  <2>4. flash' \in BOOLEAN
    BY <1>3, <2>1
  <2> QED
    BY <1>1, <1>2, <2>1, <2>3, <2>4, ScanningStay
<1>6. CASE OpenCheckpoint
  <2>1. Shown = None
    BY <1>0, <1>6, CurrentIs DEF OpenCheckpoint
  <2>2. full' \in BOOLEAN
    BY <1>6 DEF OpenCheckpoint, SwitchTo, FinalizeLoad
  <2>3. flash' = full' /\ Stay(flash') /\ UNCHANGED <<stats, view, inputs>>
    BY <1>6 DEF OpenCheckpoint, Stay
  <2>4. flash' \in BOOLEAN /\ view' \in [Names -> Views]
    BY <1>3, <2>2, <2>3
  <2> QED
    BY <1>1, <1>2, <2>1, <2>3, <2>4, ScanningStay
<1>7. CASE ApplyRename /\ Stay(FALSE)
  <2>1. Shown = None
    BY <1>0, <1>7, CurrentIs DEF ApplyRename
  <2>2. flash' = FALSE /\ Stay(flash') /\ UNCHANGED <<stats, view, inputs>>
    BY <1>7 DEF ApplyRename, Stay
  <2> QED
    BY <1>1, <1>2, <1>3, <2>1, <2>2, ScanningStay
<1>8. CASE GoBackOrForward \/ OpenScreen \/ (ApplyRename /\ ~ Stay(FALSE)) \/ Quit
  <2>1. /\ job' = None /\ workers' = Abandon(workers, job) /\ stage' \in {"resolve", "quit"}
        /\ flash' \in {flash, TRUE, FALSE} /\ UNCHANGED <<front, stats, view, inputs>>
    <3>1. CASE GoBackOrForward
      BY <3>1 DEF GoBackOrForward, Go, Leave
    <3>2. CASE OpenScreen
      BY <3>2 DEF OpenScreen, Go, Leave
    <3>3. CASE ApplyRename /\ ~ Stay(FALSE)
      BY <3>3 DEF ApplyRename, Leave
    <3>4. CASE Quit
      BY <3>4 DEF Quit
    <3> QED
      BY <1>8, <3>1, <3>2, <3>3, <3>4
  <2>2. flash' \in BOOLEAN
    BY <1>3, <2>1
  <2> QED
    BY <1>1, <1>2, <2>1, <2>2, ScanningLeave
<1> QED
  BY <1>4, <1>5, <1>6, <1>7, <1>8 DEF Handle

LEMMA ScanningStep == IInv /\ [Next]_vars => ScanType' /\ Scanning' /\ Placed'
PROOF
<1> SUFFICES ASSUME IInv, [Next]_vars PROVE ScanType' /\ Scanning' /\ Placed'
  OBVIOUS
<1>0. TypeOK /\ Screens /\ Scanning /\ Placed /\ ScanType /\ NavType
  BY TypeOfParts DEF IInv
<1>1. CASE UNCHANGED vars
  <2>1. UNCHANGED <<nav, stats, view, stage, flash, job, front, workers, inputs>> /\ epoch' = epoch
    BY <1>1 DEF vars, scans, loaded
  <2>2. ASSUME NEW w, Wanted(w) PROVE Wanted(w)'
    BY <2>1, <2>2, StillWanted DEF Wanted
  <2>3. Shown' = Shown
    BY <2>1 DEF nav, Shown, Current
  <2>4. Scanning'
    BY <1>0, <2>1, <2>2, <2>3 DEF Scanning
  <2> QED
    BY <1>0, <2>1, <2>4 DEF ScanType, Placed
<1>2. CASE Resolve
  <2>1. /\ stage = "resolve" /\ stage' \in {"resolve", "tick", "notice", "quit"}
        /\ UNCHANGED <<stats, view, flash, job, front, workers, inputs>>
    BY <1>2 DEF Resolve, MissingScreen, EnterRename, scans
  <2>2. job = None /\ front = None
    BY <1>0, <2>1 DEF Scanning
  <2>3. Scanning'
    BY <1>0, <2>1, <2>2, NoThread, NoneHeld DEF Scanning
  <2> QED
    BY <1>0, <2>1, <2>3 DEF ScanType, Placed, Stages
<1>3. CASE Timeout \/ Input
  <2>1. /\ UNCHANGED <<nav, stats, view, flash, job, front>> /\ epoch' = epoch
        /\ stage = "wait" /\ stage' \in {"tick", "handle"}
    BY <1>3 DEF Timeout, Input, loaded
  <2>2. inputs' \in 0..MaxInputs
    <3>1. inputs' = inputs \/ (inputs < MaxInputs /\ inputs' = inputs + 1)
      BY <1>3 DEF Timeout, Input
    <3> QED
      BY <1>0, <3>1, ExplorerAssumptions DEF ScanType
  <2>3. SetPaused(FALSE) \/ SetPaused(TRUE) \/ workers' = workers
    BY <1>3 DEF Timeout, Input
  <2>4. PICK p \in BOOLEAN : SetPaused(p) \/ workers' = workers
    BY <2>3
  <2>5. workers' \in Threads /\ Scanning'
    BY <1>0, <2>1, <2>4, Paused
  <2>6. Placed'
    BY <1>0, <2>1 DEF Placed
  <2> QED
    BY <1>0, <2>1, <2>2, <2>5, <2>6 DEF ScanType, Stages, Threads
<1>4. CASE DismissMessage /\ stage = "notice"
  <2>1. /\ UNCHANGED <<stats, view, flash, job, front, workers>> /\ stage' = "resolve"
    BY <1>4 DEF DismissMessage, scans
  <2>2. job = None /\ front = None
    BY <1>0, <1>4 DEF Scanning
  <2>3. Scanning'
    BY <1>0, <2>1, <2>2, NoThread, NoneHeld DEF Scanning
  <2>4. inputs' \in 0..MaxInputs
    BY <1>0, <1>4, ExplorerAssumptions DEF DismissMessage, ScanType
  <2> QED
    BY <1>0, <2>1, <2>3, <2>4 DEF ScanType, Placed, Stages
<1>5. CASE FlashExpires \/ (DismissMessage /\ stage # "notice")
  <2>1. /\ UNCHANGED <<nav, stats, view, job, front, workers>> /\ epoch' = epoch
        /\ stage \in {"wait", "message"} /\ stage' = "tick"
    BY <1>5 DEF FlashExpires, DismissMessage, loaded, scans
  <2>2. workers' \in Threads /\ Scanning'
    BY <1>0, <2>1, Paused
  <2>3. Placed'
    BY <1>0, <2>1 DEF Placed
  <2>4. inputs' \in 0..MaxInputs
    BY <1>0, <1>5, ExplorerAssumptions DEF FlashExpires, DismissMessage, ScanType
  <2>5. flash' = flash \/ flash' = FALSE
    BY <1>5 DEF FlashExpires, DismissMessage
  <2>6. flash' \in BOOLEAN
    BY <1>0, <2>5 DEF ScanType
  <2> QED
    BY <1>0, <2>1, <2>2, <2>3, <2>4, <2>6 DEF ScanType, Stages, Threads
<1>6. ASSUME NEW w \in Workers, Step(w) PROVE ScanType' /\ Scanning' /\ Placed'
  <2>1. workers' \in Threads /\ Scanning'
    BY <1>0, <1>6, ThreadsStep
  <2>2. UNCHANGED <<stats, view, stage, flash, job, front, inputs>>
    BY <1>6 DEF Step, ReadBlock, BlockBoundary
  <2> QED
    BY <1>0, <2>1, <2>2 DEF ScanType, Placed, Threads
<1> QED
  BY <1>1, <1>2, <1>3, <1>4, <1>5, <1>6, ScanningTick, ScanningFront, ScanningHandle
     DEF Next, Program, User

LEMMA InvInit == Init => IInv
PROOF
<1> SUFFICES ASSUME Init PROVE IInv
  OBVIOUS
<1>1. PICK name \in Names \union {None}, kind \in ScreenKinds :
        \/ history = <<Tree>> /\ cursor = 0
        \/ /\ history = <<Tree, Screen(kind, name)>> /\ cursor = 1
           /\ name # None /\ kind \in {"detail", "data"}
  <2>1. CASE history = <<Tree>> /\ cursor = 0
    BY <2>1 DEF ScreenKinds
  <2>2. ASSUME NEW name \in TensorsOf[files], NEW kind \in {"detail", "data"},
               history = <<Tree, Screen(kind, name)>>, cursor = 1
        PROVE  /\ name \in Names /\ name # None /\ kind \in ScreenKinds
    <3>1. files \in Checkpoints
      BY DEF Init
    <3> QED
      BY <2>2, <3>1, ExplorerAssumptions, NoThread DEF ScreenKinds
  <2>3. CASE \E name \in TensorsOf[files], kind \in {"detail", "data"} :
               history = <<Tree, Screen(kind, name)>> /\ cursor = 1
    BY <2>2, <2>3
  <2> QED
    BY <2>1, <2>3 DEF Init
<1>2. Tree \in AScreen /\ Tree.kind = "tree" /\ Tree.tensor = None
  BY DEF Tree, Screen, AScreen, ScreenKinds
<1>3. /\ Screen(kind, name) \in AScreen /\ Screen(kind, name).kind = kind
      /\ Screen(kind, name).tensor = name
  BY DEF Screen, AScreen
<1>4. NavType /\ Screens
  <2>1. CASE history = <<Tree>> /\ cursor = 0
    <3>1. history \in Seq(AScreen) /\ Len(history) = 1 /\ history[1] = Tree
      BY <1>2, <2>1
    <3> QED
      BY <1>2, <2>1, <3>1, ExplorerAssumptions DEF NavType, Screens
  <2>2. CASE history = <<Tree, Screen(kind, name)>> /\ cursor = 1 /\ name # None
               /\ kind \in {"detail", "data"}
    <3>1. history \in Seq(AScreen) /\ Len(history) = 2 /\ history[1] = Tree
          /\ history[2] = Screen(kind, name)
      BY <1>2, <1>3, <2>2
    <3>2. \A i \in 1..Len(history) : i = 1 \/ i = 2
      BY <3>1
    <3>3. Screens
      BY <1>2, <1>3, <2>2, <3>1, <3>2, ExplorerAssumptions DEF Screens
    <3> QED
      BY <2>2, <3>1, <3>3, ExplorerAssumptions DEF NavType
  <2> QED
    BY <1>1, <2>1, <2>2
<1>5. /\ stats = [n \in Names |-> [v \in Views |-> None]]
      /\ view = [n \in Names |-> StoredView]
      /\ stage = "resolve" /\ flash = FALSE
      /\ job = None /\ front = None /\ workers = [w \in Workers |-> None]
      /\ inputs = 0
  BY DEF Init
<1>6. ScanType
  <2>1. 0 \in 0..MaxInputs /\ StoredView \in Views
    BY ExplorerAssumptions
  <2>2. stats \in [Names -> [Views -> [name : Names, view : Views] \union {None}]]
    BY <1>5
  <2>3. view \in [Names -> Views] /\ workers \in [Workers -> Thread \union {None}]
    BY <1>5, <2>1
  <2> QED
    BY <1>5, <2>1, <2>2, <2>3 DEF ScanType, Stages
<1>7. Scanning /\ Placed
  BY <1>5 DEF Scanning, Placed
<1> QED
  BY <1>4, <1>6, <1>7, LoadedInit, TypeOfParts DEF IInv

LEMMA Inductive == Spec => []IInv
PROOF
<1>1. IInv /\ [Next]_vars => IInv'
  <2>1. TypeOK' <=> LoadedType' /\ NavType' /\ ScanType'
    BY TypeOfParts, PTL
  <2> QED
    BY <2>1, TypeOfParts, LoadedStep, NavStep, ScanningStep DEF IInv
<1> QED
  BY <1>1, InvInit, PTL DEF Spec

\* Every variable of the explorer keeps its type.
THEOREM TypeCorrect == Spec => []TypeOK
PROOF
<1>1. IInv => TypeOK
  BY DEF IInv
<1> QED
  BY <1>1, Inductive, PTL

\* Only the scans somebody waits for run on: whatever screen is left, view
\* chosen or checkpoint opened, the thread behind it has been told to stop.
THEOREM NoScanIsForgotten == Spec => []OnlyWantedScansRun
PROOF
<1>1. IInv => OnlyWantedScansRun
  BY DEF IInv, Scanning, OnlyWantedScansRun
<1> QED
  BY <1>1, Inductive, PTL

\* What a scan computed is kept under its own tensor and view, and a thread
\* that is waited for reads the checkpoint as it is.
THEOREM ScansLand == Spec => []ScansLandWhereTheyBelong
PROOF
<1>1. IInv => ScansLandWhereTheyBelong
  BY DEF IInv, Placed, Scanning, Wanted, ScansLandWhereTheyBelong
<1> QED
  BY <1>1, Inductive, PTL

=============================================================================
