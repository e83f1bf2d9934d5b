------------------------------ MODULE Explorer ------------------------------
(***************************************************************************)
(* The terminal explorer: the screens one navigates like a browser's       *)
(* pages, the event loop of the screen that shows, the statistics scan it  *)
(* runs on a worker thread, and what is kept of a checkpoint while another *)
(* one is opened or its tensors are renamed in place.                      *)
(*                                                                         *)
(* What a field was derived from is its epoch: the number of times the     *)
(* contents under a tensor's name changed, by a switch or a rename.  The   *)
(* rows of the tree are the subject of TreeView.                           *)
(***************************************************************************)
EXTENDS Integers, Sequences, FiniteSets

CONSTANTS
  Checkpoints, \* what can be opened
  Names,       \* tensor names
  TensorsOf,   \* [Checkpoints -> SUBSET Names], as the files are at first
  Views,       \* the dtypes a tensor can be viewed as
  StoredView,  \* the view a tensor has until another one is chosen
  Warm,        \* whether the detail screen scans before it is asked to
  Blocks,      \* blocks a scan reads
  Workers,     \* worker threads that can exist at once (a bound)
  None,        \* nothing kept, no scan, no tensor
  MaxInputs,   \* bound on the inputs a user gives
  MaxHistory,  \* bound on the screens kept
  MaxEpoch     \* bound on the switches and renames

ASSUME ExplorerAssumptions ==
  /\ StoredView \in Views
  /\ TensorsOf \in [Checkpoints -> SUBSET Names]
  /\ Warm \in BOOLEAN
  /\ {Blocks, MaxInputs, MaxHistory, MaxEpoch} \subseteq Nat
  /\ 2 <= MaxHistory

\* A worker thread: what it reads, how much of it is left, and its flags.
Thread ==
  [name : Names \union {None}, view : Views \union {None}, epoch : Nat \union {None},
   left : Nat, between : BOOLEAN, pause : BOOLEAN, cancel : BOOLEAN,
   end : {"running", "ok", "failed"}]

ASSUME MarkersAssumption ==
  None \notin Names \union Views \union Workers \union Nat \union Thread

VARIABLES
  files,    \* the checkpoint asked for
  disk,     \* the tensors in each checkpoint's files
  epoch,    \* history: how often contents changed under their names
  session,  \* None, or the names that were read and when
  full,     \* full_loaded
  unread,   \* history: the files were rewritten and not read since
  report,   \* None, or when the check report kept was computed
  totals,   \* None, or when the checkpoint's statistics kept were computed
  stats,    \* the statistics kept for each name and view
  view,     \* the dtype each name is viewed as
  history,  \* the screens visited
  cursor,   \* the one that shows, from 0
  stage,    \* where the event loop is
  flash,    \* whether a confirmation shows
  job,      \* None, or the worker of the screen's background scan
  front,    \* None, or the worker of the scan the user waits for
  workers,  \* the worker threads
  inputs    \* inputs given so far

loaded == <<files, disk, epoch, session, full, unread, report, totals>>
nav == <<history, cursor>>
scans == <<job, front, workers>>
vars == <<loaded, stats, view, nav, stage, flash, scans, inputs>>

Screen(kind, tensor) == [kind |-> kind, tensor |-> tensor]
Tree == Screen("tree", None)
Current == history[cursor + 1]
Shown == Current.tensor
ScreenKinds == {"tree", "detail", "data", "stats", "rename"}

Tensors == IF session = None THEN {} ELSE session.names
Cached(name) == stats[name][view[name]] # None

(***************************************************************************)
(* Workers.                                                                *)
(***************************************************************************)

NewWorker(name) ==
  [name |-> name, view |-> view[name], epoch |-> epoch, left |-> Blocks,
   between |-> FALSE, pause |-> FALSE, cancel |-> FALSE, end |-> "running"]

\* Threads have no identity of their own: the next one is any that is free.
HasFree == \E w \in Workers : workers[w] = None
Spare == CHOOSE w \in Workers : workers[w] = None
Ended(w) == workers[w].end # "running"
Result(w) == [name |-> workers[w].name, view |-> workers[w].view]

\* Dropping a job sets its cancel flag and lets go of the thread, which goes
\* on to its next check; what it has read is nobody's any more.
Abandon(ws, w) ==
  IF w = None THEN ws
  ELSE [ws EXCEPT ![w] =
          IF Ended(w) THEN None
          ELSE [@ EXCEPT !.cancel = TRUE, !.name = None, !.view = None, !.epoch = None]]

\* A thread ends with its result, which nobody waits for once it is let go.
End(w, result) ==
  workers' = [workers EXCEPT ![w] =
                IF workers[w].cancel THEN None ELSE [@ EXCEPT !.end = result]]

\* One block is read, or cannot be; after the last one the result is made.
ReadBlock(w) ==
  /\ workers[w] # None /\ ~Ended(w) /\ ~workers[w].between
  /\ IF workers[w].left = 0
       THEN End(w, "ok")
       ELSE \/ workers' = [workers EXCEPT ![w].left = @ - 1, ![w].between = TRUE]
            \/ End(w, "failed")
  /\ UNCHANGED <<loaded, stats, view, nav, stage, flash, job, front, inputs>>

\* Mutant of BlockBoundary: a scan that is paused does not look at its cancel
\* flag.
BoundaryPausedFirst(w) ==
  /\ workers[w] # None /\ ~Ended(w) /\ workers[w].between
  /\ ~workers[w].pause
  /\ IF workers[w].cancel
       THEN End(w, "failed")
       ELSE workers' = [workers EXCEPT ![w].between = FALSE]
  /\ UNCHANGED <<loaded, stats, view, nav, stage, flash, job, front, inputs>>

\* Between two blocks a paused scan waits, and a cancelled one stops.
BlockBoundary(w) ==
  /\ workers[w] # None /\ ~Ended(w) /\ workers[w].between
  /\ ~workers[w].pause \/ workers[w].cancel
  /\ IF workers[w].cancel
       THEN End(w, "failed")
       ELSE workers' = [workers EXCEPT ![w].between = FALSE]
  /\ UNCHANGED <<loaded, stats, view, nav, stage, flash, job, front, inputs>>

(***************************************************************************)
(* Reading a checkpoint.                                                   *)
(***************************************************************************)

\* Mutant of FinalizeLoad: the check report is left as it was.
FinalizeKeepsReport(c, d, e) ==
  /\ session' = [names |-> d[c], epoch |-> e]
  /\ totals' = None
  /\ full' = TRUE
  /\ UNCHANGED report

\* finalize_load: the reports kept of an earlier load go, the session comes.
FinalizeLoad(c, d, e) ==
  /\ session' = [names |-> d[c], epoch |-> e]
  /\ report' = None
  /\ totals' = None
  /\ full' = TRUE

\* switch_to: what was read of the old checkpoint is dropped before the new
\* one is read; a read that fails leaves nothing.  The statistics, samples
\* and histograms kept under tensor names stay, and so does the history.
SwitchTo(c) ==
  /\ epoch < MaxEpoch
  /\ files' = c
  /\ epoch' = epoch + 1
  /\ unread' = FALSE
  /\ UNCHANGED disk
  /\ \/ FinalizeLoad(c, disk, epoch')
     \/ /\ session' = None /\ full' = FALSE
        /\ UNCHANGED <<report, totals>>

\* ensure_full_load, when the browser is entered or come back to.
EnsureFullLoad ==
  \/ /\ full
     /\ UNCHANGED loaded
  \/ /\ ~full
     /\ FinalizeLoad(files, disk, epoch)
     /\ unread' = FALSE
     /\ UNCHANGED <<files, disk, epoch>>

(***************************************************************************)
(* Navigation.                                                             *)
(***************************************************************************)

\* Mutant of Leave: the scan of the screen is forgotten but not cancelled.
LeaveScanning ==
  /\ job' = None
  /\ stage' = "resolve"
  /\ UNCHANGED <<workers, front>>

\* The screen is left: its scan goes with it.
Leave ==
  /\ job' = None
  /\ workers' = Abandon(workers, job)
  /\ stage' = "resolve"
  /\ UNCHANGED front

Open(screen) ==
  /\ cursor + 1 < MaxHistory
  /\ history' = Append(SubSeq(history, 1, cursor + 1), screen)
  /\ cursor' = cursor + 1

\* Mutant of Back: it does not stop at the first screen.
BackPastTheRoot ==
  /\ cursor' = cursor - 1
  /\ UNCHANGED history

Back ==
  /\ cursor' = IF cursor = 0 THEN 0 ELSE cursor - 1
  /\ UNCHANGED history

Forward ==
  /\ cursor' = IF cursor + 1 < Len(history) THEN cursor + 1 ELSE cursor
  /\ UNCHANGED history

\* Mutant of MissingScreen: the next screen is tried, of which there is none
\* at the end of the history.
MissingGoesForward ==
  /\ \/ Current.kind = "detail" /\ Forward
     \/ Current.kind = "data" /\ Back
  /\ UNCHANGED <<loaded, stage>>

\* A screen of a tensor the checkpoint does not have is not entered.
MissingScreen ==
  /\ \/ /\ Current.kind = "detail"
        /\ history' = Append(SubSeq(history, 1, cursor + 1), Tree)
        /\ cursor' = cursor + 1
     \/ /\ Current.kind = "data"
        /\ Back
  /\ UNCHANGED <<loaded, stage>>

\* The rename editor reads the headers before it shows.  There may be nothing
\* it can rename, and a read that fails is told in a notice.
EnterRename ==
  \/ /\ stage' = "tick"
     /\ UNCHANGED nav
  \/ /\ Back
     /\ UNCHANGED stage
  \/ /\ stage' = "notice"
     /\ UNCHANGED nav

\* The loop's head: the screen at the cursor is run.  The tree reads what was
\* not read yet, and a read that fails there ends the program.
Resolve ==
  /\ stage = "resolve"
  /\ \/ /\ Shown # None /\ Shown \notin Tensors
        /\ MissingScreen
     \/ /\ Shown # None /\ Shown \in Tensors
        /\ stage' = "tick"
        /\ UNCHANGED <<loaded, nav>>
     \/ /\ Current.kind = "tree"
        /\ \/ EnsureFullLoad /\ stage' = "tick"
           \/ ~full /\ stage' = "quit" /\ UNCHANGED loaded
        /\ UNCHANGED nav
     \/ /\ Current.kind = "stats"
        /\ totals' = IF totals = None THEN epoch ELSE totals
        /\ stage' = "tick"
        /\ UNCHANGED <<files, disk, epoch, session, full, unread, report, nav>>
     \/ /\ Current.kind = "rename"
        /\ EnterRename
        /\ UNCHANGED loaded
  /\ UNCHANGED <<stats, view, flash, scans, inputs>>

(***************************************************************************)
(* The event loop of the screen that shows.                                *)
(***************************************************************************)

Scans == Current.kind = "data" \/ (Current.kind = "detail" /\ Warm)

\* Mutant of JobFits: one job is as good as another.
AnyJobFits == job # None

JobFits == IF job = None THEN FALSE ELSE workers[job].view = view[Shown]

\* A scan that ended is joined and its result kept; a failed one leaves the
\* slot empty.
Harvest(w, key) ==
  /\ stats' = IF workers[w].end = "ok"
                THEN [stats EXCEPT ![Shown][key] = Result(w)]
                ELSE stats
  /\ workers' = [workers EXCEPT ![w] = None]

\* poll_stats_scan, before every draw: one scan for the tensor and the view,
\* started again when the view changed.
Tick ==
  /\ stage = "tick"
  /\ stage' = "wait"
  /\ \/ /\ ~Scans
        /\ UNCHANGED <<stats, job, workers>>
     \/ /\ Scans /\ Cached(Shown)
        /\ job' = None
        /\ workers' = Abandon(workers, job)
        /\ UNCHANGED stats
     \/ /\ Scans /\ ~Cached(Shown) /\ ~JobFits
        /\ HasFree
        /\ workers' = [Abandon(workers, job) EXCEPT ![Spare] = NewWorker(Shown)]
        /\ job' = Spare
        /\ UNCHANGED stats
     \/ /\ Scans /\ ~Cached(Shown) /\ JobFits
        /\ IF Ended(job)
             THEN /\ Harvest(job, view[Shown])
                  /\ job' = None
             ELSE UNCHANGED <<stats, job, workers>>
  /\ UNCHANGED <<loaded, view, nav, flash, front, inputs>>

SetPaused(p) ==
  workers' = IF job = None THEN workers ELSE [workers EXCEPT ![job].pause = p]

\* An input comes.  It pauses the scan, unless a confirmation shows.
Input ==
  /\ stage = "wait" /\ inputs < MaxInputs
  /\ inputs' = inputs + 1
  /\ stage' = "handle"
  /\ IF ~flash THEN SetPaused(TRUE) ELSE UNCHANGED workers
  /\ UNCHANGED <<loaded, stats, view, nav, flash, job, front>>

\* Mutant of Timeout: the scan stays paused.
TimeoutStaysPaused ==
  /\ stage = "wait" /\ job # None /\ ~flash
  /\ stage' = "tick"
  /\ UNCHANGED <<loaded, stats, view, nav, flash, scans, inputs>>

\* No input came within a tick: the scan goes on.
Timeout ==
  /\ stage = "wait" /\ job # None /\ ~flash
  /\ SetPaused(FALSE)
  /\ stage' = "tick"
  /\ UNCHANGED <<loaded, stats, view, nav, flash, job, front, inputs>>

FlashExpires ==
  /\ stage = "wait" /\ flash
  /\ flash' = FALSE
  /\ stage' = "tick"
  /\ UNCHANGED <<loaded, stats, view, nav, scans, inputs>>

\* A key clears the confirmation; some keys put another one up.
Stay(flashes) ==
  /\ flash' = flashes
  /\ stage' = "tick"
  /\ UNCHANGED <<nav, job, front, workers>>

Go(navigation) ==
  /\ Leave
  /\ navigation
  /\ flash' = FALSE

\* The mouse moved, or a key did nothing on this screen.
IdleInput ==
  /\ stage = "handle"
  /\ Stay(flash)
  /\ UNCHANGED <<loaded, stats, view, inputs>>

\* No key of the rename editor goes forward.
GoBackOrForward ==
  /\ stage = "handle"
  /\ Go(Back) \/ (Current.kind # "rename" /\ Go(Forward))
  /\ UNCHANGED <<loaded, stats, view, inputs>>

\* From the tree to a tensor, the statistics or the rename editor; from a
\* tensor's detail to its data or the tree, and from its data to the detail;
\* from the statistics to the tree, and so from the rename editor by a click on
\* a tensor of its preview that the session has.
OpenScreen ==
  /\ stage = "handle"
  /\ \/ /\ Current.kind = "tree"
        /\ \/ \E name \in Tensors : Go(Open(Screen("detail", name)))
           \/ \E kind \in {"stats", "rename"} : Go(Open(Screen(kind, None)))
     \/ /\ Current.kind = "detail"
        /\ Go(Open(Screen("data", Shown))) \/ Go(Open(Tree))
     \/ /\ Current.kind = "data"
        /\ Go(Open(Screen("detail", Shown)))
     \/ /\ Current.kind = "stats" \/ (Current.kind = "rename" /\ Tensors # {})
        /\ Go(Open(Tree))
  /\ UNCHANGED <<loaded, stats, view, inputs>>

\* The open prompt of the tree.
OpenCheckpoint ==
  /\ stage = "handle" /\ Current.kind = "tree"
  /\ \E c \in Checkpoints : SwitchTo(c)
  /\ Stay(full')
  /\ UNCHANGED <<stats, view, inputs>>

\* show_check_report: computed once for a checkpoint.
ShowCheckReport ==
  /\ stage = "handle" /\ Current.kind = "tree"
  /\ report' = IF report = None THEN epoch ELSE report
  /\ Stay(FALSE)
  /\ UNCHANGED <<files, disk, epoch, session, full, unread, totals,
                 stats, view, inputs>>

\* The names a rename can leave, also one that fails half way: one is replaced,
\* or two change places.
RenamesOf(names) ==
  {(names \ {old}) \union {new} : old \in names, new \in Names \ names}
  \union (IF Cardinality(names) > 1 THEN {names} ELSE {})

\* apply_rename_mode: the files are rewritten, then read again.  A read that
\* fails leaves the session of before, and so does a rewriting that fails half
\* way: then nothing is read again and the editor stays, with the error.
ApplyRename ==
  /\ stage = "handle" /\ Current.kind = "rename" /\ epoch < MaxEpoch
  /\ \E names \in RenamesOf(disk[files]) : disk' = [disk EXCEPT ![files] = names]
  /\ epoch' = epoch + 1
  /\ \/ /\ \/ FinalizeLoad(files, disk', epoch') /\ unread' = FALSE
           \/ unread' = TRUE /\ UNCHANGED <<session, full, report, totals>>
        /\ Leave /\ Back
        /\ flash' = TRUE
     \/ /\ unread' = TRUE /\ UNCHANGED <<session, full, report, totals>>
        /\ Stay(FALSE)
  /\ UNCHANGED <<files, stats, view, inputs>>

\* `d` on a tensor's screens: the view is kept for its name.
ChangeView ==
  /\ stage = "handle" /\ Shown # None
  /\ \E v \in Views : view' = [view EXCEPT ![Shown] = v]
  /\ Stay(FALSE)
  /\ UNCHANGED <<loaded, stats, inputs>>

\* `c` on a tensor's screens.
CopyScreen ==
  /\ stage = "handle" /\ Shown # None
  /\ Stay(TRUE)
  /\ UNCHANGED <<loaded, stats, view, inputs>>

\* `s` on the detail screen: a second worker, waited for.
ComputeStats ==
  /\ stage = "handle" /\ Current.kind = "detail"
  /\ \/ /\ Cached(Shown)
        /\ Stay(TRUE)
     \/ /\ ~Cached(Shown) /\ HasFree
        /\ workers' = [workers EXCEPT ![Spare] = NewWorker(Shown)]
        /\ front' = Spare
        /\ stage' = "animate" /\ flash' = FALSE
        /\ UNCHANGED <<nav, job>>
  /\ UNCHANGED <<loaded, stats, view, inputs>>

\* The scan that is waited for ended: its result is kept, or its failure is
\* shown until an input.
ScanFinishes ==
  /\ stage = "animate" /\ Ended(front)
  /\ Harvest(front, view[Shown])
  /\ front' = None
  /\ stage' = IF workers[front].end = "ok" THEN "tick" ELSE "message"
  /\ UNCHANGED <<loaded, view, nav, flash, job, inputs>>

\* Any key abandons it.
ScanCancelled ==
  /\ stage = "animate" /\ inputs < MaxInputs
  /\ inputs' = inputs + 1
  /\ workers' = Abandon(workers, front)
  /\ front' = None
  /\ stage' = "tick"
  /\ UNCHANGED <<loaded, stats, view, nav, flash, job>>

\* After a failure of the scan the screen goes on; after the notice of the
\* rename editor the one before it is run.
DismissMessage ==
  /\ inputs < MaxInputs
  /\ inputs' = inputs + 1
  /\ \/ stage = "message" /\ stage' = "tick" /\ UNCHANGED nav
     \/ stage = "notice" /\ stage' = "resolve" /\ Back
  /\ UNCHANGED <<loaded, stats, view, flash, scans>>

Quit ==
  /\ stage = "handle"
  /\ job' = None
  /\ workers' = Abandon(workers, job)
  /\ stage' = "quit"
  /\ UNCHANGED <<loaded, stats, view, nav, flash, front, inputs>>

(***************************************************************************)
(* The specification.  The program starts in the tree, or straight in a    *)
(* tensor's screen with only that tensor read.                             *)
(***************************************************************************)

Init ==
  /\ files \in Checkpoints /\ disk = TensorsOf /\ epoch = 0
  /\ unread = FALSE /\ report = None /\ totals = None
  /\ \/ /\ session = None /\ full = FALSE
        /\ history = <<Tree>> /\ cursor = 0
     \/ \E name \in TensorsOf[files], kind \in {"detail", "data"} :
          /\ session = [names |-> {name}, epoch |-> 0] /\ full = FALSE
          /\ history = <<Tree, Screen(kind, name)>> /\ cursor = 1
  /\ stats = [n \in Names |-> [v \in Views |-> None]]
  /\ view = [n \in Names |-> StoredView]
  /\ stage = "resolve" /\ flash = FALSE
  /\ job = None /\ front = None /\ workers = [w \in Workers |-> None]
  /\ inputs = 0

Handle ==
  \/ IdleInput \/ GoBackOrForward \/ OpenScreen \/ OpenCheckpoint
  \/ ShowCheckReport \/ ApplyRename \/ ChangeView \/ CopyScreen
  \/ ComputeStats \/ Quit

Program ==
  \/ Resolve \/ Tick \/ Timeout \/ FlashExpires \/ Handle \/ ScanFinishes

Step(w) == ReadBlock(w) \/ BlockBoundary(w)

User == Input \/ ScanCancelled \/ DismissMessage

Next == Program \/ User \/ \E w \in Workers : Step(w)

\* The loop and the threads run on; what the user does is owed to nobody.
Spec ==
  /\ Init
  /\ [][Next]_vars
  /\ WF_vars(Program)
  /\ \A w \in Workers : WF_vars(Step(w))

(***************************************************************************)
(* Properties.                                                             *)
(***************************************************************************)

\* Every variable has its type; the cursor is on a screen of the history.
TypeOK ==
  /\ files \in Checkpoints /\ disk \in [Checkpoints -> SUBSET Names]
  /\ epoch \in 0..MaxEpoch
  /\ session \in [names : SUBSET Names, epoch : 0..epoch] \union {None}
  /\ full \in BOOLEAN /\ unread \in BOOLEAN
  /\ {report, totals} \subseteq (0..epoch) \union {None}
  /\ stats \in [Names -> [Views -> [name : Names, view : Views] \union {None}]]
  /\ view \in [Names -> Views]
  /\ history \in Seq([kind : ScreenKinds, tensor : Names \union {None}])
  /\ Len(history) \in 1..(MaxHistory + 1)
  /\ cursor \in 0..(Len(history) - 1)
  /\ stage \in {"resolve", "tick", "wait", "handle", "animate", "message", "notice",
               "quit"}
  /\ {job, front} \subseteq Workers \union {None}
  /\ workers \in [Workers -> Thread \union {None}]
  /\ flash \in BOOLEAN /\ inputs \in 0..MaxInputs

\* Once a checkpoint is read, what shows as its tensors, its check report and
\* the statistics of the checkpoint as a whole is all of it, as it is now:
\* load.rs drops what was derived from the one before.  Not claimed of the
\* statistics kept for a tensor, which survive a switch; nor after a rename
\* that failed half way or could not be read back, until the next read, for the
\* session then lists the names of before; nor while a read has failed: the
\* reports of the old checkpoint are only dropped by the next read that
\* succeeds.
LoadedIsCurrent ==
  (full /\ ~unread) =>
    /\ session = [names |-> disk[files], epoch |-> epoch]
    /\ {report, totals} \subseteq {epoch, None}

\* Statistics are kept under the tensor and the view they were computed for,
\* and those computed for another checkpoint are from before the last switch
\* or rename: a scan never lands late, or under the view chosen meanwhile.
ScansLandWhereTheyBelong ==
  /\ \A n \in Names, v \in Views : stats[n][v] # None =>
       stats[n][v].name = n /\ stats[n][v].view = v
  /\ \A w \in {job, front} \ {None} :
       workers[w].name = Shown /\ workers[w].epoch = epoch

\* A thread that reads on is the one whose result the screen is waiting for:
\* leaving, another view and a key during the wait all stop the scan.
OnlyWantedScansRun ==
  \A w \in Workers :
    workers[w] # None => workers[w].cancel \/ w \in {job, front}

\* When the inputs stop, the scan of the screen comes to its end: it is
\* harvested, or was dropped with the screen.  An input pauses it, and every
\* pause must end, also when the input is followed by a confirmation or by a
\* second scan.  Only a failure that waits for a key keeps it paused.
EveryScanEnds == (job # None) ~> (job = None \/ stage = "message")

\* When the inputs stop, no thread of a scan that was dropped goes on, not one
\* that was paused when it was dropped either.
Abandoned == {w \in Workers : workers[w] # None /\ workers[w].cancel}
AbandonedScansStop == (Abandoned # {}) ~> (Abandoned = {})

\* Screens of tensors that are gone never send the user in circles: some
\* screen is shown, or the program ends.
SomeScreenShows == (stage = "resolve") ~> (stage # "resolve")

=============================================================================
