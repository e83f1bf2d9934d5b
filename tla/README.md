# A TLA+ development for checkpoint-studio

checkpoint-studio reads model checkpoints (safetensors, HDF5, GGUF, a Hub
repository, an S3 prefix, a directory behind ssh) and shows them in a terminal,
in a browser, or as reports. Most of it is sequential reading of immutable
files. What is hard in it is at the edges of that: a checkpoint that is
*switched* while requests, scans and downloads about the one before are still
running; lists and shards on disk that are rewritten by programs that can die in
between; pools of threads that share a counter, a flag or a memo.

This directory models those edges, checks the models with TLC on small
instances and proves the most important results with TLAPS for all instances.

## 1. The system

| part | source | state | operations | interacts with |
|---|---|---|---|---|
| served checkpoint | `src/web/current.rs` | pointer to an immutable `WebState`; the `opening` mutex; the recents | `snapshot`, `open`, `forget_recent`, `recents` | request handlers call it; calls opening and recents |
| request handling | `src/web/mod.rs`, `handlers.rs` | 2 to 8 worker threads; two memos inside each `WebState` (encoded bodies, tensor stats) | `handle`, `prepare`, `cached_body`, `route_api`, the handlers | browser over HTTP; snapshot of the served checkpoint |
| recents | `src/opening.rs` (`Recents`) | `specs`, `emptied`, and `recents.toml`, shared with other processes and with people who edit it | `persistent`, `record`, `forget`, `list`, `save` | server and terminal |
| opening | `src/opening.rs` (the rest), `src/source.rs` | none | `resolve`, `recorded_spec`, `read` | readers |
| browser | `web/src/stores`, `App.svelte`, `CheckpointBar`, `OpenView` | stores, memo caches of promises, sequence numbers, a debounce timer | `ensureTree`, `loadCompact`, `resolveFilter`, `memo`, `forgetCheckpoint`, `switchCheckpoint` | server, user, other tabs through the server |
| terminal explorer | `src/explorer/*` | the current checkpoint, per-tensor caches, background scan jobs, navigation history, a remote session | `switch_to`, `finalize_load`, `poll_stats_scan`, `with_remote_session`, the modes | kernel, readers, worker threads |
| view-model kernel | `crates/core/src/kernel.rs`, `tree.rs` | expanded groups, selection, scroll, sort, per screen | one method per key | explorer and web |
| rename | `crates/core/src/rename.rs` | shard headers and index on disk | `load`, `plan`, `apply` | explorer, command line |
| repack | `crates/core/src/repack.rs`, `python/repack_verify.py` | directories on a remote host | plan, run, verify, swap | ssh |
| shard reading | `readers.rs`, `sftp.rs`, `remote.rs`, `hf.rs`, `stheader.rs` | shared next-shard counter, abort flag, sessions | reads in parallel, with work stealing | explorer, server, compare |
| comparison | `src/compare.rs`, `main.rs`, `crates/core/src/diff.rs` | two reads with one abort flag | `diff`, the compare loop | shard reading |
| checks and scans | `check.rs`, `health.rs` | a pool of value scanners | `scan_values`, `check_loaded` | explorer, server, command line |
| sampling, statistics | `sample.rs`, `stats.rs` | shared histogram counters | index arithmetic, accumulation | explorer, server |
| filters, folding, layout | `tensorfilter.rs`, `filter.rs`, `compact.rs`, `safelayout.rs`, `arch.rs` | none | pure functions | all views |
| formats, rendering, remote scripts | `hdf5*.rs`, `gguf.rs`, `npy.rs`, `convert.rs`, `src/ui/*`, `python/*` | none | parsing, drawing | |

How they interact around a switch, which is the core: a person submits an
address in one browser tab; the page posts `/api/open`; a worker takes the
`opening` guard, reads the checkpoint beside the one being served, records it
in the recents and moves the pointer; other workers go on answering from the
snapshot they took. The reply makes the page reset its view, drop its caches and
fetch the new tree, while answers about the old checkpoint, and to the other
tabs, are still under way.

What makes each part correct:

* served checkpoint: every answer is about one checkpoint, and one that was
  served while the request was being handled; at most one open at a time; a
  failed, refused or panicking open changes nothing; list and pointer agree.
* request handling: no memo leaks from one reading to another; slow or stuck
  opens do not stop the other requests.
* recents: what was recorded or written by hand survives; what was forgotten
  stays forgotten; whatever happens to the file, the list is usable.
* browser: nothing cached, folded or filtered outlives the checkpoint or the
  query it is about; every wait shown has an end.
* rename: no rename that is carried to the end, by one process at a time, makes a
  header lose a tensor or run over its region; a success lands every name, in
  shards and index; the index never names what the shards do not have yet.
* terminal explorer: the names, the check report and the totals that show are of
  the checkpoint that is open, as it is now; a scan's result lands under the tensor and the view it was made for,
  and a scan nobody waits for stops; no input leaves a scan paused for good; going
  back and forth always ends at a screen.
* tensor tree: the highlighted row exists and is on the screen, unless somebody
  scrolled away from it or made the terminal smaller; the rows are those of the
  folding, the search, the filter and the sort as they stand, and the arrows move
  along the tree as it is drawn.
* shard reading and comparison: every shard is read once, whichever sessions are
  refused or break; what a read returns does not depend on who read what; the
  failure reported is the one that happened, and nothing is cut short without
  one.

## 2. Modules

| module | what it is | source |
|---|---|---|
| `ServedCheckpoint` | abstract specification: what the server promises | module comment of `current.rs` |
| `RecentsList` | the list arithmetic of the recents (pure) | `opening.rs` 509–562 |
| `WebServer` | the cell, the memos, the worker pool, every API route | `current.rs`, `web/mod.rs`, `handlers.rs` |
| `MCWebServer` | instances of it | |
| `RecentsListFacts` | lemmas on the list arithmetic, proved | |
| `WebServerProofs` | the inductive invariant, the invariants as theorems, and that WebServer implements ServedCheckpoint | |
| `Recents`, `MCRecents` | the recents file between processes | `opening.rs` 390–609 |
| `BrowserTab`, `MCBrowserTab` | the page's stores through switches | `stores/*.ts`, `loadstep.ts`, `App.svelte` |
| `Rename`, `MCRename` | load, plan and apply over the files, between processes | `rename.rs`, `modes.rs` 986–1011, `diff.rs` 726–755 |
| `RenameProofs` | the invariants of Rename as theorems | |
| `RecentsProofs` | the invariants of Recents as theorems | |
| `BrowserTabProofs` | the invariants of BrowserTab as theorems | |
| `Explorer`, `MCExplorer` | screens, event loop and scans of the terminal, through switches and renames | `explorer/mod.rs` 2427–3087, `load.rs`, `cache.rs`, `modes.rs` |
| `ExplorerProofs` | the invariants of Explorer as theorems | |
| `TreeView`, `MCTreeView` | the tensor tree and its screen | `kernel.rs` 90–440, `tree.rs`, `explorer/mod.rs` |
| `TreeViewProofs` | the invariants and step properties of TreeView as theorems | |
| `RemoteRead`, `MCRemoteRead` | two reads at once: pooled sessions, streamed script, abort flag, health | `sftp.rs`, `remote.rs`, `readers.rs`, `health.rs`, `main.rs` 1766–1845 |
| `RemoteReadProofs` | the invariants of RemoteRead as theorems | |

`WebServer` EXTENDS `RecentsList` and INSTANCEs `ServedCheckpoint`; `Recents`
EXTENDS `RecentsList`; `BrowserTab` takes of the server exactly what
`ServedCheckpoint` promises, which is what the refinement is for.

### WebServer

A `WebState` is named by the order in which it was read: 1 is the one read at
startup. Memo entries and answers carry the number of the reading whose content
they hold; nothing else of the content matters to the properties. A step is
what the code does between two releases of a lock: `Accept` is `recv` and the
snapshot; `BodyMiss`/`Encode` are the lookup and the fill of `cached_body`, with
the lock released in between; `StatsMiss`/`Scan`/`Bin` are those of
`scan_stats`, where a histogram first wants the stats; `OpenBegin`, `OpenRead`,
`OpenRecord`, `OpenInstall`, `OpenReply` are `Current::open` and its handler,
`OpenFails` and `OpenRefused` its two early ways out; `Forget` and `ForgetReply`
are two steps because the handler takes the lock twice. `Panic` is a handler
that panics where it computes: `catch_unwind` keeps the worker, but a guard
dropped while unwinding poisons its mutex. The three memo and list mutexes
ignore poison in the code (`into_inner`), the `opening` one does not.

The recents are the list of this one process here; `Recents` is about the file.

### Recents

One action per call up to the save, then `Truncate` and `Write`: `fs::write`
opens with truncation, and no lock is held on the file. A file that is missing,
unreadable or not TOML is one value, `Unreadable`, because `read_file` treats
them alike. `Write` over a file that somebody else wrote since the truncation
may leave the tail of the longer text, which does not parse. `SaveFails` is the
write that is silently dropped, before or after the truncation. `Stop` is an
exit or a kill at any point. `HandEdit` and `FileLost` are people and other
programs. `kept`, `overlapped` and `forgotten` are history variables.

### BrowserTab

The stores are one record, `page`; a message stays in `net` from its sending to
its arrival, with the reading that was being served when it was sent, and its
answer is about any reading served since, or is a failure. That is the
guarantee of `ServedCheckpoint` to a request, and it lets answers overtake each
other. An open takes effect at the server in a step of its own, so that its
reply can be late or lost after the server has switched. Other tabs and clients
are `OthersOpen`. Each handler runs to its next `await`, so `OpenArrives` is the
whole of `switchCheckpoint` between its two awaits: reset, fold's reaction to
the reset, `forgetCheckpoint`, and `ensureTree` up to its fetch. Trimming of
queries, the hash, selection, sorting and everything drawn are left out.

### Rename

A header is the function from the names it lists to what it says of the tensors
they stand for (`Entries`). `apply` writes it over the old one, in one or more
writes: a header that is part new and part old may not parse (`Torn`), or, where
old and new entries have the same length, may parse and name one tensor twice,
of which the parser keeps the last. What it may parse to is the constant
`Mixtures`, and `WriteHeader` is part of the bytes, as often as there are parts;
`EndHeader` is the last of them. Whatever another process wrote into the header
in between (`crossed`) is not all written over, so then the end leaves a mixture
too. The index is the function from its keys to shards; `fs::write` truncates it
first, which leaves it `Torn`, and two processes writing at once may mix it
(`WriteIndex`); or it is `Absent`. Names have lengths, given by `Bytes` for a set
of names; regions have `Room`.

`Load`, `ReadHeader` (a thread per shard, any order) and `Loaded` are `load`. A
header that another process has written into since the load began may be read
half way through that write (`Readings`); otherwise reading it is one step.
`PlanRule` and `PlanRefused` are `plan`, which takes the headers from memory and
the index from disk; time passes between `plan` and `apply` for the command,
which asks in between, and no file is read again. `Preflight` opens everything
at once: nothing is written before the last is open, and the kept handles of the
shards no longer depend on permissions, so only the index can still be refused
(`IndexLocked`). Then a begin and an end for each header, and for the index.
`WriteFails` and `Die` cut in anywhere. What differs between the two users of
`plan` and `apply` is `Given`: after an error the command is gone, and the editor
stays open over the headers it had loaded. In the editor the confirmation comes
before the plan, which changes nothing here because `Decline` and the passing of
time cover both orders. `discover`'s refusals, the preview and the making of
rules from fields are left out; a rule is what it makes of every name.
`begun`, `drifted`, `unsure` and `mixed` are history: `mixed` are the headers that
are, or may be, part new and part old or made from one that was, `unsure` those a
process read when they were that, or while another wrote.

### Explorer

The history is a sequence of screens, each a kind and, for the two screens of a
tensor, its name; `cursor` counts from 0 as in the code. `stage` says where the
one thread of the program is: resolving the screen at the cursor (`Resolve`), in
`drive_mode` before a draw (`Tick`), waiting for an event (`wait`), handling one
(`handle`), in the animation of a scan that is waited for (`animate`), or behind
the message of one that failed (`message`). Each handler of an input is an action
that ends in `Stay` (another turn of the loop) or `Leave` (the mode is dropped, and
with it its scan); overlays, the hover and keys without effect are `IdleInput`.

A scan is a worker thread with its two flags. It reads a block, then looks at the
flags (`ReadBlock`, `BlockBoundary`); dropping the job sets the cancel flag and
lets go of the thread, which lives on until its next look. Threads have no identity
in the code, so a new one is any record that is free. An input pauses the scan and
the next tick without input lets it go on; the scan that `s` asks for runs beside
the screen's own.

Contents are told apart by `epoch`, which counts the switches and renames: the
session, the check report and the whole-checkpoint statistics carry the epoch they
were computed in. A rename changes the names on disk under the running program. It may
fail half way, which leaves the editor open over the session of before, and the
read after it may fail; either way the session is `unread` until the next
successful read. So may the read of a switch fail, which leaves nothing open. The
rename editor reads headers before it shows (`EnterRename`): it goes back at once
when there is nothing to rename, and after a notice (stage `notice`) when they
cannot be read. From its preview a click leads to a tensor in the tree. The program starts in the tree, or directly in the detail or
data screen of one tensor, with only that tensor read. `Quit` can come from
any screen. What tensors are called, sampled values, histograms, the file
browser, the layout and diff screens and the remote session are left out.

### TreeView

The tree is given by its rows with everything open, each with a depth, once as it
is and once folded by `compact.rs`; the rows that show are those whose groups are
open. The fuzzy matcher, the filter's grammar and the facets of the sort are
constants: what they let through and rank. Every command of the tree screen is an
action, and so are its clicks and its wheel, `Draw` (`pre_draw` and
`update_tree_scroll`), leaving for a tensor and coming back (`Return`). Several
inputs can be handled between two draws (`drive_mode` drains the events that are
there), which is where an index and the list it counts in can part; `burst` bounds
how many. The terminal's size is one of `Sizes`, each with its number of rows
(`VisibleRowCount`), and changes at any time (`Resize`): that is only drawn again,
and the next draw snaps to the selection only if that has moved too. `scrolled` is
a history variable: the view has been moved by the wheel, or has lost rows to a
smaller terminal, since the selection last pulled it.

### RemoteRead

Two sides, each a directory of safetensors behind ssh or a checkpoint streamed by
a script, read by a thread each under one abort flag. A directory is listed and
its index read, either of which can fail; then up to `Sessions` sessions take the
number of the next shard, open it, read its header and hand in an outcome. A
session can be refused, come late, meet a shard it cannot read, or break with one
in its hand. `Gather` joins the sessions: the read fails if one of them broke, or
if no shard gave a tensor. Otherwise it orders the outcomes by index and listing,
keeps the first owner of every name and lets `health.rs` reconcile the three. A
script's output comes in pieces, between which `exec_capture_abortable` looks at
the flag. `Mark` is the end of a side: its bar, and the flag if it ended badly,
also when it was cut short itself. `Panic` is the end of a thread that panics,
with the sessions it had at rest: no result, no flag, and a bar that still runs.
`Join` waits for both threads and then for the one that draws the bars, which are
only drawn on a terminal (`shown`); it then reports a panic, or picks the failure
to report. A shard is the place of its name among the sorted names.

## 3. Runs

| run | module | shows |
|---|---|---|
| `WebServer` | MCWebServer | type, memos, list and pointer, one open at a time, recents, the refinement of `ServedCheckpoint`, and under fairness `ReadsAnswered` |
| `WebServerBusy` | MCWebServer | a violation: see Findings |
| `RecentsShared` | MCRecents | type, `EntriesSurvive`, `ForgottenStaysForgotten` |
| `RecentsCleared` | MCRecents | a violation: see Findings |
| `BrowserTabSwitching` | MCBrowserTab | type, `KeptAnswersAreCurrent`, `FoldIsCurrent`, `FilterIsCurrent`, `WaitsEnd` |
| `BrowserTabPageLoad` | MCBrowserTab | a violation: see Findings |
| `RenameShared` | MCRename | type, `HeadersStayWhole`, `RenamesLand`, `IndexFollows`, `IndexNeverAhead` |
| `RenameRetried` | MCRename | a violation: see Findings |
| `Explorer` | MCExplorer | type, `LoadedIsCurrent`, `ScansLandWhereTheyBelong`, `OnlyWantedScansRun`, and under fairness `EveryScanEnds`, `AbandonedScansStop`, `SomeScreenShows` |
| `TreeView` | MCTreeView | type, `SelectionIsARow`, `RowsAreCurrent`, `SelectionIsOnScreen`, and of steps `ArrowsFollowTheTree`, `RevealLands` |
| `RemoteRead` | MCRemoteRead | type, `EveryShardOnce`, `FirstShardWins`, `MissingTensorsAreMissing`, `TheRealFailureIsReported`, `NoNeedlessAbort`, and under fairness `TheReadEnds` |
| `RemoteReadPanics` | MCRemoteRead | a violation: see Findings |

Bounds. *WebServer*: 2 workers (the least the code starts), 3 requests, each
of any kind, 2 checkpoints, 3 readings: two opens can overlap, the second can
be refused or succeed after the first, and a third request can come before,
between or after both; recents of length 2, so that a third entry would be cut.
Workers and requests are interchangeable, but a run that checks liveness may not
use that symmetry. *Recents*: 2 processes, 3 checkpoints with room for 2 in the
list, 6 starts, changes and
edits: enough for each of the two to start, change the list and change it again
around what the other one, or an edit, did. *BrowserTab*: 3 user actions
among opening (from two places), filtering, folding and looking at a tensor, 3
readings, of which other clients may cause any: enough for two opens in flight
with a third kind of request between them.
*Rename*: an editor and a command, 2 shards (the
second with two tensors and no spare byte), 5 rules (a swap across the shards, a
longer name that fits, and three that must be refused: a collision with an
untouched name, a header one byte too long, a reserved name), an index that is
complete or lacks an entry, 2 failures and 2 loads: enough for a
rename that fails twice and is tried again, around or after one of the other
process. A header cut short does not parse, but for the shard with two tensors,
which may also parse with one name twice. A checkpoint with no index is left to the
theorems.
*Explorer*: 2 checkpoints that share a tensor's name, 2 names, 2 views, 3 worker
threads (the screen's, the one that is waited for, and one that was dropped and has
not noticed), scans of 1 block, 3 inputs, a history of 3 screens and 1 switch or
rename: enough to start a scan, leave its screen, open another checkpoint and
come back to the screen of a tensor that is gone. *TreeView*: 7 rows, the root with
a group of three tensors and a metadata group in it, and a compact tree of 3; a
screen of 3 rows, or 2 under a search, and a smaller one with one row less; one
filter, queries of one letter, one sort key that ties two tensors, 2 inputs between
draws; the number of inputs is not bounded. *RemoteRead*: 3 sessions, 2 shards on
disk and a third that only a stale index names (as many sessions as there are shards
to be read, or one more), 4 tensors of which one is in two shards and one is where
the index does not have it; output in one piece; a directory against a script and a
script against a script. Two directories never look at the flag: together they add
nothing to the two pairings but their product.

The runs of *Rename*, where files go on turning read-only and writable, and
*TreeView*, where somebody can always press a key, check for deadlock. The others
set CHECK_DEADLOCK FALSE because their instances really stop: all requests are
answered, all user actions spent, all calls made, the program has quit, the two
reads have been joined.

Fairness. `WebServer` assumes that while some worker thread can go on, one does,
and that `recv` hands out what has arrived (`Step`, `Accept`): less than that each
thread is scheduled, and enough for finitely many requests. It assumes **nothing** of
the reading of a checkpoint (`ReadEnds` has no fairness): an ssh host or a bucket
may never answer. `ReadsAnswered` is therefore about the pool: the second open
is refused instead of queued, so one worker at most is lost to a stuck read.
`BrowserTabSwitching` assumes that the server answers or the request fails, and
that timers fire; nothing of the user. `Explorer` assumes that the program's
own thread runs on, which includes that an input that has come is handled in some
way, and that each worker thread is scheduled; nothing of the user, so that a
message nobody dismisses may stay (`EveryScanEnds` allows for it). `RemoteRead`
assumes that each session and each side goes on, by succeeding or by failing. That
is an assumption on the network: the code sets no timeout of its own, so a remote
that stays silent over a connection that stays up holds the read. `TheReadEnds` is
about what the program adds to that: that no session waits for another, and that
a side that was refused sessions, or was cut short, is joined. Nothing is assumed
of a panic of a side's thread (`Panic`): it need not come, and where bars are
drawn `TheReadEnds` allows for one, because the read then hangs (see Findings).

Each property of a passing run has a mutant, a variation of one definition such
as a slip in the code could make (a cache left out of `forgetCheckpoint`, a
dropped sequence number, a handler that asks the cell a second time), under
which the run must find the property violated. The mutants stand beside the
definitions they vary, marked as such; no specification uses them.

## 4. Findings

* `WebServerBusy` (`current.rs:115`). After a panic inside an open's read the
  `opening` mutex is poisoned; `try_lock` fails on that as on a held one, so
  every later open is refused with "another checkpoint is already being opened"
  until the server is restarted.
* `BrowserTabPageLoad` (`server.ts:123`). `ensureTree` stores whatever tree
  arrives. The tree asked for at page load, delayed behind a switch made from the
  address bar, replaces the new checkpoint's tree, or is replaced by it only
  when that arrives later. `loadCompact` and `resolveFilter` have the sequence
  number that is missing here, and `FoldIsCurrent` and `FilterIsCurrent` hold.
* `RemoteReadPanics` (`main.rs:1823`). A read whose thread panics, as when the
  thread of a session cannot be spawned (`remote.rs:697`), never finishes its
  progress bar. On a terminal the thread that draws the bars goes on as long as one
  runs (`progress.rs:669`), and it is joined before the results are looked at: the
  error "remote read thread panicked" of the next lines is never reached, and the
  program hangs. The other side is not cut short either.
* `RecentsCleared` (`opening.rs:574`). Clearing the list by hand while the
  program runs has no effect: an empty file reads like an unreadable one, memory
  stands in for it, and the next open writes the cleared entries back, where the
  type's comment promises that an edit is picked up.
* `RenameRetried` (`modes.rs:1002`). After an apply that failed half way the
  editor stays open over the headers it had loaded. Another rule, planned from
  them, skips a shard that the first try rewrote or left torn and that the new
  rule leaves alone, and reports success over it. The counterexample ends with a
  torn shard, an index that names its tensors, and "Renamed 1 tensor(s) in
  place". The same rule again is fine: that is `RenamesLand`.

Met on the way, and stated as the limits of a property instead: a header whose
rewriting was cut short or overlapped, or that was planned from one read half way
through another process's writing, may parse and have lost a tensor
(`HeadersStayWhole` excludes `mixed` headers; nothing in the repository says that
an interrupted write is safe); saves of two
processes that overlap lose entries (`EntriesSurvive` excludes them); a page
whose open lost its reply, or whose server was switched from another tab, stays
on a tree that is no longer served (`announced` is what the page was told); keys
that an interrupted rename left in the index can displace good ones in the next
(`IndexFollows` excludes them; `plan` only warns, though its comment,
`rename.rs:483`, counts an inconsistent index among the reasons to refuse).

In the tree, while a filter's rows show, entering a group, revealing a search
result and clicking go by the rows of the tree behind them
(`move_to_first_child`, `current_tree_len`), so the properties are not claimed
there. `Tab` on a search result sets the scroll to 0, and the next draw need not
snap it to a selection that has not changed. A terminal made smaller leaves the
selected row below the screen for the same reason, until the selection moves
(`SelectionIsOnScreen` excludes it like a scroll of the wheel). The sort compares rows without a
tensor as equal to everything, which is no order: a search result with metadata
in it is sorted piece by piece, between those rows (`SortOrders`).

In the explorer, `switch_to` keeps the statistics, samples and histograms under
names that the next checkpoint may have too, and the history, against its comment
(`load.rs:210-217`); a rename clears none of them. A check report and statistics
of the old checkpoint stay after a read that failed, until one succeeds. After a
rename that failed half way (`mod.rs:5748`) nothing is read again, so the session
shows names that are gone from the disk; `LoadedIsCurrent` excludes that, and a
rename that could not be read back, until the next successful read. A
missing tensor's detail screen opens the tree *anew*, so Back from there comes to
the missing screen again. After a failed switch, coming back to the tree reads
again, and a failure there ends the program.

In the comparison, the flag is not given to the read of a directory, so a
directory is not cut short by the other side's failure (`main.rs:1782-1785` says
that a failed read aborts its sibling). The health report goes by the merged list:
it calls the tensors of a shard that could not be read missing, also a tensor that
its indexed shard holds when an earlier shard has the name, and, when the index
can be read and the listing cannot, every file.

## 5. Theorems

Each is proved for every value of the constants that satisfies the assumptions
beside their declaration, and the bounds on inputs, faults, readings and the like
are any number. Those of the server are about any finite set of 2 to 8 workers,
any requests, endpoints, views and checkpoints. The others assume little more than
that the markers (`None`, `Torn`, `Failed` ...) are none of the values they stand
beside; `Rename` assumes that the files start whole, `RemoteRead` that the
shards are finitely many numbers, `Explorer` that the history has room for two
screens. `TreeView` assumes of a tree what `flatten_node` produces: a first row at
depth 0, one more level of depth at most from a row to the next and only after a
group, and no node in two rows (`TreeRows`); of the matcher and the filter only
that they return nodes, and of the sizes of the terminal that each leaves a row
for the tree.

Every invariant and every action property that a passing run checks is a theorem.

* `RecentsListFacts`: what dropping, pushing and truncating do to a list without
  repetitions. Lists are functions on `1..n`; the proofs go through the position
  that is dropped. `RecordedFacts` is the one the server's proofs cite.
* `WebServerProofs!Inductive`: `IInv` is invariant. None of the invariants is
  inductive alone. `ServedHeadsRecents` is about states without an open; between
  its two moves an open leaves the list ahead of the pointer, so `HeadInv` says
  what the head is *then* (the reading about to be installed), which needs to
  know that only one open can be there (`OneOpenAtATime`), what it has read
  (`OpensInv`), and that no request is held by two workers (`WorkersInv`).
  `TypeCorrect`, `OpensExclude`, `HeadIsServed`, `RecentsAreReal` follow;
  `MemosStayWithTheirState` has its own, shorter induction over `IInv`.
* `WebServerProofs!Refines`: every step of the server is a step of
  `ServedCheckpoint` or changes nothing it sees. The mapping finds a request's
  snapshot at the worker that has it; the proof sorts the actions into those
  that leave the mapping alone, take a request, swap, and answer, with one lemma
  each, and needs the memo invariant for the answers that come from a memo.
* `RenameProofs!HeadersWhole`, `TypeCorrect`: for any shards, names, rules and
  processes, about the headers that no interrupted write has left half new and
  half old over the same length (`mixed`). A header on disk is the image of one in
  some process's memory, so `IInv` adds to the two that what each process has read
  is whole, of the shards it is not `unsure` of (it read them mixed, or another
  process wrote them in the meantime), and that a plan being carried out is one
  `plan` let through (`JobSound`).
  `RenamedIsWhole` is the step that uses `plan`'s checks: no collision, no
  reserved target, fits.
* `RenameProofs!RenamesAreDone`, `IndexIsDone`, `IndexComesLast`: what success
  promises. They speak of the end of an apply, so `Tracked` says what holds on the
  way for a process that nobody disturbed: a shard still to be rewritten is as
  it was read, or under the new names already, and one that is done has them
  (`HeadersFollow`); the index keeps its text until no shard is left
  (`IndexWaits`); and the plan is still the one made of what was read
  (`PlanStands`).
* `RecentsProofs`: `ForgettingLasts` needs that what a process has forgotten is
  gone from the file *and* from its memory, also half way through a save
  (`Gone`), because either can stand in for the other. `EntriesAreKept` needs more
  than it says (`Listed`): what should be listed is the front of the list, since
  what is pushed out goes off the end.
* `BrowserTabProofs`: what a store holds was asked for earlier, so the invariants
  are about requests in flight. The number that a request carries was given out
  (`Traffic`) and tells whether its answer will be kept, and one whose answer will be
  kept was sent after the last switch the page has heard of (`Caching`, `Folding`, `Resolving`, each for its stores).
  `KeptIsCurrent`, `FoldStaysCurrent` and `FilterStaysCurrent` follow.
* `ExplorerProofs`: `LoadedStaysCurrent` is inductive with its types. The rest is
  about who holds a thread. `Scanning` says that the screen holds at most one for
  itself and one that is waited for, that both read the tensor that shows, of the
  checkpoint as it is, and that every other has been told to stop; that a
  checkpoint can change under no thread that is held needs to know on which screens
  one can be held (`Screens`: a screen names a tensor just where it is one of the
  two). `Placed` is about the results that were kept. `NoScanIsForgotten` and
  `ScansLand` follow.
* `RemoteReadProofs`: the pool works because a number is given out once (`Pool`):
  every number below `next` is an outcome or in the hand of one session, never
  both, and the session that was there first only leaves when no number is left.
  `ReadsAreWhole` follows, and from it, with the places of shards numbered in
  their order, `TheFirstShardWins` and `MissingIsMissing` (`Findings`). `Endings`
  relates results, bars and flag, for `TheFailureIsReal` and `NothingIsCutNeedlessly`.

* `TreeViewProofs`: first what the operators return. The rows that show are
  numbered in the tree's order (`PlaceIn`, `NthOf`), so opening or closing a row
  that shows leaves it and the rows above it in place (`ToggledRowStays`), and
  depths determine what encloses what (`EnclosesTwice`, `NearestEncloses`). The
  sort inserts row by row; by induction on a list's length (the library's
  least-number principle, no operator parameter) each prefix is in order, and a
  list in order is inserted unchanged (`SortFacts`). That is why
  `RowsStayCurrent` survives `update_filtered_tree` sorting the filter's rows a
  second time. `SortOrders`, by the same induction, says what the result is: a
  permutation that moves a row only past one that it comes before, with every
  row that has no tensor at its old index and the tensors between two such rows
  in the order of the key.
  `IInv` joins the rows kept with what they should be (`TreeCurrent`,
  `ListsCurrent`), the types, the selection, and `DrawnOnScreen`, without which
  `SelectionStaysOnScreen` is not inductive: between draws the row *last drawn*,
  not the selected one, is still on the screen; a draw either snaps to the
  selection or finds it there, and the clamp at the end of the list never moves
  a row off the screen (`ClampKeepsRow`). A terminal made smaller may cut the row
  off with nobody scrolling; the theorem then says that the next move of the
  selection brings it back.
  `ArrowsMoveAlongTheTree` is about rows that are folded away: Left finds the
  group around a row because the nearest shallower row that shows is the nearest
  in the whole tree (`ParentIsAround`), and a sibling found over shown rows is
  one, because a shallower row between the two would show too
  (`SiblingsShareGroups`). `RevealingLands` opens what encloses the node, after
  which the node shows (`OpenedShows`).

The model's sort is the insertion that the standard library does on slices of at
most 20 rows. On longer ones the result is the same where the comparison is an
order, as among a filter's rows, which are all tensors; of a longer search
result that is sorted with metadata among the tensors the theorems say nothing.

Only model-checked is what is out of the prover's reach, the liveness properties
(`ReadsAnswered`, `WaitsEnd`, `EveryScanEnds`, `AbandonedScansStop`,
`SomeScreenShows`, `TheReadEnds`).

## 6. Not modelled

* Parsing of files, codecs and conversion (`hdf5*.rs`, `gguf.rs`, `npy.rs`,
  `stheader.rs`, `convert.rs`): the state is the bytes of a file.
* Numbers: statistics, samples, histograms and the indices they are taken at
  (`sample.rs`, `stats.rs`) are floating point over one tensor, or arithmetic that
  its unit tests enumerate as well as TLC would. What interleaves there, the scan
  and its flags, is in `Explorer`.
* Pure functions over text and lists: the filter's grammar, folding into families,
  the safetensors layout, architecture, addresses (`resolve`, `recorded_spec`), what
  a comparison computes of two lists. Where a model needs one of them its result is
  a constant or a choice.
* Of the terminal: the file browser (`FileState` repeats the navigation of
  `TreeState` over files), the data view's cursor and samples, the layout, diff and
  help screens, and everything drawn. A dropped remote session is opened again and
  the operation retried once (`with_remote_session`); the operations only read.
* Repacking: scripts generated for a remote host and run one after another; their
  effects are those of python and shell text.
* Local readers and the Hub; `scan_values`, a loop over tensors that a pool shares
  and that only adds up.
* Of the page: rendering, the hash, selection and sorting.

What would be worth adding next: the retry of a remote session composed with
`Explorer`, should an operation that writes ever go through it; and the selection
while a filter's rows show, should the code come to count in those.
