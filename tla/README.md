# A formal model of sermonindex-node

`sermonindex-node` is a headless program that downloads a public archive of
sermons from a signed list, checks every file, keeps it, and serves it over
BitTorrent with a vendored, patched librqbit. It runs for months on small
machines: on a Raspberry Pi in a cupboard, with a drive other programs use, on
a connection a church needs on Sunday morning. What is hard about it is not any
single step. It is a dozen tasks that share flags and files, mirrors that
answer late or not at all, power cuts, and a drive that fills up.

This directory holds TLA+ modules of that behaviour, the configurations that
model-check them with TLC, and proofs checked by TLAPS. Paths below are
relative to the repository; `main.rs`, `seed.rs` and so on are in `src/`, and
librqbit is under `vendor/librqbit/src/`.

    tlasany M.tla                      parse a module
    tlc -config X.cfg M                check a run (the table of runs names both)
    tlapm MProofs.tla                  check the proofs


## 1. The system

### Components

| component | where | state it keeps | operations |
|---|---|---|---|
| fetching one file | `download.rs`, `seed.rs` `fetch_file` | the library file, its `.part`, sets of dead and slow sources, attempt count | ask the swarm, ask a mirror, resume, watchdog, sync, rename |
| acquiring the library | `main.rs` opening pass 1955-2240 and sweeps 2241-2540 | work queue, workers, `held`, `disk_full`, `quiet`, refresh-now file, next wait, idle rounds | pop, fetch, account, wake, list, sweep, back off, weekly check |
| serving | `main.rs` 1732-1865, `seed.rs`, librqbit `session.rs`, `torrent_state/` | each torrent's state and `paused` flag, opened files, peers, window cursor, gate | add, hash check, pause, unpause, rotate, wake on a handshake |
| heartbeat | `main.rs` 1300-1495, `heartbeat.rs`, `peercheck.rs` | probe, grant, report waiting, check waiting, console settings | probe, ask for the grant, beat, apply the answer, test now |
| settings file | `config.rs` 97-130, `cfg.rs`, `menu.rs` | `settings.json`, `settings.json.part`, node id | load, change, save, from three kinds of process |
| quiet-hours schedule | `config.rs` 280-425 | none | is this minute quiet? |
| signed master list | `masterlist.rs` | cached verified list | fetch, verify, cache, fall back |
| scope, picks, catalogue | `picks.rs`, `catalog.rs`, `main.rs` `select_for` | `picks.json`, cached catalogue | what is this node to hold? |
| seed approval | `main.rs` 1155-1215, 2357-2370 | cached answer, `gated` | ask, gate, lift |
| port mapping | `natpmp.rs`, `main.rs` 1545-1655 | mapped port, status | map before the session, renew |
| reachability evidence | `state.rs` 260-340, `net.rs` | dated proof of an incoming IPv6 peer | note, confirm, expire |
| counters, history, ledger | `state.rs` | atomics, `download-state.json`, `history.jsonl` | count, render, append |
| update check | `update.rs` | newest version seen | compare |
| listener, peer book | librqbit `session.rs` 995-1075, `live/peers`, `live/peer` | pending handshakes, known peers | accept, check, hand over, cap |
| pieces, storage | librqbit `chunk_tracker.rs`, `piece_tracker.rs`, `storage/` | bitfields, open files | reserve, write, verify |
| menu, command line, dashboard, log, metering | `menu.rs`, `cfg.rs`, `dashboard.rs`, `nodelog.rs`, `system.rs` | screens | print, edit settings, raise flags |

### How they interact

The node is one process with a tokio runtime. Its tasks share a struct of
atomics and mutexes (`Shared`, `state.rs`), one torrent session, the drive, and
three files that double as messages: `settings.json`, the refresh-now flag and
the test-connection flag. Other processes (the menu, one-shot commands, the
desktop app) touch the same files.

* The **acquirer** asks the **fetcher** for one file at a time per worker and
  hands what lands to the **session**. The workers come first; the sweep starts
  when every one of them has ended.
* The **supervisor** reads the schedule once a minute and sets `quiet`, which
  workers, sweep and rotation read, and the gate that incoming handshakes read.
* The **rotation** and incoming handshakes bring torrents live; rotation and
  supervisor pause them. All of them race with the hash check of a torrent that
  has just been added.
* The **heartbeat** brings the console's settings (source mode, ceiling on
  downloads, list version) and raises the refresh flag.

### What is hard, and what makes each part correct

* *Fetching.* A `.part` outlives the attempt, the source and the process that
  began it. The swarm sizes the final file before it has its bytes. A power cut
  keeps what it likes of anything unsynced. Correct: what counts as held is the
  sermon; what has been held and synced is never lost; every source is asked
  before giving up; every fetch ends.
* *Acquiring.* Room is asked for and not reserved; flags are read before and
  after waits; a round can be cut short in six ways, each of which sets the next
  wait. Correct: a file has one fetcher; what is on the drive is shared; the
  overdraft of the reserve is bounded; nothing that fits is given up for ever.
* *Serving.* The flag that decides whether a handshake may wake a torrent is
  not its state. Two hash checks of one torrent can run side by side. Correct:
  a paused torrent can be woken; a serving one can read its file; every torrent
  has its turn; quiet hours are silent; woken torrents do not pile up.
* *Heartbeat.* A report is taken before it is sent. Correct: what the console
  holds of a node is what the node last said, and a request made at the console
  is acted on.
* *Settings.* Load, change, save without a lock, over one temporary file.
  Correct: an edit is all or nothing, survives other edits, and the node's
  identity stays.

`PROJECT.json` lists every hazard found in the code at its line, with the
properties that would catch it; one has none, and says why.


## 2. The modules

| module | what it is | stands for |
|---|---|---|
| `LibraryFile` | what a node promises of one file: missing, fresh, safe | the promise of `download.rs` |
| `FileFetch` | one file, fetched by a worker or by the sweep, with crashes and power cuts | `download.rs`, `seed.rs` `fetch_file`, the calls of `main.rs` |
| `Acquire` | the pass, the sweeps, the drive, the flags, the counter | `main.rs` 1955-2540 |
| `Seeding` | torrents, hash checks, handshakes, supervisor, rotation | `main.rs` 1732-1865, `seed.rs` 393-546, librqbit |
| `SettingsRules` | what settings.json means: every edit, every reader, quiet hours | `config.rs`, `cfg.rs`, `main.rs` `run_quiet`, `menu.rs` |
| `Settings` | the processes that load, edit and save it | `config.rs` 97-130 and its callers |
| `Library` | what the node sets out to hold: list, scope, approval, picks, catalogue | `masterlist.rs`, `picks.rs`, `catalog.rs`, `main.rs` 640-740, 1155-1300 |
| `Heartbeat` | the beat, the console, the report, the connection test | `main.rs` 1300-1495, 1893-1950, `heartbeat.rs` |
| `Reachability` | the port peers are told, and the proof that they came | `natpmp.rs`, `main.rs` 1545-1655, `state.rs` 260-340, `net.rs` |
| `*Proofs` (eight) | theorems about the module they are named after; `RulesProofs` about `Settings` and `SettingsRules` | |
| `MC*` (seven) | small instances for TLC | |

Some modules hold a second form of an action, marked "(slip)": the action as a
plausible mistake would have it. None is part of a next-state relation; each is
there to show that a property notices the mistake.

The modules meet at these points. `Acquire` sees a fetch as two steps, asking
for room and coming back with an outcome; `FileFetch` is what happens between
them, and its `outcome` values are those `Acquire` distinguishes. `Seeding`
takes torrents from the point where `Acquire` puts a file in `session`.
`Library` says which files `Acquire` has as `Scope`, and how that changes; its
`Fetches` is all of `Acquire` in one step. `Library` has approval as the node
asks for it at its start and at each sweep, `Heartbeat` as each beat reports it.
`Settings` has the file that the others take their constants from. The probe of
`Heartbeat` is `Probes` in `Reachability`.

### FileFetch

A file is `NoFile` or a sequence of blocks, each the version it was cut from with
its position there, or a `Hole`. `dest` is the library file, `part` the `.part`;
`destDurable` and `durable` say how much of them is synced; `offset` is where in
the sermon the body being received stands, which is not where the file ends if a
resume goes wrong. `want` is the version the list names and `serves[u]` the one
mirror `u` has.

`LooksComplete` is the code's test, length and allocation. It takes a file of
which 95% is allocated (`download.rs:94`), and any file of under 1 MB or on a file
system that does not report allocation. `SlackOf` is how many blocks a file may
lack for that: a twentieth of them, or all.

Three variables are history: `placed`, who put `dest` there; `mixed`, that a block
of `.part` may be another version's or torn; and `doubt`, the same of `dest`, or
that it has the gaps of an unfinished swarm fetch or of a torn cut. A file is
mixed through a change of versions or a torn cut, never by a resume as such.

`pc` follows the code: `swarm` (first attempt, in hybrid and p2p mode), `http`,
`send` (request out), `body`, `settle` (sync), `rename`, and `lastswarm`, which
only the sweep has. The loop over the sources is `attempt`, `dead`, `slow` and
`second`; `AttemptOver` is the bottom of that loop. The download's timers are
steps that may be taken at any time (`TooSlow`, `SwarmGiveUp`), so every length
of wait is covered.

A crash loses the process and keeps the files. A power cut also keeps, of what
is not synced, any prefix (and with `"torn"` in `Faults`, any subset of the
blocks, the rest reading as holes). `SwarmGiveUp(deleted)` may leave the file,
since the code drops the result of the delete.

`KeepsItsPromise` is the refinement: `Copy` maps the state to `LibraryFile`, in
which a safe copy stays safe.

### Acquire

Files are numbers, in the order of the list. `queue`, `wpc` and `wfile` are the
pass, `spc`, `missing`, `sfile`, `wanted`, `got`, `nextWait` and `idle` the
sweep. `free` is the drive, in blocks; `Reserve` is keep-free and `Headroom` the
extra 2 GB that must be there before a full drive counts as having room again.
A worker that finds `disk_full` set on its way back returns before accounting,
as the code does; that is one disjunct of `WorkerAccounts`. `left` are files the
swarm, asked last in a sweep, gave up on and could not delete (`SweepLeaves`):
they look complete, so no sweep tries them again.

The weekly check is two steps, a count and a store, as the sweep may land a file
in between. `Restart` starts the process over with the drive as it is. `idle` is
capped at 4, where `Backoff` no longer changes.

### Seeding

`st` is librqbit's state of a torrent, `flag` its `paused` flag; the two are set
at different places under different locks. `checks[t][who]` is a hash check and
who started it: `ManagedTorrent::start` on a torrent being checked starts a
second one. The end of a check takes the opened files out of a state both share
(`CheckTakes`), then one of them sets the state (`CheckPublishes`).

A handshake is four steps: it reads flag and gate (`DialArrives`), starts the
torrent (`DialWakes`), waits for it (`DialWaits`), and is handed over
(`DialHands`). The rotation is a pass over the torrents there were when it
began; at each it looks (`TickSees`) and then acts (`TickPauses`,
`TickUnpauses`). The supervisor stores the gate first and `quiet` second, at the
start of quiet hours and at their end (`SupervisorGates`, `SupervisorTells`), so
there is a moment in which one is as it was; then it pauses the torrents, in any
order (`sup` are those still to come). `cursor` grows for ever in the code and is kept modulo a common
multiple of all sizes here, which changes no window.

### SettingsRules and Settings

Settings are a function from the names that are in the file to their values; a
name that is not there is unset, and each reader has its own idea of what that
means: clamped, saturated at the width of its type, or overridden by the
environment (`SI_PUBLIC_PORT`, `SI_LISTEN_PORT`, `SI_PUBLIC_IP`), which the readers
take as an argument. What a person types is a word, a number, a size with its
unit, or two times with days.
`SettingsRules` has no state: `Apply...` is what each key of `config` accepts
and stores, `quiet_now` the schedule, and the operators named after functions of
`config.rs` are what the node reads. `Presets`, `raw_value` and `to_config` are
the menu's own table of choices, its idea of which is the present one, and the
words it hands to the same rules.

In `Settings` a process is the node, its heartbeat task, the menu, or a command
that comes and goes. It runs a program: it loads the file once (`Begin`), then
makes one edit after another on what it loaded. `Edits` is the change and the
opening of `settings.json.part`, `Writes` fills it, `Publishes` renames it. `fd`
is what the file a process has open has become: another's rename may have made
it `settings.json` itself. `stale` marks a process that loaded before another
saved. `mishaps` records the faults there were, and `raced`: two saves that
overlap, or two programs of which one finds no node id. A power cut may leave
`settings.json` empty, since no save is synced.

### Library

`release` and `grant` are the console's; `cache`, `catalogue`, `picks` and
`flag` are files; `pc` is the node, from the gate at its start through list,
signature, copy (`store`), selection and passes to the wait between sweeps. List
and signature are two requests, and something may be published in between. An
error page comes as a list that fits no signature. `barred` is what keeps a pass from
fetching: in quiet hours the opening pass waits and a sweep ends, on a full drive
both end. Without a list a node that starts stops, and a running one goes on as it
was. The menu's save of picks is two steps, the file and the flag, and
its window may be closed between them. `unseen`, `missed` and `allowed` are
history: picks not read yet, a sweep asked for that came to nothing, and what
the node was ever free to hold.

### Heartbeat

`shown` and `rows` are what the console has of the node, `late` the requests the
node gave up on that may still arrive. `pc` follows one beat. The report is
handed over in `report`: `Prepares` puts it there, `Sends` takes it, whatever
becomes of the request. What it lists is `live_torrents`: everything that is
live, or as many of it as a report may have (`MaxRows`, 2000 in the code). What may
be live together is `Windows`, given as sets since a rotation moves many at once.
Crashes are unbounded. The sleep ends when its time is up or when the file
`flag` is seen, which also marks the next probe as the one that was asked for.

### Reachability

`forwards` is the gateway: where each of its ports leads, be it to another
machine. `granted` is what it gave before the session, `bound` the port the
session found, `announced` the one peers are told, and `held` what the renewals
hold. `Offers(p, w)` is what a gateway may give to port `p` that asks for `w`: `w`
while it is free or leads to `p`, else any that is; `want_external` is the `w` of a
renewal, without which it gives whatever comes. `lost` is history: another
machine took the granted port while its mapping had lapsed. `met` is what the peer tables of live torrents remember;
`seen`, `at` and `proof` are the evidence in memory and in its file. Time is
counted in days, the unit in which it is kept.


## 3. The runs

A run marked "violated" checks what a comment of the repository says and the
code does not do.

| run | instance | checks | distinct states |
|---|---|---|---|
| `FileFetchSafe` | 2 mirrors, one version of 3 blocks that may lack 1, 2 faults of crash, cut, torn cut | `HeldIsWhole`, `HttpFilesSurvive`, `KeepsItsPromise`, `GivesUpAfterAskingAll` | 1,269,000 |
| `FileFetchWorld` | 1 mirror, versions of 2 and of 3 blocks, 2 faults of every kind but torn cuts | `TypeOK`, `FetchReturns` | 906,000 |
| `AcquirePass` | 2 files, 2 workers, any free space, 2 events of every kind | `TypeOK`, `OneFetcherPerFile`, `UnsharedIsLastInHand`, `EverythingArrives` | 327,000 |
| `AcquireRoom` | 3 files of which 2 wanted, HTTP only, 3 events | `OvershootIsBounded`, `HeldNeverOvercounts` | 199,000 |
| `SeedTurns` | 1 file held, 1 arriving, window 1, 1 handshake at a time | `TypeOK`, `PausedIsWakeable`, `ServesWithFiles`, `QuietFallsSilent`, `IdleIsPausedAgain`, `StillnessLasts` | 424,000 |
| `SeedWrap` | 2 files held, 1 arriving, window 2 | `TurnsCome`, `WindowIsServed` | 393,000 |
| `SettingsSaves` | node, beat, menu, 1 command; 3 programs, 1 fault; a day of 4 minutes; 3 environments | `TypeOK`, `WholeUnlessRaced`, `IdentityKept`, `AcceptedIsReadBack`, `ChoiceIsShown`, `QuietAsWritten`, `EditsApplyInTurn` | 1,659,000 |
| `HeartbeatRounds` | nothing live, or 2 torrents with a report of 1; 1 source known and 1 not, 1 late request | `TypeOK`, `GrantFollows`, `RowsFollow`, `SourceFollows`, `TestIsAnswered` | 336,000 |
| `LibraryKeeps` | 2 files (a speaker's new video is the second), 2 scopes, 1 change of picks | `TypeOK`, `NothingUnapproved`, `PicksAreReadAtOnce`, `WantedArrives` | 1,417,000 |
| `LibraryNewSermon` | the same | `NewSermonArrives`, violated | |
| `ReachabilityKept` | 2 ports inside and out, window 1 day, 4 days, 1 stop | `TypeOK`, `EvidenceKept`, `AnnouncedIsOurs` | 1,456,000 |
| `ReachabilityRecent` | the same | `EvidenceIsRecent`, violated | |

### Why these bounds

* Three blocks of which one may be lacking are the least for a file that lacks
  some and passes, one that lacks more and does not, and a `.part` resumed at
  another block than its first and its last. Versions of two and three blocks are
  the least for a source whose length is wrong. Two mirrors are the least for one
  to resume what another left.
* `MaxAttempts` is the code's (five per source, twelve at most): with two
  sources ten rounds, so both are revisited. The cap of twelve is left to the
  proof, which has any number of sources up to it.
* Faults are bounded by `MaxFaults`: two allow a cut after a crash or a cut in
  the recovery from a cut.
* Two workers are the least that race, and two files the least for each to have
  one; the third in `AcquireRoom` is outside the scope, so that the counter and
  the scope differ. Sizes 1 and 2 on a drive of 5 with a reserve let either,
  both or neither fit.
* One torrent arriving late behind one held is the least for a pass that began
  before it was there. With a window of two, `SeedWrap` has first a library no
  larger than the window, then one in which it wraps past the last torrent with
  another outside. Three torrents with a handshake besides exceed twenty million
  states and are left to the proofs.
* Three programs in `Settings` are the least for two that race and one that
  reads what came of it. What processes race with is a handful of edits, one of
  each kind (`Racing` in `MCSettings`: a reset, windows added, removed and
  replaced, a preset, a scope, answers of the console); the rules are checked on
  every state those leave with every key at its bounds and one beyond them
  (`Typing`). The code's arithmetic on times has no minute that is special but
  0, the two ends and the last, so a day of four minutes has every case;
  `RulesProofs` has days of any length. `Kilo` and `U32` are small so that sizes on
  both sides of a gigabyte and of the width of an integer can be typed; the
  environments are an empty one, one that sets the public port and address, and
  one that sets the port to listen on.
* In `Heartbeat` two torrents and a report of one are the least for a library
  larger than its report; the report may then list either.
* In `Library` one file is on the first list and one is new; the new one is by
  the speaker that may be picked and is a video, so that scope, picks, catalogue
  and list all disagree on it. Two scopes, since "full" differs from "audio" only
  in `Base`. One change of picks at a time is all the menu can make.
* In `Reachability` four days with a window of one let evidence expire and
  return; two outside ports let another come free while ours has lapsed.
* `MaxEvents`, `MaxEdits`, `MaxStops` and `MaxSessions` bound what
  happens around the node. The liveness properties are stated with "for good"
  premises, so bounding these does not help them.

Deadlock is not checked where a run reaches its bounds and may rest there
(`CHECK_DEADLOCK FALSE`).

### Fairness

* `FileFetch`: `FairSpec` has the node's own steps (timers and local work), as
  tokio's timers fire whatever the network does. `AnsweredSpec` adds that a
  request and a magnet are answered in some way in the end. The code does not
  enforce that (see below); `FetchReturns` says what follows when the network
  grants it.
* `Acquire`: `Scheduled` is every task of the runtime that does not wait for the
  network, and that a quiet window ends. `Answered` is that fetches end and that
  a list or a file asked for again and again comes, which is all a retry loop
  can rely on. `EverythingArrives` needs both.
* `Seeding`: supervisor, rotation, registration, dwell time and each hash check
  proceed. Handshakes, peers, downloads and the schedule promise nothing.
* `Heartbeat`: the beat goes round, since each of its requests has a time limit
  and so has its sleep; the poller comes round; the service manager starts a
  node that died; a late request arrives or is lost. The network, the admin and
  the menu promise nothing.
* `Library`: the node's loop goes round (`WF_node(Node)`, its start included,
  which is the service manager's). What it meets is in the premises.

`Settings` and `Reachability` have safety properties only.

### What the violated runs found

1. **A picked speaker's new sermon does not arrive on its own**
   (`LibraryNewSermon`). `picks.rs:8-9` says it does. The node resolves picks
   against a cached catalogue (`picks.rs:117`) that only the menu renews, when it
   is opened (`menu.rs:276-286`).
2. **Old callers count as recent** (`ReachabilityRecent`). The scan dates the
   evidence anew whenever a peer in the tables has ever called
   (`seed.rs:639`, `main.rs:1909-1911`), so one call counts for as long as its
   torrent stays live, whatever window `config.rs:803-804` describes.

### Seen while modelling, without a run

Fetching and acquiring:

* A request without an answer holds its slot for ever: `download.rs:377` awaits
  the response headers outside the watchdog, and the client has only a connect
  timeout. The sweeps wait for every worker (`main.rs:2180`), so one such request
  holds them all up. Adding a magnet has no time limit either (`seed.rs:299`).
* A `.part` has no mark of its version. When the list replaces a sermon by one
  of another length, an abandoned `.part` of the old one is resumed from the new
  and the result has the right length; nor is a whole file of the old version
  replaced when the length is the same. `HeldIsWhole` excepts files with such a
  past (`mixed`). It is so of a `.part` that a power cut tore, too: nothing of it
  is read again before it is resumed.
* A worker that comes back after another found the drive full returns before it
  counts and seeds its file, and the sweep does not see it as missing.
  `UnsharedIsLastInHand` bounds the loss.
* What the sweep's last resort, the swarm, begins and cannot delete
  (`seed.rs:360-375`) looks complete to the next sweep and is neither counted
  nor shared until the next start.
* A source set aside as slow has its second chance only when every source is
  set aside; beside one that fails in passing, attempts run out first.
* A file the swarm left unfinished at a crash counts as held when it lacks less
  than a twentieth, and whatever it lacks on a file system that does not report
  allocation (`download.rs:94`). `HeldIsWhole` says that it lacks no more than
  that, and that no other past leaves a gap.
* An error of `sync_data` is ignored (`download.rs:485`).
* In hybrid and p2p mode the opening pass does not ask for room before it lets
  the swarm size the file (`main.rs:2061`).
* A file too big for what is left ends the round for the smaller ones behind it,
  round after round (`main.rs:2478`). `EverythingArrives` is stated for room
  for all that is missing because of it.
* Progress compares `held`, of the whole library, with `total`, of the scope,
  and the weekly count overwrites a counter the sweep adds to (`main.rs:2282`).

Serving:

* A handshake during the hash check lowers the flag before anything else and
  starts a second check. If the first ends first, the torrent is paused with its
  flag down, and later handshakes do not wake it until the rotation has had it
  live once.
* With `active_torrents = 0` the supervisor pauses everything at quiet hours and
  no task unpauses it.
* The rotation counts peers and then pauses (`seed.rs:505`); a handshake in
  between loses the torrent, though `config.rs:245` says one with peers is not
  paused.
* At the end of quiet hours the gate opens before `quiet` is cleared
  (`main.rs:1780-1781`), so a handshake may wake a torrent while workers and
  rotation still see them on. `StillnessLasts` allows that and no more.
* Dwell time longer than the quiet window keeps the node silent after it
  (`main.rs:1833`).

Settings:

* `cfg.rs:16-18` says that GUI and CLI can edit the file without either
  clobbering what the other set. Whoever saves what it loaded before another
  saved does: the node saves the settings of its start after a request to the
  console (`main.rs:1185`), and `seed status` likewise (`main.rs:1061-1065`). `EditsApplyInTurn` says that this
  is the only way an edit is undone.
* `quiet remove <n>` counts the windows in the file; `quiet list` numbers those
  it could read.
* `schedule 08:00-08:00` is accepted and means no schedule.
* Sizes "nan" and "inf" are accepted and saved as null, which is unset, and an
  upload limit too large for its type is read back as the largest there is.
  `AcceptedIsReadBack` says both.
* A `--port` that is no port is ignored (`main.rs:1136`) and a `--dir` is stored
  unchecked (`main.rs:1098-1100`), where the commands of the same name refuse.
* `node_id` ignores a save that fails: the id in use is then gone at the restart.
* The menu's copies of the node id and of the settings it shows are those of its
  start.
* `p2p_enabled` and the monthly cap are shown and saved but nothing enforces
  them.

Library and approval:

* `main.rs:1007` says that audio scope is not gated and never will be; the code
  at 1159-1170 gates it like the full one.
* `Shared.gated` is not cleared when a running node is approved, and a running
  node takes no notice of a revoked approval.
* `masterlist.rs:95` keeps the list "for offline restarts" by writing over the
  old copy: cut short, it fails the next offline start.
* The refresh flag is consumed before the sweep knows whether it will go ahead
  (`main.rs:2355`); `PicksAreReadAtOnce` excepts that.

Heartbeat and reachability:

* A failed question for the grant counts as no, so the console shows a seed as
  "user" until the next beat (`heartbeat.rs:18`).
* A report lists at most 2000 torrents (`main.rs:1894`), where machines of 7 GB
  and more keep 4000 or 8000 live (`config.rs:872-880`) and without rotation
  everything is: the console's list is then any 2000 of them. `RowsFollow` says
  that it is never less.
* A report is gone with the beat that fails to deliver it, until the next hour.
* The first beat that succeeds adopts the console's list version without a sweep
  (`main.rs:1447`): a refresh asked for before it is not seen.
* A test asked for is lost when the node dies after removing the file. The menu
  takes any new probe result for its test's, and waits 90 seconds where the
  probe and what it waits for can need about 110.
* The gateway is asked for the default port even with a pinned one, or with the
  default taken (`main.rs:1571`, against the comment at 1556). `AnnouncedIsOurs`
  is stated for a node on the default port. When another machine takes the port
  during a lapse, renewals hold what they get and peers are still told the old
  one.


## 4. The proofs

All are about every value of the constants, under the assumption stated in each
module (`SizesAssumption` and `TagsAssumption`, `AcquireAssumption`,
`SeedingAssumption`, `RulesAssumption`, `OffersAssumption`,
`SettingsAssumption`, `LibraryAssumption`, `HeartbeatAssumption`,
`ReachabilityAssumption`), which TLC
evaluates for the instances it checks. They use no fact that is not proved here
or in the standard library.

**FileFetchProofs.** `TypeOK` is not inductive: it needs `Shape`, that only a
swarm stage fetches, into a file of full length, and that a body has a `.part`.
From it:

* `HeldFilesAreWhole` rests on `Sound`: a block of `.part` or of the file is the
  sermon's at its place, but for what `mixed` and `doubt` except, and a body goes
  on where `.part` ends. It assumes nothing: any versions, any allocation rule,
  any faults.
* `NothingMixes` bounds the larger exception: with one version and no torn cuts
  (`OneSermon`) there is never a mixed file.
* `HttpFilesLast` and `FetchKeepsItsPromise` rest on `Guarded`: a file that looks
  complete is touched only by the swarm stage that is completing it, what
  reaches the rename has the right length and is synced, and what HTTP placed is
  durable. They assume `OneSermon` and `NoMishap` (nobody deletes the file; a sync
  that reports success, or none, is not an error that is ignored).
* `EverySourceIsAsked` rests on `InOrder`: sources are asked in order and only
  asked ones are set aside. It assumes at most twelve sources.
* `FetchIsBounded` is the safety half of `FetchReturns`: `StepsLeft`, a number
  read off stage, attempt and outcome, is at most 53 and every step of a fetch
  lowers it, but for data that was still to come and a mirror that changes what
  it serves. What is left to TLC is that a step is taken, which needs fairness.

**AcquireProofs.** `Tallied` (what a sweep has to try, has in hand and has got
is no more than it set out for) makes `TypeOK` inductive. `Apart` (the queue and
what workers hold are disjoint, and the sweep holds nothing before the workers
have ended) gives `OneFetcherPerFile`, and with it `UnsharedIsLastInHand`.
`ReserveOvershoot` rests on `Drawn`, which bounds what the transfers in flight
may still draw by the number of them; it assumes HTTP only and that nobody else
takes space, without which the code makes no such promise. `HeldIsBacked` rests
on `Counted`: the figure is at most the number of `Settled` files, those on the
drive that are not `Pending`, that is still queued, to be tried or in the hand
of a fetcher. That makes it inductive, since a file lands and is counted in
different steps. It assumes `Undisturbed`: nobody
deletes files and no weekly count runs, after which the figure may be wrong
until the next count, as the code accepts. `SweepCountsTrue` rests on
`TrueCount`: what a sweep has set out for and not got covers what is missing from
the drive, and equals it unless the swarm left a file behind; so a round that
leaves something out, and not for want of room, is followed by the wait its idle
rounds call for. It assumes that no file is removed by hand (`NoneRemoved`), and
uses `Apart`: the workers have ended, so only the sweep lands files.

**SeedingProofs.** `Consistent` relates the flag, the state, the checks and the
opened files of a torrent: one nobody dialled during its check has one check,
whose stage says what the state is; a torrent not yet added has none; and the
rotation unpauses only what is past its check. It gives `PausedIsWakeable` and
`ServesWithFiles`. `OpensFirst` (whenever the supervisor is about to clear `quiet`
it has opened the gate) gives `StillnessLasts`: what is quiet behind a shut gate
is left by opening that. Of the rotation three things are proved that `TurnsCome` and
`WindowIsServed` rest on, for any number of torrents and any window, the case of
a window that wraps past the last torrent included:

* `WindowHasItsSize`: the window of a pass is as many torrents as there are to
  be live, wherever the cursor is.
* `EachTurnIsNearer`: each pass that moves the window on brings every torrent
  outside it nearer by the window's size. That the cursor may be kept modulo
  `Cycle` is part of it (`CursorFolds`).
* `PassFillsWindow`: a pass keeps live what it has passed of its window, if no
  quiet hours cut it short and the hash checks of its torrents are through. It
  rests on `Decided`, that a pass about to pause or unpause is at a torrent
  outside or inside its window.

**SettingsProofs.** `Shapes` and `Numbered` (programs are sequences of edits;
every id is one that was made up) make the types inductive. The other three are
conditional on what the run was spared, and so are their invariants:

* `SettingsStayWhole` rests on `Solid`: as long as no two saves overlapped and
  the power stayed on, whoever is saving has the `.part` to itself, and what it
  renames is whole. A crash between opening and rename leaves a `.part` that the
  next save empties.
* `NodeIdLasts` rests on `Known`: once the file has an id, every process goes by
  it and holds settings with it; before, only one process is at work.
  `EffectKeeps` is the lemma under it: no edit but the id's touches `node_id`,
  `reset` included.
* `EditsInTurn` rests on `Turn`: a process that is saving and not stale holds
  exactly the effect of its edit on what is in the file.

**RulesProofs.** The three properties of the settings file's meaning, for every
settings file a program can leave, every value and a day of any number of
minutes:

* `QuietIsAsWritten`: the schedule's verdict is that of the windows as written,
  across midnight and the end of the week. The code finds the day a window
  began by counting back round the week; the proof is that this is the one day
  the definition speaks of.
* `MenuShowsTheChoice`: after a preset is chosen, the menu shows that preset.
* `AcceptedIsInForce`: what a command accepts is what the node then reads, in
  whatever environment: the value, or what the clamp, the width of the type or
  the environment makes of it. It rests on `Listed`: quiet hours, wherever they are held, are a list of
  well-formed windows. That the numbers a person types are naturals is part of
  `SettingsAssumption`.

**LibraryProofs.** `PicksAreReadAtOnce` is inductive. `ApprovedOnly` rests on
`Licensed`: a node with a scope that does not wait for approval had it once, and
what is picked, and what a pass is to fetch once the goal has been narrowed, is
within what the node was ever free to hold. `LibraryTyping` includes that the
list selected from is a signed one. `PassIsComplete` is the safety half of
`WantedArrives`: what a pass is to have at its end it holds or still fetches. It
rests on `Complete`, which has the same between the two readings of the picks.

**HeartbeatProofs.** `HeartbeatTyping`: that a request is out and a reply in
hand only in their stage, and that the source in force is one this version
knows, whatever the console sends. Of the liveness properties, the halves that
say that what has come about stays:

* `SourceStays` and `SourceStaysRight`: a source in force gives way only to one
  this version knows, and one that is the console's choice to no other
  (`SourceFollows`).
* `ShownStaysRight` (`GrantFollows`) and `ListStaysRight` (`RowsFollow`): what
  the console shows and nothing on its way contradicts stays so, through beats
  that fail, come late or carry no report, and through crashes. The second is
  for any number of torrents and any room in a report: a list that is full of
  what is live is replaced only by another such.
* `TestIsKept` (`TestIsAnswered`): a test asked for is in the file, noticed or
  being made until its probe ends; only a crash after the file was taken loses
  it.

**ReachabilityProofs.** `EvidenceLasts` rests on `Dated`: evidence in memory, in
the file and as last noted carry the same day unless a write failed, and there
is none before a call. `AnnouncedStaysOurs` rests on `Holding`: from the moment
the gateway gives a port, it leads here or is free, and every renewal asks for it.
`Honoured` is the lemma under it: a port that leads here or is free is given to
who asks for it, where one that did not ask could get another.

**Only model-checked.** Every liveness property (`FetchReturns`,
`EverythingArrives`, `TurnsCome`, `WindowIsServed`, `QuietFallsSilent`,
`IdleIsPausedAgain`, `GrantFollows`, `RowsFollow`, `SourceFollows`,
`TestIsAnswered`, `WantedArrives`), since TLAPS has no rule for fairness and
ENABLED; the paragraphs above name the halves of them that are proved. Every
invariant and action property of the passing runs is stated by a theorem.


## 5. Left out of the modelled parts

* `FileFetch`: the directory entry's own durability after the rename, empty
  lists of sources, the pauses between attempts (any interleaving covers them),
  the archive.org permits (they only reorder sources). The last chunk of a stream
  that broke is written without a flush (`download.rs:437-438`) and taken to have
  landed before the next attempt measures the `.part`.
* `Acquire`: the ledger, byte counters and messages; `seed_file` failing (its
  effect is that of a file that landed and is not shared); the timing of the
  weekly check; a scope or source mode that changes while the node runs, which
  is `Library`'s subject. `HeldNeverOvercounts` is checked and proved without
  deletions by hand and without the weekly check.
* `Seeding`: torrents still downloading from the swarm, which the session lists
  too; the error state, which neither the check nor a seed that writes nothing
  reaches; pieces a check finds missing; a file added twice; block lists; the
  lengths of dwell time and quiet window; restart, which is `Init`, as nothing
  of the session is persisted.
* `Settings`: how JSON is written and read, beyond whole, empty or garbled; the
  file's mode; `settings.json` edited by hand; text that does not parse, which is
  a word no rule accepts.
* `Library`: what an entry of the list contains; the signature scheme; a
  catalogue that changes without a release; the picks file is replaced as a
  whole and a menu never finds half of it; a file in hand when quiet hours begin
  counts as fetched before them. Fetching is `Acquire`'s and
  `FileFetch`'s.
* `Heartbeat`: the peer checks the console orders, the limits and figures a beat
  carries, the list version (a change of it is `RefreshAsked` in `Library`).
* `Reachability`: the lifetime of a mapping in seconds (it may lapse at any
  time), which gateway is asked and by which protocol, the IPv6 pinhole, the
  bits of an address.

Parts not modelled at all are listed with the reason in `PROJECT.json`: the
update check, the peer book, piece tracking (vendored, unchanged), session
persistence and web interfaces (not used), dashboard, log, metering, and
packaging. They keep no state that others depend on, or are pure input and
output.


## 6. Plan

1. **Listener** of the vendored library, which this repository patched: the
   select loop with its bounded set of handshakes being checked, composed with
   `Seeding` through `DialArrives`; and **PeerBook**, the cap on discovered
   peers.
2. **Abstract settings**: with one writer at a time, `Settings` implements an
   atomic map of names to values; `EditsInTurn` is the step of that refinement.
3. **Library and Acquire** composed, through a scope that changes between
   sweeps, in place of the single step `Fetches`.
4. **Peer checks** in `Heartbeat`: an order taken with one reply and answered
   with a later beat.
5. **More proofs**: the refinement of 2; that quiet hours, once through, leave
   nothing live but what is being dialled; that idle torrents woken by a
   handshake are no more than the handshakes of one dwell time.
