------------------------------- MODULE Seeding -------------------------------
(***************************************************************************)
(* What a node serves: its files are torrents of one librqbit session, of  *)
(* which few are live.  The rotation task walks a window of live torrents  *)
(* over them, the quiet-hours supervisor pauses them all, and a handshake  *)
(* for a paused one wakes it.  All three race with the hash check a        *)
(* torrent goes through when it is added.                                  *)
(*                                                                         *)
(* Torrents are numbered as the session numbers them, in order of adding.  *)
(* Those of swarm downloads, which the session lists too, are left out.    *)
(***************************************************************************)
EXTENDS Integers, FiniteSets

CONSTANTS
    Held,       \* files on the drive when the node starts
    Fresh,      \* bound: files that may be downloaded later
    Window,     \* active_torrents: how many to have live; 0 is no rotation
    Dialers,    \* bound: incoming handshakes being looked at at once
    Cycle       \* the cursor is kept modulo this, a multiple of every 1..Held+Fresh

Torrents == 1..(Held + Fresh)

ASSUME SeedingAssumption ==
    /\ Held \in Nat /\ Fresh \in Nat /\ Window \in Nat
    /\ "session" \notin Dialers /\ "rotation" \notin Dialers
    /\ Cycle \in Nat \ {0} /\ \A n \in Torrents : Cycle % n = 0

VARIABLES
    total,      \* torrents in the session
    toRegister, \* files of the startup scan still to add
    st,         \* each torrent's state
    flag,       \* its `paused` flag, which is not the state
    startsLive, \* torrents added to go live once checked
    checks,     \* by whom a hash check of it was started and how far it is
    readable,   \* torrents whose state holds their opened files
    peers,      \* torrents with connected peers
    hours,      \* is it a quiet hour by the schedule?
    quiet,      \* what the supervisor last told the other tasks
    gate,       \* SI_ACCEPT_INCOMING
    telling,    \* what the supervisor is telling: the gate is set, quiet not yet
    sup,        \* the torrents its pass has still to pause
    tick,       \* the rotation's pass, and what it is about to do
    cursor,     \* where the window begins
    due,        \* has the window stood for rotate_minutes?
    dials       \* the handshakes being looked at

torrent  == <<st, flag, checks, readable, peers>>
library  == <<total, toRegister, startsLive>>
schedule == <<hours, quiet, gate, telling, sup>>
rotation == <<tick, cursor, due>>
vars     == <<torrent, library, schedule, rotation, dials>>

Starters == {"session", "rotation"} \cup Dialers
States   == {"absent", "checking", "paused", "live"}
Stages   == {"none", "checking", "open", "lost", "done"}
Resting  == [at |-> 0, of |-> 0, todo |-> "look"]
NoDial   == [t |-> 0, step |-> "idle"]

TorrentsOK ==
    /\ st \in [Torrents -> States] /\ flag \in [Torrents -> BOOLEAN]
    /\ checks \in [Torrents -> [Starters -> Stages]]
    /\ readable \subseteq Torrents /\ peers \subseteq Torrents

LibraryOK ==
    /\ toRegister \in 0..Held /\ total \in (Held - toRegister)..(Held - toRegister + Fresh)
    /\ startsLive \subseteq Torrents

TasksOK ==
    /\ hours \in BOOLEAN /\ quiet \in BOOLEAN /\ gate \in BOOLEAN /\ due \in BOOLEAN
    /\ cursor \in 0..(Cycle - 1)
    /\ telling \in {"nothing", "quiet", "over"} /\ sup \subseteq 1..total
    /\ tick \in [at : 0..total, of : 0..total, todo : {"look", "pause", "unpause"}]
    /\ tick.at <= tick.of /\ (tick.at = 0 => tick = Resting)
    /\ dials \in [Dialers -> [t : 0..total, step : {"idle", "wake", "wait", "hand"}]]
    /\ \A d \in Dialers : dials[d].t = 0 <=> dials[d].step = "idle"

TypeOK == TorrentsOK /\ LibraryOK /\ TasksOK

Init ==
    /\ total = 0 /\ toRegister = Held /\ startsLive = {}
    /\ st = [t \in Torrents |-> "absent"] /\ flag = [t \in Torrents |-> FALSE]
    /\ checks = [t \in Torrents |-> [w \in Starters |-> "none"]]
    /\ readable = {} /\ peers = {}
    /\ hours \in BOOLEAN /\ quiet = FALSE /\ gate = TRUE
    /\ telling = "nothing" /\ sup = {}
    /\ tick = Resting /\ cursor \in 0..(Cycle - 1) /\ due = TRUE
    /\ dials = [d \in Dialers |-> NoDial]

----------------------------------------------------------------------------
(* A torrent of the session.                                               *)

\* (slip) Pausing leaves the flag as it was.
PauseFlagless(t) ==
    IF st[t] = "live"
    THEN /\ st' = [st EXCEPT ![t] = "paused"]
         /\ peers' = peers \ {t}
         /\ dials' = [d \in Dialers |-> IF dials[d] = [t |-> t, step |-> "hand"] THEN NoDial ELSE dials[d]]
         /\ UNCHANGED <<flag, checks, readable>>
    ELSE UNCHANGED <<torrent, dials>>

\* ManagedTorrent::pause.  Fails on a torrent that is not live; a handshake
\* about to be handed to the live state is dropped with it.
Pause(t) ==
    IF st[t] = "live"
    THEN /\ st' = [st EXCEPT ![t] = "paused"]
         /\ flag' = [flag EXCEPT ![t] = TRUE]
         /\ peers' = peers \ {t}
         /\ dials' = [d \in Dialers |-> IF dials[d] = [t |-> t, step |-> "hand"] THEN NoDial ELSE dials[d]]
         /\ UNCHANGED <<checks, readable>>
    ELSE UNCHANGED <<torrent, dials>>

\* ManagedTorrent::start, asked to go live.  The flag falls whatever the state
\* is; on a torrent being checked a second check is started beside the first.
Start(t, who) ==
    /\ flag' = [flag EXCEPT ![t] = FALSE]
    /\ st' = [st EXCEPT ![t] = IF @ = "paused" THEN "live" ELSE @]
    /\ checks' = IF st[t] = "checking" THEN [checks EXCEPT ![t][who] = "checking"] ELSE checks
    /\ UNCHANGED <<readable, peers>>

\* add_torrent: the torrent is there at once, being checked.
Add(live) ==
    LET t == total + 1 IN
    /\ total' = t
    /\ st' = [st EXCEPT ![t] = "checking"]
    /\ flag' = [flag EXCEPT ![t] = ~live]
    /\ startsLive' = IF live THEN startsLive \cup {t} ELSE startsLive
    /\ checks' = [checks EXCEPT ![t]["session"] = "checking"]
    /\ UNCHANGED <<readable, peers, schedule, rotation, dials>>

\* A file of the startup scan, paused when there is a rotation to wake it.
Register ==
    /\ toRegister > 0 /\ toRegister' = toRegister - 1
    /\ Add(Window = 0)

\* A download that has just landed; quiet hours do not call back a fetch.
Arrives ==
    /\ total - (Held - toRegister) < Fresh
    /\ Add(TRUE) /\ UNCHANGED toRegister

\* The end of TorrentStateInitializing::check takes the opened files out of the
\* state both checks share: the second to get there takes nothing.
CheckTakes(t, who) ==
    /\ checks[t][who] = "checking"
    /\ LET first == \A w \in Starters : checks[t][w] \in {"none", "checking"}
       IN checks' = [checks EXCEPT ![t][who] = IF first THEN "open" ELSE "lost"]
    /\ UNCHANGED <<st, flag, readable, peers, library, schedule, rotation, dials>>

\* Back in start: the first to get the lock sets the state, and goes on to live
\* if that is what it was started for; the other finds nothing to do.
CheckPublishes(t, who) ==
    /\ checks[t][who] \in {"open", "lost"}
    /\ checks' = [checks EXCEPT ![t][who] = "done"]
    /\ IF st[t] = "checking"
       THEN /\ st' = [st EXCEPT ![t] = IF who # "session" \/ t \in startsLive THEN "live" ELSE "paused"]
            /\ readable' = IF checks[t][who] = "open" THEN readable \cup {t} ELSE readable
       ELSE UNCHANGED <<st, readable>>
    /\ UNCHANGED <<flag, peers, library, schedule, rotation, dials>>

PeerComes(t) ==
    /\ st[t] = "live" /\ peers' = peers \cup {t}
    /\ UNCHANGED <<st, flag, checks, readable, library, schedule, rotation, dials>>

PeerGoes(t) ==
    /\ t \in peers /\ peers' = peers \ {t}
    /\ UNCHANGED <<st, flag, checks, readable, library, schedule, rotation, dials>>

----------------------------------------------------------------------------
(* A handshake comes in.                                                   *)

\* (slip) The gate of the quiet hours is not looked at.
DialArrivesUngated(d, t) ==
    /\ dials[d].step = "idle" /\ t <= total
    /\ dials' = [dials EXCEPT ![d] = [t |-> t, step |-> IF flag[t] THEN "wake" ELSE "wait"]]
    /\ UNCHANGED <<torrent, library, schedule, rotation>>

\* Whether to wake is decided by the flag and the gate, before anything is done.
DialArrives(d, t) ==
    /\ dials[d].step = "idle" /\ t <= total
    /\ dials' = [dials EXCEPT ![d] = [t |-> t, step |-> IF flag[t] /\ gate THEN "wake" ELSE "wait"]]
    /\ UNCHANGED <<torrent, library, schedule, rotation>>

DialWakes(d) ==
    /\ dials[d].step = "wake"
    /\ Start(dials[d].t, d)
    /\ dials' = [dials EXCEPT ![d].step = "wait"]
    /\ UNCHANGED <<library, schedule, rotation>>

\* live_wait_initializing: five seconds for a check to end, none otherwise.
DialWaits(d) ==
    /\ dials[d].step = "wait"
    /\ dials' = IF st[dials[d].t] = "live" THEN [dials EXCEPT ![d].step = "hand"]
                                           ELSE [dials EXCEPT ![d] = NoDial]
    /\ UNCHANGED <<torrent, library, schedule, rotation>>

DialHands(d) ==
    /\ dials[d].step = "hand"
    /\ peers' = peers \cup {dials[d].t}
    /\ dials' = [dials EXCEPT ![d] = NoDial]
    /\ UNCHANGED <<st, flag, checks, readable, library, schedule, rotation>>

----------------------------------------------------------------------------
(* The quiet-hours supervisor, once a minute.                              *)

HoursTurn ==
    /\ hours' = ~hours
    /\ UNCHANGED <<torrent, library, quiet, gate, telling, sup, rotation, dials>>

\* The schedule is read, and the gate follows it first.  A minute that stores
\* what is there already, outside quiet hours, is left out.
SupervisorGates ==
    /\ sup = {} /\ telling = "nothing" /\ (hours \/ quiet)
    /\ gate' = ~hours
    /\ telling' = IF hours THEN "quiet" ELSE "over"
    /\ UNCHANGED <<torrent, library, hours, quiet, sup, rotation, dials>>

\* Then the other tasks are told; a quiet minute begins a pass over the torrents
\* there are.  The end of the quiet hours touches no torrent.
SupervisorTells ==
    /\ telling # "nothing" /\ telling' = "nothing"
    /\ quiet' = (telling = "quiet")
    /\ sup' = IF telling = "quiet" THEN 1..total ELSE {}
    /\ UNCHANGED <<torrent, library, hours, gate, rotation, dials>>

\* The pass takes the torrents in the order of the session's table.
SupervisorPauses(t) ==
    /\ t \in sup /\ sup' = sup \ {t}
    /\ Pause(t)
    /\ UNCHANGED <<library, hours, quiet, gate, telling, rotation>>

----------------------------------------------------------------------------
(* The rotation task.                                                      *)

\* (slip) The window does not wrap past the last torrent.
InWindowUnwrapped(t) ==
    LET n == tick.of  start == cursor % n IN start <= t - 1 /\ t - 1 < start + Window

InWindow(t) ==
    LET n == tick.of  start == cursor % n
        end == start + (IF Window < n THEN Window ELSE n)
    IN (start <= t - 1 /\ t - 1 < end) \/ t - 1 < end - n

\* (slip) The rotation does not look whether it is quiet.
LooksInQuiet ==
    /\ Window > 0 /\ tick = Resting /\ due /\ total > 0
    /\ tick' = [at |-> 1, of |-> total, todo |-> "look"]
    /\ UNCHANGED <<torrent, library, schedule, cursor, due, dials>>

RotationLooks ==
    /\ Window > 0 /\ tick = Resting /\ ~quiet /\ due /\ total > 0
    /\ tick' = [at |-> 1, of |-> total, todo |-> "look"]
    /\ UNCHANGED <<torrent, library, schedule, cursor, due, dials>>

\* (slip) One torrent more than there are is gone through.
NextTorrentPast ==
    IF tick.at <= tick.of
    THEN tick' = [tick EXCEPT !.at = @ + 1, !.todo = "look"] /\ UNCHANGED <<cursor, due>>
    ELSE /\ tick' = Resting
         /\ IF tick.of >= Window THEN cursor' = (cursor + Window) % Cycle /\ due' = FALSE
                                 ELSE UNCHANGED <<cursor, due>>

\* (slip) The window stays where it is.
NextTorrentStays ==
    IF tick.at < tick.of
    THEN tick' = [tick EXCEPT !.at = @ + 1, !.todo = "look"] /\ UNCHANGED <<cursor, due>>
    ELSE tick' = Resting /\ UNCHANGED cursor /\ due' = (tick.of < Window)

\* On to the next torrent.  After the last the window moves on, unless the
\* session does not fill it yet.
NextTorrent ==
    IF tick.at < tick.of
    THEN tick' = [tick EXCEPT !.at = @ + 1, !.todo = "look"] /\ UNCHANGED <<cursor, due>>
    ELSE /\ tick' = Resting
         /\ IF tick.of >= Window THEN cursor' = (cursor + Window) % Cycle /\ due' = FALSE
                                 ELSE UNCHANGED <<cursor, due>>

\* (slip) It is the torrents with peers that are paused.
BusyOutside(t) == st[t] = "live" /\ ~InWindow(t) /\ t \in peers

\* Live, outside the window and with nobody connected.
IdleOutside(t) == st[t] = "live" /\ ~InWindow(t) /\ t \notin peers

\* (slip) A torrent being checked is taken for a paused one.
NotLiveInside(t) == st[t] \in {"checking", "paused"} /\ InWindow(t)

PausedInside(t) == st[t] = "paused" /\ InWindow(t)

\* What is seen of the torrent decides, and is acted on a moment later.  A
\* torrent being checked is left alone.
TickSees ==
    /\ tick.at > 0 /\ tick.todo = "look"
    /\ LET t == tick.at IN
       \/ /\ IdleOutside(t)
          /\ tick' = [tick EXCEPT !.todo = "pause"] /\ UNCHANGED <<cursor, due>>
       \/ /\ PausedInside(t)
          /\ tick' = [tick EXCEPT !.todo = "unpause"] /\ UNCHANGED <<cursor, due>>
       \/ /\ ~IdleOutside(t) /\ ~PausedInside(t)
          /\ NextTorrent
    /\ UNCHANGED <<torrent, library, schedule, dials>>

TickPauses ==
    /\ tick.todo = "pause"
    /\ Pause(tick.at) /\ NextTorrent
    /\ UNCHANGED <<library, schedule>>

TickUnpauses ==
    /\ tick.todo = "unpause"
    /\ Start(tick.at, "rotation") /\ NextTorrent
    /\ UNCHANGED <<library, schedule, dials>>

DwellPasses ==
    /\ ~due /\ due' = TRUE
    /\ UNCHANGED <<torrent, library, schedule, tick, cursor, dials>>

----------------------------------------------------------------------------

Check(t, w)  == CheckTakes(t, w) \/ CheckPublishes(t, w)
Dial(d)      == (\E t \in Torrents : DialArrives(d, t)) \/ DialWakes(d) \/ DialWaits(d) \/ DialHands(d)
Supervisor   == SupervisorGates \/ SupervisorTells \/ \E t \in Torrents : SupervisorPauses(t)
Tick         == TickSees \/ TickPauses \/ TickUnpauses
Rotation     == RotationLooks \/ Tick \/ DwellPasses

Next ==
    \/ Register \/ Arrives
    \/ \E t \in Torrents : (\E w \in Starters : Check(t, w)) \/ PeerComes(t) \/ PeerGoes(t)
    \/ \E d \in Dialers : Dial(d)
    \/ HoursTurn \/ Supervisor \/ Rotation

Spec == Init /\ [][Next]_vars

\* The node's own tasks run, and checks end.  Peers, downloads and the hours
\* come as they come.  (Each of these actions changes the variable it is
\* subscripted with, so fairness for vars would be the same.)
Fairness ==
    /\ WF_toRegister(Register) /\ WF_<<telling, sup>>(Supervisor)
    /\ WF_tick(RotationLooks) /\ WF_tick(Tick) /\ WF_due(DwellPasses)
    /\ \A t \in Torrents : \A w \in Starters : WF_checks(Check(t, w))

FairSpec == Spec /\ Fairness

----------------------------------------------------------------------------
(* Properties.                                                             *)

DialledWhileChecking(t) == \E d \in Dialers : checks[t][d] # "none"

\* A paused torrent has its flag up, which is what lets a handshake wake it,
\* unless it was dialled during its hash check.  The flag and the state are set
\* in different places by three tasks (torrent_state/mod.rs start and pause).
PausedIsWakeable ==
    \A t \in Torrents : st[t] = "paused" /\ ~DialledWhileChecking(t) => flag[t]

\* A torrent that serves can read its file, unless it was dialled during its
\* hash check: two checks of one torrent share the opened files, and the state
\* may be set by the one that came second.
ServesWithFiles ==
    \A t \in Torrents : st[t] \in {"paused", "live"} /\ ~DialledWhileChecking(t) => t \in readable

\* Every torrent of the session has its turn: it is live again and again, once
\* no quiet hour stops the rotation any more (seed.rs rotate_tick: "every
\* torrent gets its turn"), whatever is woken, added or kept busy meanwhile.
TurnsCome ==
    <>[]~hours => \A t \in Torrents : []<>(st[t] \in {"absent", "live"})

\* After every pass a whole window is live, wherever it begins, once no quiet
\* hour stops the rotation any more and every hash check is through (seed.rs
\* rotate_tick, where the end of the window "may wrap past total").
WindowIsServed ==
    <>[]~hours =>
        <>[](tick = Resting /\ total >= Window
                => Cardinality({t \in Torrents : st[t] = "live"}) >= Window)

\* Quiet hours that last leave nothing live, and it stays so: what slips live
\* around their beginning is paused by a later pass (main.rs quiet supervisor).
QuietFallsSilent ==
    <>[]hours => <>[](\A t \in Torrents : st[t] # "live")

\* Quiet with the gate shut, and nothing decided before it is still to be done.
Stilled == quiet /\ ~gate /\ tick = Resting /\ \A d \in Dialers : dials[d].step # "wake"

\* Quiet hours wake nobody: once the handshakes and the pass that were under way
\* when they began are through, no paused torrent goes live and nothing is begun
\* that would wake one, until the supervisor finds the hours over and opens the
\* gate (gate and flag are each read once, at the start of what they guard).
StillnessLasts ==
    [][Stilled => /\ \A t \in Torrents : st[t] = "paused" => st'[t] = "paused"
                  /\ Stilled' \/ (gate' /\ ~hours)]_vars

\* Torrents nobody is connected to do not pile up live, however often they are
\* woken: the rotation pauses each again and again, once the session is larger
\* than the window (session.rs: "woken torrents can't accumulate").
IdleIsPausedAgain ==
    \A t \in Torrents :
        (<>[]~hours /\ <>[](t \notin peers) /\ <>[](total > Window)) => []<>(st[t] # "live")
=============================================================================
