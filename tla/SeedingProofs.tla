---------------------------- MODULE SeedingProofs ----------------------------
(***************************************************************************)
(* Proofs about Seeding, for any number of files, window and handshakes:   *)
(* its type invariant; that a torrent not dialled during its hash check    *)
(* can be woken when it is paused and can read its file when it serves;    *)
(* that quiet hours, once still, wake nobody; and that the window has its  *)
(* size wherever it begins, comes nearer to each torrent with every pass,  *)
(* and is live when an undisturbed pass ends.                              *)
(***************************************************************************)
EXTENDS Seeding, FiniteSetTheorems, TLAPS

LEMMA CursorStays ==
    ASSUME NEW c \in Nat
    PROVE  c % Cycle \in 0..(Cycle - 1)
  BY SeedingAssumption

LEMMA SessionStarts == "session" \in Starters /\ "rotation" \in Starters /\ Dialers \subseteq Starters
  BY DEF Starters

----------------------------------------------------------------------------
(* The type invariant.                                                     *)

LEMMA InitTyped == Init => TypeOK
  <1> SUFFICES ASSUME Init PROVE TypeOK
    OBVIOUS
  <1>1. TorrentsOK
    BY DEF Init, TorrentsOK, States, Stages
  <1>2. LibraryOK
    BY SeedingAssumption DEF Init, LibraryOK
  <1>3. TasksOK
    <2>1. telling \in {"nothing", "quiet", "over"} /\ sup \subseteq 1..total
      BY DEF Init
    <2>2. /\ tick \in [at : 0..total, of : 0..total, todo : {"look", "pause", "unpause"}]
          /\ tick.at <= tick.of /\ tick = Resting
      BY DEF Init, Resting
    <2>3. dials \in [Dialers -> [t : 0..total, step : {"idle", "wake", "wait", "hand"}]]
      BY DEF Init, NoDial
    <2>4. \A d \in Dialers : dials[d].t = 0 /\ dials[d].step = "idle"
      BY DEF Init, NoDial
    <2> QED BY <2>1, <2>2, <2>3, <2>4 DEF Init, TasksOK
  <1> QED BY <1>1, <1>2, <1>3 DEF TypeOK

\* Pausing and starting keep the types of what they touch.
LEMMA PauseTyped ==
    ASSUME TypeOK, NEW t \in Torrents, Pause(t)
    PROVE  /\ TorrentsOK'
           /\ dials' \in [Dialers -> [t : 0..total, step : {"idle", "wake", "wait", "hand"}]]
           /\ \A d \in Dialers : dials'[d].t = 0 <=> dials'[d].step = "idle"
  <1>1. CASE st[t] = "live"
    <2>1. TorrentsOK'
      BY <1>1 DEF TypeOK, Pause, TorrentsOK, States
    <2>2. \A d \in Dialers : dials'[d] = NoDial \/ dials'[d] = dials[d]
      BY <1>1 DEF Pause
    <2>3. dials' \in [Dialers -> [t : 0..total, step : {"idle", "wake", "wait", "hand"}]]
      BY <1>1 DEF Pause, NoDial, TypeOK, TasksOK, LibraryOK
    <2> QED BY <2>1, <2>2, <2>3 DEF NoDial, TypeOK, TasksOK
  <1>2. CASE st[t] # "live"
    BY <1>2 DEF Pause, TypeOK, TorrentsOK, TasksOK, torrent
  <1> QED BY <1>1, <1>2

LEMMA StartTyped ==
    ASSUME TypeOK, NEW t \in Torrents, NEW who \in Starters, Start(t, who)
    PROVE  TorrentsOK'
  BY DEF TypeOK, TorrentsOK, Start, States, Stages

LEMMA NextTorrentTyped ==
    ASSUME TypeOK, tick.at > 0, NextTorrent, total' = total
    PROVE  /\ tick' \in [at : 0..total, of : 0..total, todo : {"look", "pause", "unpause"}]
           /\ tick'.at <= tick'.of /\ (tick'.at = 0 => tick' = Resting)
           /\ cursor' \in 0..(Cycle - 1) /\ due' \in BOOLEAN
  <1>1. (cursor + Window) % Cycle \in 0..(Cycle - 1)
    BY CursorStays, SeedingAssumption DEF TypeOK, TasksOK
  <1>2. total \in Nat /\ tick \in [at : 0..total, of : 0..total, todo : {"look", "pause", "unpause"}]
    BY SeedingAssumption DEF TypeOK, TasksOK, LibraryOK
  <1>3. CASE tick.at < tick.of
    <2>1. tick' = [tick EXCEPT !.at = @ + 1, !.todo = "look"] /\ UNCHANGED <<cursor, due>>
      BY <1>3 DEF NextTorrent
    <2>2. /\ tick.at \in 0..total /\ tick.of \in 0..total
          /\ tick' = [at |-> tick.at + 1, of |-> tick.of, todo |-> "look"]
      BY <1>2, <2>1
    <2>3. tick.at + 1 \in 0..total
      BY <1>2, <1>3, <2>2
    <2> QED BY <1>2, <1>3, <2>1, <2>2, <2>3 DEF TypeOK, TasksOK
  <1>4. CASE ~(tick.at < tick.of)
    <2>1. tick' = [at |-> 0, of |-> 0, todo |-> "look"] /\ tick' = Resting
      BY <1>4 DEF NextTorrent, Resting
    <2>2. cursor' \in 0..(Cycle - 1) /\ due' \in BOOLEAN
      BY <1>1, <1>4 DEF NextTorrent, TypeOK, TasksOK
    <2> QED BY <1>2, <2>1, <2>2
  <1> QED BY <1>3, <1>4

LEMMA NextTorrentLooks == TypeOK /\ NextTorrent => tick'.todo = "look"
  <1> SUFFICES ASSUME TypeOK, NextTorrent PROVE tick'.todo = "look"
    OBVIOUS
  <1>1. tick \in [at : 0..total, of : 0..total, todo : {"look", "pause", "unpause"}]
    BY DEF TypeOK, TasksOK
  <1>2. CASE tick.at < tick.of
    <2>1. tick' = [tick EXCEPT !.at = @ + 1, !.todo = "look"]
      BY <1>2 DEF NextTorrent
    <2> QED BY <1>1, <2>1
  <1>3. CASE ~(tick.at < tick.of)
    BY <1>3 DEF NextTorrent, Resting
  <1> QED BY <1>2, <1>3

LEMMA TotalIsNat == TypeOK => total \in Nat /\ 0..total \subseteq Torrents \cup {0}
  BY SeedingAssumption DEF TypeOK, LibraryOK, Torrents

LEMMA TickIsAtTorrent == TypeOK /\ tick # Resting => tick.at > 0 /\ tick.at \in Torrents
  <1> SUFFICES ASSUME TypeOK, tick # Resting PROVE tick.at > 0 /\ tick.at \in Torrents
    OBVIOUS
  <1>1. tick.at # 0 /\ tick.at \in 0..total
    BY DEF TypeOK, TasksOK
  <1> QED BY <1>1, TotalIsNat

LEMMA DialIsAtTorrent ==
    ASSUME TypeOK, NEW d \in Dialers, dials[d].step # "idle"
    PROVE  dials[d].t \in Torrents
  <1>1. dials[d].t # 0 /\ dials[d].t \in 0..total
    BY DEF TypeOK, TasksOK
  <1> QED BY <1>1, TotalIsNat

LEMMA SessionHasRoom == TypeOK /\ (Register \/ Arrives) => total + 1 \in Torrents
  <1> SUFFICES ASSUME TypeOK, Register \/ Arrives PROVE total + 1 \in Torrents
    OBVIOUS
  <1>1. /\ Held \in Nat /\ Fresh \in Nat /\ toRegister \in 0..Held
        /\ total \in (Held - toRegister)..(Held - toRegister + Fresh)
    BY SeedingAssumption DEF TypeOK, LibraryOK
  <1>2. toRegister > 0 \/ total - (Held - toRegister) < Fresh
    BY DEF Register, Arrives
  <1> QED BY <1>1, <1>2 DEF Torrents

LEMMA AddTyped ==
    ASSUME TypeOK, NEW live \in BOOLEAN, Add(live),
           \/ toRegister > 0 /\ toRegister' = toRegister - 1
           \/ total - (Held - toRegister) < Fresh /\ toRegister' = toRegister
    PROVE  TypeOK'
  <1>1. total \in Nat /\ total + 1 \in Torrents /\ total' = total + 1
    BY SeedingAssumption DEF TypeOK, LibraryOK, Add, Torrents
  <1>2. LibraryOK'
    BY <1>1, SeedingAssumption DEF TypeOK, LibraryOK, Add
  <1>3. TorrentsOK'
    BY <1>1, SessionStarts DEF TypeOK, TorrentsOK, Add, States, Stages
  <1>4. 0..total \subseteq 0..total'
    BY <1>1
  <1>5. UNCHANGED <<hours, quiet, gate, telling, sup, tick, cursor, due, dials>>
    BY DEF Add, schedule, rotation
  <1>6. TasksOK'
    <2>1. sup' \subseteq 1..total'
      BY <1>1, <1>5 DEF TypeOK, TasksOK
    <2> QED BY <1>4, <1>5, <2>1 DEF TypeOK, TasksOK
  <1> QED BY <1>2, <1>3, <1>6 DEF TypeOK

LEMMA CheckTyped ==
    ASSUME TypeOK, NEW t \in Torrents, NEW w \in Starters, Check(t, w)
    PROVE  TypeOK'
  <1>1. TorrentsOK'
    <2>1. CASE CheckTakes(t, w)
      BY <2>1 DEF TypeOK, TorrentsOK, CheckTakes, Stages
    <2>2. CASE CheckPublishes(t, w)
      BY <2>2 DEF TypeOK, TorrentsOK, CheckPublishes, Stages, States
    <2> QED BY <2>1, <2>2 DEF Check
  <1>2. UNCHANGED <<library, schedule, rotation, dials>>
    BY DEF Check, CheckTakes, CheckPublishes
  <1> QED BY <1>1, <1>2 DEF TypeOK, LibraryOK, TasksOK, library, schedule, rotation

LEMMA DialTyped ==
    ASSUME TypeOK, NEW d \in Dialers, Dial(d)
    PROVE  TypeOK'
  <1> DEFINE Dials == [Dialers -> [t : 0..total, step : {"idle", "wake", "wait", "hand"}]]
  <1>u. UNCHANGED <<library, schedule, rotation>>
    BY DEF Dial, DialArrives, DialWakes, DialWaits, DialHands
  <1>d. dials \in Dials /\ \A e \in Dialers : dials[e].t = 0 <=> dials[e].step = "idle"
    BY DEF TypeOK, TasksOK
  <1>n. NoDial \in [t : 0..total, step : {"idle", "wake", "wait", "hand"}]
    BY TotalIsNat DEF NoDial
  <1>1. TorrentsOK'
    <2>1. CASE \E t \in Torrents : DialArrives(d, t)
      BY <2>1 DEF DialArrives, TypeOK, TorrentsOK, torrent
    <2>2. CASE DialWakes(d)
      BY <2>2, StartTyped, DialIsAtTorrent, SessionStarts DEF DialWakes
    <2>3. CASE DialWaits(d)
      BY <2>3 DEF DialWaits, TypeOK, TorrentsOK, torrent
    <2>4. CASE DialHands(d)
      BY <2>4, DialIsAtTorrent DEF DialHands, TypeOK, TorrentsOK
    <2> QED BY <2>1, <2>2, <2>3, <2>4 DEF Dial
  <1>2. dials' \in Dials /\ \A e \in Dialers : dials'[e].t = 0 <=> dials'[e].step = "idle"
    <2>1. CASE \E t \in Torrents : DialArrives(d, t)
      <3>1. PICK t \in Torrents : DialArrives(d, t)
        BY <2>1
      <3>2. t \in 0..total /\ t # 0
        BY <3>1, TotalIsNat DEF DialArrives, Torrents
      <3> QED BY <1>d, <3>1, <3>2 DEF DialArrives
    <2>2. CASE DialWakes(d)
      BY <2>2, <1>d DEF DialWakes
    <2>3. CASE DialWaits(d)
      BY <2>3, <1>d, <1>n DEF DialWaits, NoDial
    <2>4. CASE DialHands(d)
      BY <2>4, <1>d, <1>n DEF DialHands, NoDial
    <2> QED BY <2>1, <2>2, <2>3, <2>4 DEF Dial
  <1> QED BY <1>u, <1>1, <1>2 DEF TypeOK, LibraryOK, TasksOK, library, schedule, rotation

LEMMA SupervisorTyped == TypeOK /\ (Supervisor \/ HoursTurn) => TypeOK'
  <1> SUFFICES ASSUME TypeOK, Supervisor \/ HoursTurn PROVE TypeOK'
    OBVIOUS
  <1>1. CASE HoursTurn
    BY <1>1 DEF HoursTurn, TypeOK, TorrentsOK, LibraryOK, TasksOK, torrent, library, rotation
  <1>2. CASE SupervisorGates
    BY <1>2 DEF SupervisorGates, TypeOK, TorrentsOK, LibraryOK, TasksOK, torrent, library, rotation
  <1>3. CASE SupervisorTells
    BY <1>3 DEF SupervisorTells, TypeOK, TorrentsOK, LibraryOK, TasksOK, torrent, library, rotation
  <1>4. CASE \E t \in Torrents : SupervisorPauses(t)
    <2>1. PICK t \in Torrents : SupervisorPauses(t)
      BY <1>4
    <2>2. sup' \subseteq 1..total
      BY <2>1 DEF SupervisorPauses, TypeOK, TasksOK
    <2> QED BY <2>1, <2>2, PauseTyped
        DEF SupervisorPauses, TypeOK, LibraryOK, TasksOK, library, rotation
  <1> QED BY <1>1, <1>2, <1>3, <1>4 DEF Supervisor

LEMMA RotationTyped == TypeOK /\ Rotation => TypeOK'
  <1> SUFFICES ASSUME TypeOK, Rotation PROVE TypeOK'
    OBVIOUS
  <1>1. CASE RotationLooks
    BY <1>1, TotalIsNat DEF RotationLooks, TypeOK, TorrentsOK, LibraryOK, TasksOK, torrent, library, schedule
  <1>2. CASE DwellPasses
    BY <1>2 DEF DwellPasses, TypeOK, TorrentsOK, LibraryOK, TasksOK, torrent, library, schedule
  <1>3. CASE TickSees
    <2>1. tick.at > 0 /\ total' = total /\ UNCHANGED <<torrent, library, schedule, dials>>
      BY <1>3 DEF TickSees, library
    <2>2. /\ tick' \in [at : 0..total, of : 0..total, todo : {"look", "pause", "unpause"}]
          /\ tick'.at <= tick'.of /\ (tick'.at = 0 => tick' = Resting)
          /\ cursor' \in 0..(Cycle - 1) /\ due' \in BOOLEAN
      <3>1. CASE NextTorrent
        BY <2>1, <3>1, NextTorrentTyped
      <3>2. CASE tick' = [tick EXCEPT !.todo = "pause"] /\ UNCHANGED <<cursor, due>>
        BY <2>1, <3>2, TotalIsNat DEF TypeOK, TasksOK
      <3>3. CASE tick' = [tick EXCEPT !.todo = "unpause"] /\ UNCHANGED <<cursor, due>>
        BY <2>1, <3>3, TotalIsNat DEF TypeOK, TasksOK
      <3> QED BY <1>3, <3>1, <3>2, <3>3 DEF TickSees
    <2> QED BY <2>1, <2>2 DEF TypeOK, TorrentsOK, LibraryOK, TasksOK, torrent, library, schedule
  <1>4. CASE TickPauses
    <2>1. tick.at > 0 /\ tick.at \in Torrents /\ total' = total
      BY <1>4, TickIsAtTorrent DEF TickPauses, Resting, library
    <2> QED BY <1>4, <2>1, PauseTyped, NextTorrentTyped
        DEF TickPauses, TypeOK, LibraryOK, TasksOK, library, schedule
  <1>5. CASE TickUnpauses
    <2>1. tick.at > 0 /\ tick.at \in Torrents /\ total' = total
      BY <1>5, TickIsAtTorrent DEF TickUnpauses, Resting, library
    <2> QED BY <1>5, <2>1, StartTyped, NextTorrentTyped, SessionStarts
        DEF TickUnpauses, TypeOK, LibraryOK, TasksOK, library, schedule
  <1> QED BY <1>1, <1>2, <1>3, <1>4, <1>5 DEF Rotation, Tick

LEMMA StepTyped == TypeOK /\ [Next]_vars => TypeOK'
  <1> SUFFICES ASSUME TypeOK, [Next]_vars PROVE TypeOK'
    OBVIOUS
  <1>1. CASE Register \/ Arrives
    BY <1>1, AddTyped DEF Register, Arrives
  <1>2. CASE \E t \in Torrents : (\E w \in Starters : Check(t, w))
    BY <1>2, CheckTyped
  <1>3. CASE \E t \in Torrents : PeerComes(t) \/ PeerGoes(t)
    BY <1>3 DEF PeerComes, PeerGoes, TypeOK, TorrentsOK, LibraryOK, TasksOK, library, schedule, rotation
  <1>4. CASE \E d \in Dialers : Dial(d)
    BY <1>4, DialTyped
  <1>5. CASE HoursTurn \/ Supervisor \/ Rotation
    BY <1>5, SupervisorTyped, RotationTyped
  <1>6. CASE UNCHANGED vars
    BY <1>6 DEF vars, torrent, library, schedule, rotation, TypeOK, TorrentsOK, LibraryOK, TasksOK
  <1> QED BY <1>1, <1>2, <1>3, <1>4, <1>5, <1>6 DEF Next

\* Every variable keeps its type: in particular each pass stays within the
\* torrents it set out over and the cursor within its cycle.
THEOREM SeedingTyping == Spec => []TypeOK
  <1>1. Init => TypeOK
    BY InitTyped
  <1>2. TypeOK /\ [Next]_vars => TypeOK'
    BY StepTyped
  <1> QED BY <1>1, <1>2, PTL DEF Spec

----------------------------------------------------------------------------
(* The flag, the state and the opened files.                               *)

\* A torrent with no check but the session's: what its state says of its flag,
\* of that check and of its files.  A torrent numbered past the session has
\* none of these yet, and the rotation never starts a check.
Settled(t) ==
    /\ st[t] = "checking" => (flag[t] <=> t \notin startsLive) /\ checks[t]["session"] \in {"checking", "open"}
    /\ st[t] \in {"paused", "live"} => t \in readable
    /\ st[t] = "paused" => flag[t]

Unstarted(t) == st[t] = "absent" /\ \A w \in Starters : checks[t][w] = "none"

Consistent ==
    /\ \A t \in Torrents : t > total => Unstarted(t) /\ t \notin startsLive
    /\ \A t \in Torrents : checks[t]["rotation"] = "none"
    /\ \A t \in Torrents : ~DialledWhileChecking(t) => Settled(t)
    /\ tick.todo = "unpause" => st[tick.at] \in {"paused", "live"}

LEMMA InitConsistent == Init => Consistent
  BY SessionStarts DEF Init, Consistent, Settled, Unstarted, DialledWhileChecking, Resting

\* Who else could have started a check.
LEMMA AloneMeans ==
    ASSUME TypeOK, Consistent, NEW t \in Torrents, ~DialledWhileChecking(t),
           NEW w \in Starters, checks[t][w] # "none"
    PROVE  w = "session"
  BY DEF Consistent, DialledWhileChecking, Starters

LEMMA AddConsistent ==
    ASSUME TypeOK, Consistent, NEW live \in BOOLEAN, Add(live), total + 1 \in Torrents
    PROVE  Consistent'
  <1> DEFINE new == total + 1
  <1>1. total \in Nat /\ total' = new
    BY TotalIsNat DEF Add
  <1>2. ASSUME NEW t \in Torrents, t # new
        PROVE  /\ st'[t] = st[t] /\ flag'[t] = flag[t] /\ checks'[t] = checks[t]
               /\ (t \in startsLive' <=> t \in startsLive) /\ readable' = readable
    BY <1>2 DEF Add, TypeOK, TorrentsOK
  <1>3. /\ st'[new] = "checking" /\ flag'[new] = ~live /\ checks'[new]["session"] = "checking"
        /\ (new \in startsLive' <=> live)
        /\ \A w \in Starters : w # "session" => checks'[new][w] = "none"
    <2>1. new \notin startsLive /\ Unstarted(new)
      BY <1>1 DEF Consistent
    <2> QED BY <2>1, SessionStarts DEF Add, TypeOK, TorrentsOK, Unstarted
  <1>4. \A t \in Torrents : t > total' => Unstarted(t)' /\ t \notin startsLive'
    <2> SUFFICES ASSUME NEW t \in Torrents, t > total' PROVE Unstarted(t)' /\ t \notin startsLive'
      OBVIOUS
    <2>1. t # new /\ t > total
      BY <1>1 DEF Torrents
    <2> QED BY <2>1, <1>2 DEF Consistent, Unstarted
  <1>5. \A t \in Torrents : checks'[t]["rotation"] = "none"
    <2> SUFFICES ASSUME NEW t \in Torrents PROVE checks'[t]["rotation"] = "none"
      OBVIOUS
    <2> QED BY <1>2, <1>3, SessionStarts DEF Consistent
  <1>6. ASSUME NEW t \in Torrents, ~DialledWhileChecking(t)' PROVE Settled(t)'
    <2>1. CASE t = new
      BY <2>1, <1>3 DEF Settled
    <2>2. CASE t # new
      BY <2>2, <1>2, <1>6 DEF Settled, Consistent, DialledWhileChecking
    <2> QED BY <2>1, <2>2
  <1>7. tick'.todo = "unpause" => st'[tick'.at] \in {"paused", "live"}
    <2> SUFFICES ASSUME tick.todo = "unpause" PROVE st'[tick.at] \in {"paused", "live"}
      BY DEF Add, rotation
    <2>1. tick.at \in Torrents /\ st[tick.at] \in {"paused", "live"}
      BY TickIsAtTorrent DEF Consistent, Resting
    <2>2. st[new] = "absent"
      BY <1>1 DEF Consistent, Unstarted
    <2> QED BY <2>1, <2>2, <1>2
  <1> QED BY <1>4, <1>5, <1>6, <1>7 DEF Consistent

LEMMA TakesConsistent ==
    ASSUME TypeOK, Consistent, NEW t \in Torrents, NEW w \in Starters, CheckTakes(t, w)
    PROVE  Consistent'
  <1>0. UNCHANGED <<st, flag, readable, startsLive, total, tick>>
    BY DEF CheckTakes, library, rotation
  <1>1. /\ checks' = [checks EXCEPT ![t][w] = checks'[t][w]]
        /\ checks[t][w] = "checking" /\ checks'[t][w] \in {"open", "lost"}
        /\ ((\A v \in Starters : checks[t][v] \in {"none", "checking"}) => checks'[t][w] = "open")
    BY DEF CheckTakes, TypeOK, TorrentsOK
  <1>2. \A s \in Torrents : \A v \in Starters : checks[s][v] = "none" <=> checks'[s][v] = "none"
    BY <1>1 DEF TypeOK, TorrentsOK
  <1>3. \A s \in Torrents : DialledWhileChecking(s)' <=> DialledWhileChecking(s)
    BY <1>2, SessionStarts DEF DialledWhileChecking
  <1>4. ASSUME NEW s \in Torrents, ~DialledWhileChecking(s)' PROVE Settled(s)'
    <2>1. Settled(s)
      BY <1>3, <1>4 DEF Consistent
    <2>2. checks[s]["session"] \in {"checking", "open"} => checks'[s]["session"] \in {"checking", "open"}
      <3>1. CASE s # t
        BY <3>1, <1>1, SessionStarts DEF TypeOK, TorrentsOK
      <3>2. CASE s = t
        <4>1. w = "session"
          BY <3>2, <1>1, <1>3, <1>4, AloneMeans
        <4>2. \A v \in Starters : checks[t][v] \in {"none", "checking"}
          BY <3>2, <4>1, <1>1, <1>3, <1>4, AloneMeans
        <4> QED BY <3>2, <4>1, <4>2, <1>1
      <3> QED BY <3>1, <3>2
    <2> QED BY <2>1, <2>2, <1>0 DEF Settled
  <1>5. \A s \in Torrents : checks'[s]["rotation"] = "none"
    BY <1>2, SessionStarts DEF Consistent
  <1>6. \A s \in Torrents : s > total' => Unstarted(s)' /\ s \notin startsLive'
    BY <1>0, <1>2 DEF Consistent, Unstarted
  <1>7. tick'.todo = "unpause" => st'[tick'.at] \in {"paused", "live"}
    BY <1>0 DEF Consistent
  <1> QED BY <1>4, <1>5, <1>6, <1>7 DEF Consistent

LEMMA PublishesConsistent ==
    ASSUME TypeOK, Consistent, NEW t \in Torrents, NEW w \in Starters, CheckPublishes(t, w)
    PROVE  Consistent'
  <1>0. UNCHANGED <<flag, startsLive, total, tick>> /\ readable \subseteq readable'
    BY DEF CheckPublishes, library, rotation
  <1>1. checks[t][w] \in {"open", "lost"} /\ checks' = [checks EXCEPT ![t][w] = "done"]
    BY DEF CheckPublishes
  <1>2. \A s \in Torrents : \A v \in Starters : checks[s][v] = "none" <=> checks'[s][v] = "none"
    BY <1>1 DEF TypeOK, TorrentsOK
  <1>3. \A s \in Torrents : DialledWhileChecking(s)' <=> DialledWhileChecking(s)
    BY <1>2, SessionStarts DEF DialledWhileChecking
  <1>4. /\ \A s \in Torrents : s # t => st'[s] = st[s] /\ checks'[s] = checks[s]
        /\ st[t] # "checking" => st' = st
    BY <1>1 DEF CheckPublishes, TypeOK, TorrentsOK
  <1>5. ASSUME NEW s \in Torrents, ~DialledWhileChecking(s)' PROVE Settled(s)'
    <2>1. Settled(s)
      BY <1>3, <1>5 DEF Consistent
    <2>2. CASE s # t
      BY <2>1, <2>2, <1>0, <1>4 DEF Settled
    <2>3. CASE s = t /\ st[t] # "checking"
      BY <2>1, <2>3, <1>0, <1>4 DEF Settled
    <2>4. CASE s = t /\ st[t] = "checking"
      <3>1. w = "session" /\ checks[t][w] = "open"
        BY <2>1, <2>4, <1>1, <1>3, <1>5, AloneMeans DEF Settled
      <3>2. /\ st'[t] = IF t \in startsLive THEN "live" ELSE "paused"
            /\ t \in readable'
        BY <2>4, <3>1 DEF CheckPublishes, TypeOK, TorrentsOK
      <3>3. flag[t] <=> t \notin startsLive
        BY <2>1, <2>4 DEF Settled
      <3> QED BY <2>4, <3>2, <3>3, <1>0 DEF Settled
    <2> QED BY <2>2, <2>3, <2>4
  <1>6. \A s \in Torrents : checks'[s]["rotation"] = "none"
    BY <1>2, SessionStarts DEF Consistent
  <1>7. \A s \in Torrents : s > total' => Unstarted(s)' /\ s \notin startsLive'
    <2>1. ~(t > total)
      BY <1>1 DEF Consistent, Unstarted
    <2> QED BY <2>1, <1>0, <1>2, <1>4 DEF Consistent, Unstarted
  <1>8. tick'.todo = "unpause" => st'[tick'.at] \in {"paused", "live"}
    <2> SUFFICES ASSUME tick.todo = "unpause" PROVE st'[tick.at] \in {"paused", "live"}
      BY <1>0
    <2>1. tick.at \in Torrents /\ st[tick.at] \in {"paused", "live"}
      BY TickIsAtTorrent DEF Consistent, Resting
    <2> QED BY <2>1, <1>4
  <1> QED BY <1>5, <1>6, <1>7, <1>8 DEF Consistent

\* What a step that pauses a torrent, or starts one, keeps of the above; the
\* rotation starts only what has left its check.
TorrentsConsistent ==
    /\ \A t \in Torrents : t > total => Unstarted(t) /\ t \notin startsLive
    /\ \A t \in Torrents : checks[t]["rotation"] = "none"
    /\ \A t \in Torrents : ~DialledWhileChecking(t) => Settled(t)

PastChecking(t) == st[t] \in {"paused", "live"}

LEMMA PauseConsistent ==
    ASSUME TypeOK, Consistent, NEW t \in Torrents, Pause(t), UNCHANGED library
    PROVE  TorrentsConsistent' /\ \A s \in Torrents : PastChecking(s) => PastChecking(s)'
  <1>0. UNCHANGED <<total, startsLive, checks, readable>>
    BY DEF Pause, library, torrent
  <1>1. \A s \in Torrents : \/ st'[s] = st[s] /\ flag'[s] = flag[s]
                            \/ st[s] = "live" /\ st'[s] = "paused" /\ flag'[s] = TRUE
    BY DEF Pause, TypeOK, TorrentsOK, torrent
  <1>2. ASSUME NEW s \in Torrents, ~DialledWhileChecking(s)' PROVE Settled(s)'
    <2>1. Settled(s)
      BY <1>0, <1>2 DEF Consistent, DialledWhileChecking
    <2> QED BY <2>1, <1>0, <1>1 DEF Settled
  <1> QED BY <1>0, <1>1, <1>2 DEF TorrentsConsistent, Consistent, Unstarted, PastChecking

LEMMA StartConsistent ==
    ASSUME TypeOK, Consistent, NEW t \in Torrents, NEW who \in Starters, Start(t, who),
           UNCHANGED library, st[t] = "checking" => who \in Dialers
    PROVE  TorrentsConsistent' /\ \A s \in Torrents : PastChecking(s) => PastChecking(s)'
  <1>0. UNCHANGED <<total, startsLive, readable>>
    BY DEF Start, library
  <1>1. /\ \A s \in Torrents : s # t => st'[s] = st[s] /\ flag'[s] = flag[s] /\ checks'[s] = checks[s]
        /\ st'[t] = IF st[t] = "paused" THEN "live" ELSE st[t]
        /\ flag'[t] = FALSE
        /\ st[t] # "checking" => checks' = checks
        /\ st[t] = "checking" => checks'[t] = [checks[t] EXCEPT ![who] = "checking"]
    BY DEF Start, TypeOK, TorrentsOK
  <1>2. ASSUME NEW s \in Torrents, ~DialledWhileChecking(s)' PROVE Settled(s)'
    <2>1. CASE s # t
      BY <2>1, <1>0, <1>1, <1>2 DEF Consistent, DialledWhileChecking, Settled
    <2>2. CASE s = t /\ st[t] = "checking"
      <3>1. checks'[t][who] = "checking" /\ who \in Dialers
        BY <2>2, <1>1 DEF TypeOK, TorrentsOK
      <3> QED BY <2>2, <3>1, <1>2 DEF DialledWhileChecking
    <2>3. CASE s = t /\ st[t] # "checking"
      <3>1. Settled(t)
        BY <2>3, <1>1, <1>2 DEF Consistent, DialledWhileChecking
      <3> QED BY <2>3, <3>1, <1>0, <1>1 DEF Settled
    <2> QED BY <2>1, <2>2, <2>3
  <1>3. \A s \in Torrents : checks'[s]["rotation"] = "none"
    <2>1. "rotation" \notin Dialers
      BY SeedingAssumption
    <2> QED BY <2>1, <1>1, SessionStarts DEF Consistent, TypeOK, TorrentsOK
  <1>4. \A s \in Torrents : s > total' => Unstarted(s)' /\ s \notin startsLive'
    BY <1>0, <1>1 DEF Consistent, Unstarted
  <1> QED BY <1>1, <1>2, <1>3, <1>4 DEF TorrentsConsistent, PastChecking

LEMMA RotationConsistent ==
    ASSUME TypeOK, Consistent, Rotation
    PROVE  Consistent'
  <1>1. CASE RotationLooks \/ DwellPasses
    <2>1. UNCHANGED <<torrent, library>> /\ (tick' = tick \/ tick'.todo = "look")
      BY <1>1 DEF RotationLooks, DwellPasses
    <2> QED BY <2>1 DEF Consistent, Unstarted, Settled, DialledWhileChecking, torrent, library
  <1>2. CASE TickSees
    <2>1. UNCHANGED <<torrent, library>>
      BY <1>2 DEF TickSees
    <2>2. tick'.todo = "unpause" => st[tick'.at] = "paused"
      <3>1. CASE NextTorrent
        BY <3>1, NextTorrentLooks
      <3>2. CASE tick' = [tick EXCEPT !.todo = "pause"]
        BY <3>2 DEF TypeOK, TasksOK
      <3>3. CASE PausedInside(tick.at) /\ tick' = [tick EXCEPT !.todo = "unpause"]
        BY <3>3 DEF TypeOK, TasksOK, PausedInside
      <3> QED BY <1>2, <3>1, <3>2, <3>3 DEF TickSees
    <2> QED BY <2>1, <2>2 DEF Consistent, Unstarted, Settled, DialledWhileChecking, torrent, library
  <1>3. CASE TickPauses \/ TickUnpauses
    <2>1. tick.at \in Torrents /\ UNCHANGED library
      BY <1>3, TickIsAtTorrent DEF TickPauses, TickUnpauses, Resting
    <2>2. TorrentsConsistent'
      <3>1. CASE TickPauses
        BY <3>1, <2>1, PauseConsistent DEF TickPauses
      <3>2. CASE TickUnpauses
        BY <3>2, <2>1, StartConsistent, SessionStarts DEF TickUnpauses, Consistent
      <3> QED BY <1>3, <3>1, <3>2
    <2>3. tick'.todo = "look"
      BY <1>3, NextTorrentLooks DEF TickPauses, TickUnpauses
    <2> QED BY <2>2, <2>3 DEF Consistent, TorrentsConsistent
  <1> QED BY <1>1, <1>2, <1>3 DEF Rotation, Tick

\* The tick about to unpause a torrent finds it past its check, still.
LEMMA TickStandsBy ==
    ASSUME TypeOK, Consistent, tick' = tick, TorrentsConsistent',
           \A s \in Torrents : PastChecking(s) => PastChecking(s)'
    PROVE  Consistent'
  <1>1. tick.todo = "unpause" => tick.at \in Torrents /\ PastChecking(tick.at)
    BY TickIsAtTorrent DEF Consistent, Resting, PastChecking
  <1> QED BY <1>1 DEF Consistent, TorrentsConsistent, PastChecking

LEMMA StepConsistent == TypeOK /\ Consistent /\ [Next]_vars => Consistent'
  <1> SUFFICES ASSUME TypeOK, Consistent, [Next]_vars PROVE Consistent'
    OBVIOUS
  <1>1. CASE Register \/ Arrives
    <2>1. total + 1 \in Torrents
      BY <1>1, SessionHasRoom
    <2> QED BY <1>1, <2>1, AddConsistent DEF Register, Arrives
  <1>2. CASE \E t \in Torrents : (\E w \in Starters : Check(t, w))
    BY <1>2, TakesConsistent, PublishesConsistent DEF Check
  <1>3. CASE \E t \in Torrents : PeerComes(t) \/ PeerGoes(t)
    BY <1>3 DEF PeerComes, PeerGoes, Consistent, Unstarted, Settled, DialledWhileChecking, library, rotation
  <1>4. CASE \E d \in Dialers : Dial(d)
    <2>1. PICK d \in Dialers : Dial(d)
      BY <1>4
    <2>2. CASE DialWakes(d)
      <3>1. dials[d].t \in Torrents /\ d \in Starters /\ UNCHANGED library /\ tick' = tick
        BY <2>2, DialIsAtTorrent, SessionStarts DEF DialWakes, rotation
      <3> QED BY <2>2, <3>1, StartConsistent, TickStandsBy DEF DialWakes
    <2>3. CASE ~DialWakes(d)
      <3>1. UNCHANGED <<st, flag, checks, readable, total, startsLive, tick>>
        BY <2>1, <2>3 DEF Dial, DialArrives, DialWaits, DialHands, torrent, library, rotation
      <3> QED BY <3>1 DEF Consistent, Unstarted, Settled, DialledWhileChecking
    <2> QED BY <2>2, <2>3
  <1>5. CASE HoursTurn \/ SupervisorGates \/ SupervisorTells
    BY <1>5 DEF HoursTurn, SupervisorGates, SupervisorTells, Consistent, Unstarted, Settled,
                DialledWhileChecking, torrent, library, rotation
  <1>6. CASE \E t \in Torrents : SupervisorPauses(t)
    <2>1. PICK t \in Torrents : SupervisorPauses(t)
      BY <1>6
    <2>2. UNCHANGED library /\ tick' = tick
      BY <2>1 DEF SupervisorPauses, rotation
    <2> QED BY <2>1, <2>2, PauseConsistent, TickStandsBy DEF SupervisorPauses
  <1>7. CASE Rotation
    BY <1>7, RotationConsistent
  <1>8. CASE UNCHANGED vars
    BY <1>8 DEF vars, torrent, library, schedule, rotation, Consistent, Unstarted, Settled, DialledWhileChecking
  <1> QED BY <1>1, <1>2, <1>3, <1>4, <1>5, <1>6, <1>7, <1>8 DEF Next, Supervisor

LEMMA AlwaysConsistent == Spec => [](TypeOK /\ Consistent)
  <1>1. Init => TypeOK /\ Consistent
    BY InitTyped, InitConsistent
  <1>2. TypeOK /\ Consistent /\ [Next]_vars => (TypeOK /\ Consistent)'
    BY StepTyped, StepConsistent
  <1> QED BY <1>1, <1>2, PTL DEF Spec

\* A paused torrent that nobody dialled during its hash check can be woken by a
\* handshake: its flag and its state, set apart by three tasks, agree.
THEOREM Wakeable == Spec => []PausedIsWakeable
  <1>1. Consistent => PausedIsWakeable
    BY DEF Consistent, Settled, PausedIsWakeable
  <1> QED BY <1>1, AlwaysConsistent, PTL

\* A torrent that nobody dialled during its hash check has the files the check
\* opened when it is paused or live: the check that set its state took them.
THEOREM Readable == Spec => []ServesWithFiles
  <1>1. Consistent => ServesWithFiles
    BY DEF Consistent, Settled, ServesWithFiles
  <1> QED BY <1>1, AlwaysConsistent, PTL

----------------------------------------------------------------------------
(* Quiet hours.                                                            *)

\* The supervisor tells that the quiet hours are over behind an open gate only.
OpensFirst == telling = "over" => gate

LEMMA StepOpensFirst == OpensFirst /\ [Next]_vars => OpensFirst'
  <1> SUFFICES ASSUME OpensFirst, [Next]_vars PROVE OpensFirst'
    OBVIOUS
  <1>1. CASE SupervisorGates
    BY <1>1 DEF SupervisorGates, OpensFirst
  <1>2. CASE SupervisorTells
    BY <1>2 DEF SupervisorTells, OpensFirst
  <1>3. CASE ~SupervisorGates /\ ~SupervisorTells
    <2>1. UNCHANGED <<telling, gate>>
      BY <1>3 DEF Next, Register, Arrives, Add, Check, CheckTakes, CheckPublishes, PeerComes, PeerGoes,
         Dial, DialArrives, DialWakes, DialWaits, DialHands, HoursTurn, Supervisor, SupervisorPauses,
         Rotation, RotationLooks, Tick, TickSees, TickPauses, TickUnpauses, DwellPasses, vars, schedule
    <2> QED BY <2>1 DEF OpensFirst
  <1> QED BY <1>1, <1>2, <1>3

\* One step from stillness: no paused torrent goes live, and it stays still, or
\* the gate opens because the hours are over.
LEMMA StepStill ==
    TypeOK /\ Consistent /\ OpensFirst /\ [Next]_vars =>
        (Stilled => /\ \A t \in Torrents : st[t] = "paused" => st'[t] = "paused"
                    /\ Stilled' \/ (gate' /\ ~hours))
  <1> SUFFICES ASSUME TypeOK, Consistent, OpensFirst, [Next]_vars, Stilled
               PROVE  /\ \A t \in Torrents : st[t] = "paused" => st'[t] = "paused"
                      /\ Stilled' \/ (gate' /\ ~hours)
    OBVIOUS
  <1>a. quiet /\ ~gate /\ tick = Resting /\ tick.todo = "look" /\ tick.at = 0
    BY DEF Stilled, Resting
  <1>1. CASE Register \/ Arrives
    <2>1. total + 1 \in Torrents /\ st[total + 1] = "absent"
      BY <1>1, SessionHasRoom, TotalIsNat DEF Consistent, Unstarted
    <2>2. st' = [st EXCEPT ![total + 1] = "checking"] /\ UNCHANGED <<dials, tick, quiet, gate>>
      BY <1>1 DEF Register, Arrives, Add, rotation, schedule
    <2> QED BY <2>1, <2>2 DEF TypeOK, TorrentsOK, Stilled
  <1>2. CASE \E t \in Torrents : (\E w \in Starters : Check(t, w))
    <2>1. PICK t \in Torrents, w \in Starters : CheckTakes(t, w) \/ CheckPublishes(t, w)
      BY <1>2 DEF Check
    <2>2. UNCHANGED <<dials, tick, quiet, gate>>
      BY <2>1 DEF CheckTakes, CheckPublishes, rotation, schedule
    <2>3. \A s \in Torrents : st[s] = "paused" => st'[s] = "paused"
      BY <2>1 DEF CheckTakes, CheckPublishes, TypeOK, TorrentsOK
    <2> QED BY <2>2, <2>3 DEF Stilled
  <1>3. CASE \E t \in Torrents : PeerComes(t) \/ PeerGoes(t)
    <2>1. UNCHANGED <<st, dials, tick, quiet, gate>>
      BY <1>3 DEF PeerComes, PeerGoes, rotation, schedule
    <2> QED BY <2>1 DEF Stilled
  <1>4. CASE \E d \in Dialers : Dial(d)
    <2>1. PICK d \in Dialers : Dial(d)
      BY <1>4
    <2>2. ~DialWakes(d)
      BY DEF DialWakes, Stilled
    <2>3. UNCHANGED <<st, tick, quiet, gate>>
      BY <2>1, <2>2 DEF Dial, DialArrives, DialWaits, DialHands, torrent, rotation, schedule
    <2>4. \A e \in Dialers : dials'[e].step # "wake"
      BY <2>1, <2>2, <1>a DEF Dial, DialArrives, DialWaits, DialHands, NoDial, TypeOK, TasksOK, Stilled
    <2> QED BY <2>3, <2>4 DEF Stilled
  <1>5. CASE HoursTurn \/ SupervisorGates \/ SupervisorTells
    <2>1. telling # "over"
      BY <1>a DEF OpensFirst
    <2>2. telling \in {"nothing", "quiet", "over"}
      BY DEF TypeOK, TasksOK
    <2>3. CASE HoursTurn
      BY <2>3 DEF HoursTurn, Stilled, torrent, rotation
    <2>4. CASE SupervisorGates
      BY <2>4 DEF SupervisorGates, Stilled, torrent, rotation, TypeOK, TasksOK
    <2>5. CASE SupervisorTells
      BY <2>1, <2>2, <2>5 DEF SupervisorTells, Stilled, torrent, rotation
    <2> QED BY <1>5, <2>3, <2>4, <2>5
  <1>6. CASE \E t \in Torrents : SupervisorPauses(t)
    <2>0. PICK t \in Torrents : SupervisorPauses(t)
      BY <1>6
    <2>1. \A s \in Torrents : st[s] = "paused" => st'[s] = "paused"
      BY <2>0 DEF SupervisorPauses, Pause, TypeOK, TorrentsOK, torrent
    <2>2. \A e \in Dialers : dials'[e] = dials[e] \/ dials'[e] = NoDial
      BY <2>0 DEF SupervisorPauses, Pause, torrent
    <2> QED BY <2>0, <2>1, <2>2 DEF SupervisorPauses, Stilled, NoDial, rotation
  <1>7. CASE Rotation
    <2>1. DwellPasses
      BY <1>7, <1>a DEF Rotation, RotationLooks, Tick, TickSees, TickPauses, TickUnpauses
    <2> QED BY <2>1 DEF DwellPasses, Stilled, torrent, schedule
  <1>8. CASE UNCHANGED vars
    BY <1>8 DEF vars, torrent, rotation, schedule, Stilled
  <1> QED BY <1>1, <1>2, <1>3, <1>4, <1>5, <1>6, <1>7, <1>8 DEF Next, Supervisor

\* Quiet hours, once what was under way is through, wake no paused torrent and
\* let nothing begin that would (main.rs quiet supervisor and rotation task,
\* session.rs check_incoming_connection).
THEOREM QuietStays == Spec => StillnessLasts
  <1>1. Init => OpensFirst
    BY DEF Init, OpensFirst
  <1>2. Spec => []OpensFirst
    BY <1>1, StepOpensFirst, PTL DEF Spec
  <1> QED BY <1>2, StepStill, AlwaysConsistent, PTL DEF Spec, StillnessLasts

----------------------------------------------------------------------------
(* The window.                                                             *)

\* Whole turns round the session change nothing.
LEMMA WholeTurns ==
    ASSUME NEW n \in Nat \ {0}, NEW x \in Int, NEW y \in Int, NEW k \in Int, x = y + n * k
    PROVE  x % n = y % n
  <1> DEFINE q == x \div n  p == y \div n  r == x % n  s == y % n
  <1>1. q \in Int /\ p \in Int /\ x = (n * q) + r /\ y = (n * p) + s /\ r \in 0..(n - 1) /\ s \in 0..(n - 1)
    OBVIOUS
  <1> HIDE DEF q, p, r, s
  <1> DEFINE d == p + k - q
  <1>2. d \in Int /\ r - s = n * d
    BY <1>1
  <1> HIDE DEF d
  <1>3. -n < n * d /\ n * d < n
    BY <1>1, <1>2
  <1>4. d = 0
    BY <1>2, <1>3
  <1>5. r = s
    BY <1>1, <1>2, <1>4
  <1> QED BY <1>5 DEF r, s

\* The cursor is kept modulo a common multiple, which is as good as not at all.
LEMMA CursorFolds ==
    ASSUME NEW n \in Nat \ {0}, Cycle % n = 0, NEW x \in Int
    PROVE  (x % Cycle) % n = x % n
  <1> DEFINE q == x \div Cycle  r == x % Cycle  m == Cycle \div n
  <1>1. Cycle \in Nat \ {0}
    BY SeedingAssumption
  <1>2. q \in Int /\ r \in Int /\ x = (Cycle * q) + r
    BY <1>1
  <1>3. m \in Int /\ Cycle = n * m
    BY <1>1
  <1> HIDE DEF q, r, m
  <1>4. m * q \in Int /\ x = r + n * (m * q)
    BY <1>2, <1>3
  <1>5. x % n = r % n
    BY <1>2, <1>4, WholeTurns
  <1> QED BY <1>5 DEF r

\* How far on from the window's beginning a torrent is, round the session.
Place(t) == (t - 1 - cursor) % tick.of

LEMMA Near ==
    ASSUME NEW n \in Nat \ {0}, NEW d \in Int
    PROVE  /\ d % n \in 0..(n - 1)
           /\ 0 <= d /\ d < n => d % n = d
           /\ -n <= d /\ d < 0 => d % n = d + n
  OBVIOUS

Least(a, b) == IF a < b THEN a ELSE b

\* A pass that is under way goes over torrents of the session.
LEMMA PassRange ==
    ASSUME TypeOK, tick # Resting
    PROVE  /\ tick.of \in Nat \ {0} /\ 1..tick.of \subseteq Torrents /\ tick.of \in Torrents /\ tick.of <= total
           /\ tick.at \in 1..tick.of /\ cursor \in Nat /\ Window \in Nat
  <1>1. tick.at > 0 /\ tick.at \in Torrents /\ tick.at <= tick.of /\ tick.of \in 0..total /\ cursor \in 0..(Cycle - 1)
    BY TickIsAtTorrent DEF TypeOK, TasksOK
  <1>2. total \in Nat /\ 0..total \subseteq Torrents \cup {0} /\ Cycle \in Nat /\ Window \in Nat
    BY TotalIsNat, SeedingAssumption
  <1>3. tick.of \in Nat \ {0} /\ cursor \in Nat /\ tick.at \in 1..tick.of /\ tick.of <= total
    BY <1>1, <1>2 DEF Torrents
  <1>4. 1..tick.of \subseteq Torrents
    BY <1>2, <1>3
  <1> QED BY <1>2, <1>3, <1>4

\* Where the window of a pass begins, and whether it wraps.
LEMMA WindowBegins ==
    ASSUME NEW n \in Nat \ {0}, NEW c \in Nat
    PROVE  c % n \in 0..(n - 1) /\ c \div n \in Int /\ c = n * (c \div n) + (c % n)
  OBVIOUS

LEMMA WindowReads ==
    ASSUME tick.of \in Nat \ {0}, cursor \in Nat, Window \in Nat, NEW t \in Nat
    PROVE  InWindow(t) <=>
               \/ cursor % tick.of <= t - 1 /\ t - 1 < (cursor % tick.of) + Least(Window, tick.of)
               \/ t - 1 < (cursor % tick.of) + Least(Window, tick.of) - tick.of
  BY DEF InWindow, Least

\* in_window (seed.rs), with its end that may wrap, is being less than a
\* window's length on.
LEMMA InWindowIsNear ==
    ASSUME TypeOK, tick # Resting, NEW t \in 1..tick.of
    PROVE  InWindow(t) <=> Place(t) < Window
  <1> DEFINE n == tick.of  c == cursor  start == c % n  turns == c \div n
             size == Least(Window, n)  d == t - 1 - start
  <1>1. n \in Nat \ {0} /\ c \in Nat /\ t \in 1..n /\ t \in Nat /\ Window \in Nat
    BY PassRange
  <1>2. InWindow(t) <=> (start <= t - 1 /\ t - 1 < start + size) \/ t - 1 < start + size - n
    BY <1>1, WindowReads
  <1>3. Place(t) = (t - 1 - c) % n
    BY DEF Place
  <1>4. size = IF Window < n THEN Window ELSE n
    BY DEF Least
  <1> HIDE DEF n, c, size
  <1>5. start \in 0..(n - 1) /\ turns \in Int /\ c = n * turns + start
    BY <1>1, WindowBegins
  <1> HIDE DEF start, turns
  <1>6. d \in Int /\ -n <= d /\ d < n /\ t - 1 - c \in Int /\ -turns \in Int
    BY <1>1, <1>5
  <1>7. t - 1 - c = d + n * (-turns)
    BY <1>1, <1>5
  <1>8. Place(t) = d % n
    <2> HIDE DEF d
    <2> QED BY <1>1, <1>3, <1>6, <1>7, WholeTurns
  <1>9. (0 <= d => Place(t) = d) /\ (d < 0 => Place(t) = d + n)
    <2> HIDE DEF d
    <2> QED BY <1>1, <1>6, <1>8, Near
  <1> QED BY <1>1, <1>2, <1>4, <1>5, <1>6, <1>9

\* The window holds as many torrents as it should, wherever it begins.
LEMMA WindowSize ==
    ASSUME TypeOK, tick # Resting
    PROVE  /\ IsFiniteSet({t \in 1..tick.of : InWindow(t)})
           /\ Cardinality({t \in 1..tick.of : InWindow(t)}) = Least(Window, tick.of)
  <1> DEFINE n == tick.of  start == cursor % n  size == Least(Window, n)
             window == {t \in 1..n : InWindow(t)}
  <1>1. n \in Nat \ {0} /\ start \in 0..(n - 1) /\ Window \in Nat /\ cursor \in Nat
    BY PassRange, WindowBegins
  <1>2. size \in Nat /\ size <= n
    BY <1>1 DEF Least
  <1>3. \A t \in 1..n : InWindow(t) <=> (start <= t - 1 /\ t - 1 < start + size) \/ t - 1 < start + size - n
    BY <1>1, WindowReads
  <1> HIDE DEF n, start, size
  <1>4. window = {t \in 1..n : (start <= t - 1 /\ t - 1 < start + size) \/ t - 1 < start + size - n}
    BY <1>3
  <1> HIDE DEF window
  <1>5. CASE start + size <= n
    <2> DEFINE first == start + 1  last == start + size
    <2>1. window = first..last
      BY <1>1, <1>2, <1>4, <1>5
    <2>2. first \in Int /\ last \in Int
      BY <1>1, <1>2
    <2>3. (IF first > last THEN 0 ELSE last - first + 1) = size
      BY <1>1, <1>2
    <2> HIDE DEF first, last
    <2>4. IsFiniteSet(window) /\ Cardinality(window) = size
      BY <2>1, <2>2, <2>3, FS_Interval
    <2> QED BY <2>4 DEF window, n, size
  <1>6. CASE start + size > n
    <2> DEFINE first == start + 1  last == start + size - n  high == first..n  low == 1..last
    <2>1. window = high \cup low
      BY <1>1, <1>2, <1>4, <1>6
    <2>2. high \cap low = {}
      BY <1>1, <1>2
    <2>3. first \in Int /\ last \in Int /\ n \in Int /\ ~(first > n) /\ ~(1 > last)
      BY <1>1, <1>2, <1>6
    <2>4. (n - first + 1) + (last - 1 + 1) - 0 = size
      BY <1>1, <1>2
    <2> HIDE DEF first, last
    <2>5. IsFiniteSet(high) /\ Cardinality(high) = n - first + 1
      BY <2>3, FS_Interval
    <2>6. IsFiniteSet(low) /\ Cardinality(low) = last - 1 + 1
      BY <2>3, FS_Interval
    <2> HIDE DEF high, low
    <2>7. Cardinality({}) = 0
      BY FS_EmptySet
    <2>8. IsFiniteSet(window) /\ Cardinality(window) = Cardinality(high) + Cardinality(low) - Cardinality({})
      BY <2>1, <2>2, <2>5, <2>6, FS_Union
    <2>9. Cardinality(window) = size
      BY <2>4, <2>5, <2>6, <2>7, <2>8
    <2> QED BY <2>8, <2>9 DEF window, n, size
  <1>7. start + size \in Int /\ n \in Int
    BY <1>1, <1>2
  <1> QED BY <1>5, <1>6, <1>7

\* Wherever the cursor is, and however many torrents the session has by now, the
\* window of a pass is neither more nor fewer torrents than are to be live
\* (seed.rs in_window, where "the end may wrap past total").
THEOREM WindowHasItsSize ==
    Spec => [](tick # Resting =>
                   Cardinality({t \in 1..tick.of : InWindow(t)}) = Least(Window, tick.of))
  <1>1. TypeOK => (tick # Resting => Cardinality({t \in 1..tick.of : InWindow(t)}) = Least(Window, tick.of))
    BY WindowSize
  <1> QED BY <1>1, SeedingTyping, PTL

\* What a pass does to a torrent's place when it moves the window on.
LEMMA PlaceShifts ==
    ASSUME NEW n \in Nat \ {0}, Cycle % n = 0, NEW c \in Nat, NEW w \in Nat, NEW d \in Int,
           w <= (d - c) % n
    PROVE  (d - ((c + w) % Cycle)) % n = ((d - c) % n) - w
  <1> DEFINE m == Cycle \div n  q == (c + w) \div Cycle  p == (d - c) % n  turns == (d - c) \div n
             moved == (c + w) % Cycle
  <1>1. Cycle \in Nat \ {0}
    BY SeedingAssumption
  <1>2. m \in Int /\ Cycle = n * m
    BY <1>1
  <1>3. q \in Int /\ moved \in Int /\ c + w = (Cycle * q) + moved
    BY <1>1
  <1>4. turns \in Int /\ p \in 0..(n - 1) /\ d - c = (n * turns) + p /\ w <= p
    OBVIOUS
  <1> HIDE DEF m, q, p, turns, moved
  <1> DEFINE mq == m * q
  <1>5. mq \in Int /\ Cycle * q = n * mq
    BY <1>2, <1>3
  <1> HIDE DEF mq
  <1>6. d - moved = (p - w) + ((n * turns) + (n * mq))
    BY <1>3, <1>4, <1>5
  <1>7. (n * turns) + (n * mq) = n * (turns + mq) /\ turns + mq \in Int
    BY <1>4, <1>5
  <1>8. d - moved \in Int /\ p - w \in Int /\ 0 <= p - w /\ p - w < n
    BY <1>3, <1>4
  <1>9. (d - moved) % n = (p - w) % n
    <2>1. d - moved = (p - w) + n * (turns + mq)
      BY <1>6, <1>7
    <2> DEFINE x == d - moved  y == p - w  k == turns + mq
    <2>2. x \in Int /\ y \in Int /\ k \in Int /\ x = y + n * k
      BY <1>7, <1>8, <2>1
    <2> HIDE DEF x, y, k
    <2>3. x % n = y % n
      BY <2>2, WholeTurns
    <2> QED BY <2>3 DEF x, y
  <1>10. (p - w) % n = p - w
    BY <1>8, Near
  <1> QED BY <1>9, <1>10 DEF moved, p

\* What a step can do to the rotation's pass and to its window.
LEMMA TickMoves ==
    ASSUME TypeOK, [Next]_vars
    PROVE  \/ UNCHANGED <<tick, cursor>>
           \/ RotationLooks
           \/ TickSees /\ IdleOutside(tick.at) /\ tick' = [tick EXCEPT !.todo = "pause"] /\ cursor' = cursor
           \/ TickSees /\ PausedInside(tick.at) /\ tick' = [tick EXCEPT !.todo = "unpause"] /\ cursor' = cursor
           \/ /\ NextTorrent /\ tick # Resting
              /\ \/ TickSees /\ ~IdleOutside(tick.at) /\ ~PausedInside(tick.at)
                 \/ TickPauses
                 \/ TickUnpauses
  <1>1. CASE Register \/ Arrives
    BY <1>1 DEF Register, Arrives, Add, rotation
  <1>2. CASE \E t \in Torrents : (\E w \in Starters : Check(t, w)) \/ PeerComes(t) \/ PeerGoes(t)
    BY <1>2 DEF Check, CheckTakes, CheckPublishes, PeerComes, PeerGoes, rotation
  <1>3. CASE \E d \in Dialers : Dial(d)
    BY <1>3 DEF Dial, DialArrives, DialWakes, DialWaits, DialHands, rotation
  <1>4. CASE HoursTurn \/ Supervisor
    BY <1>4 DEF HoursTurn, Supervisor, SupervisorGates, SupervisorTells, SupervisorPauses, rotation
  <1>5. CASE TickSees
    <2>1. tick # Resting
      BY <1>5 DEF TickSees, Resting
    <2> QED BY <1>5, <2>1 DEF TickSees
  <1>6. CASE TickPauses \/ TickUnpauses
    BY <1>6 DEF TickPauses, TickUnpauses, Resting
  <1>7. CASE RotationLooks \/ DwellPasses \/ UNCHANGED vars
    BY <1>7 DEF DwellPasses, vars, rotation
  <1> QED BY <1>1, <1>2, <1>3, <1>4, <1>5, <1>6, <1>7 DEF Next, Rotation, Tick

\* Once the window moves on, every torrent that was not in it is nearer by a
\* window's length, so that none is passed over and each is reached in as many
\* passes as there are windows in the session (seed.rs rotate_tick: "every
\* torrent gets its turn"); this is what TurnsCome rests on.
TurnsDrawNear ==
    [][tick # Resting /\ tick' = Resting /\ tick.of >= Window
         => \A t \in 1..tick.of :
                ~InWindow(t) => (t - 1 - cursor') % tick.of = Place(t) - Window]_vars

THEOREM EachTurnIsNearer == Spec => TurnsDrawNear
  <1>1. ASSUME TypeOK, [Next]_vars, tick # Resting, tick' = Resting, tick.of >= Window,
               NEW t \in 1..tick.of, ~InWindow(t)
        PROVE  (t - 1 - cursor') % tick.of = Place(t) - Window
    <2>1. /\ tick.of \in Nat \ {0} /\ tick.of \in Torrents /\ Cycle % tick.of = 0
          /\ cursor \in Nat /\ Window \in Nat /\ t - 1 \in Int
      BY <1>1, PassRange, SeedingAssumption
    <2>2. tick \in [at : 0..total, of : 0..total, todo : {"look", "pause", "unpause"}]
          /\ tick.at # 0
      BY <1>1 DEF TypeOK, TasksOK
    <2>3. NextTorrent
      BY <1>1, <2>2, TickMoves DEF RotationLooks, Resting
    <2>4. cursor' = (cursor + Window) % Cycle
      <3>1. ~(tick.at < tick.of)
        <4> SUFFICES ASSUME tick.at < tick.of PROVE FALSE
          OBVIOUS
        <4>1. tick' = [tick EXCEPT !.at = @ + 1, !.todo = "look"]
          BY <2>3 DEF NextTorrent
        <4>2. tick'.of = tick.of
          BY <2>2, <4>1
        <4> QED BY <1>1, <2>1, <4>2 DEF Resting
      <3> QED BY <1>1, <2>3, <3>1 DEF NextTorrent
    <2>5. Window <= Place(t) /\ Place(t) = (t - 1 - cursor) % tick.of
      <3>1. Place(t) \in Int
        BY <2>1, Near DEF Place
      <3> QED BY <1>1, <2>1, <3>1, InWindowIsNear DEF Place
    <2> QED BY <2>1, <2>4, <2>5, PlaceShifts
  <1>2. TypeOK /\ [Next]_vars =>
            [tick # Resting /\ tick' = Resting /\ tick.of >= Window
               => \A t \in 1..tick.of :
                      ~InWindow(t) => (t - 1 - cursor') % tick.of = Place(t) - Window]_vars
    BY <1>1
  <1> QED BY <1>2, SeedingTyping, PTL DEF Spec, TurnsDrawNear
\* What the pass is about to do it decided by a window that has not moved, and
\* every torrent it goes over is one of the session.
Decided ==
    /\ tick.todo = "pause" => ~InWindow(tick.at)
    /\ tick.todo = "unpause" => InWindow(tick.at)
    /\ \A t \in 1..total : st[t] # "absent"

LEMMA SameWindow ==
    ASSUME tick'.of = tick.of, cursor' = cursor, NEW t
    PROVE  InWindow(t)' <=> InWindow(t)
  BY DEF InWindow

LEMMA SameAnswer ==
    ASSUME tick'.of = tick.of, tick'.at = tick.at, cursor' = cursor
    PROVE  InWindow(tick.at)' <=> InWindow(tick.at)
  BY DEF InWindow

\* A torrent never leaves the session, and only the quiet-hours supervisor and
\* the rotation take a live one down.
LEMMA StatesMove ==
    ASSUME TypeOK, Consistent, [Next]_vars, NEW t \in Torrents
    PROVE  /\ st[t] # "absent" => st'[t] # "absent"
           /\ st[t] = "live" /\ sup = {} /\ ~(TickPauses /\ t = tick.at) => st'[t] = "live"
           /\ t = total + 1 /\ total' # total => st'[t] # "absent"
  <1>1. CASE Register \/ Arrives
    <2>1. /\ total \in Nat /\ total + 1 \in Torrents /\ total + 1 > total
          /\ st' = [st EXCEPT ![total + 1] = "checking"]
      BY <1>1, SessionHasRoom, TotalIsNat DEF Register, Arrives, Add
    <2>2. st[total + 1] = "absent"
      BY <2>1 DEF Consistent, Unstarted
    <2>3. st'[total + 1] = "checking" /\ \A u \in Torrents : u # total + 1 => st'[u] = st[u]
      BY <2>1 DEF TypeOK, TorrentsOK
    <2> QED BY <2>2, <2>3
  <1>2. CASE \E u \in Torrents : \E w \in Starters : Check(u, w)
    BY <1>2 DEF Check, CheckTakes, CheckPublishes, library, TypeOK, TorrentsOK
  <1>3. CASE \E u \in Torrents : PeerComes(u) \/ PeerGoes(u)
    BY <1>3 DEF PeerComes, PeerGoes, library
  <1>4. CASE \E d \in Dialers : Dial(d)
    BY <1>4 DEF Dial, DialArrives, DialWakes, DialWaits, DialHands, Start, torrent, library, TypeOK, TorrentsOK
  <1>5. CASE \E u \in Torrents : SupervisorPauses(u)
    BY <1>5 DEF SupervisorPauses, Pause, torrent, library, TypeOK, TorrentsOK
  <1>6. CASE TickPauses
    <2>1. \A u \in Torrents : u # tick.at => st'[u] = st[u]
      BY <1>6 DEF TickPauses, Pause, torrent, TypeOK, TorrentsOK
    <2>2. st[t] # "absent" => st'[t] # "absent"
      BY <1>6 DEF TickPauses, Pause, torrent, TypeOK, TorrentsOK
    <2> QED BY <1>6, <2>1, <2>2 DEF TickPauses, library
  <1>7. CASE TickUnpauses
    BY <1>7 DEF TickUnpauses, Start, library, TypeOK, TorrentsOK
  <1>8. CASE \/ HoursTurn \/ SupervisorGates \/ SupervisorTells
             \/ RotationLooks \/ TickSees \/ DwellPasses \/ UNCHANGED vars
    BY <1>8 DEF HoursTurn, SupervisorGates, SupervisorTells, RotationLooks, TickSees, DwellPasses, vars, torrent, library
  <1> QED BY <1>1, <1>2, <1>3, <1>4, <1>5, <1>6, <1>7, <1>8 DEF Next, Supervisor, Rotation, Tick

LEMMA StepDecided ==
    ASSUME TypeOK, Consistent, Decided, [Next]_vars
    PROVE  Decided'
  <1> DEFINE Pass == [at : 0..total, of : 0..total, todo : {"look", "pause", "unpause"}]
  <1>0. tick \in Pass
    BY DEF TypeOK, TasksOK
  <1>1. \A t \in 1..total' : st'[t] # "absent"
    <2> SUFFICES ASSUME NEW t \in 1..total' PROVE st'[t] # "absent"
      OBVIOUS
    <2>1. total' = total \/ total' = total + 1
      BY DEF Next, Register, Arrives, Add, Check, CheckTakes, CheckPublishes, PeerComes, PeerGoes, Dial,
         DialArrives, DialWakes, DialWaits, DialHands, HoursTurn, Supervisor, SupervisorGates, SupervisorTells,
         SupervisorPauses,
         Rotation, RotationLooks, Tick, TickSees, TickPauses, TickUnpauses, DwellPasses, vars, library
    <2>2. total \in Nat /\ t \in Torrents /\ t \in Nat
      <3>1. total \in Nat /\ total' \in Nat /\ total' <= Held + Fresh
        BY StepTyped, SeedingAssumption DEF TypeOK, LibraryOK
      <3> QED BY <3>1, SeedingAssumption DEF Torrents
    <2>3. t \in 1..total \/ (t = total + 1 /\ total' # total)
      BY <2>1, <2>2
    <2> QED BY <2>2, <2>3, StatesMove DEF Decided
  <1>2. /\ tick'.todo = "pause" => ~InWindow(tick.at)'
        /\ tick'.todo = "unpause" => InWindow(tick.at)'
    <2>1. CASE UNCHANGED <<tick, cursor>>
      BY <2>1, SameAnswer DEF Decided
    <2>2. CASE RotationLooks
      BY <2>2 DEF RotationLooks
    <2>3. CASE IdleOutside(tick.at) /\ tick' = [tick EXCEPT !.todo = "pause"] /\ cursor' = cursor
      <3>1. tick'.of = tick.of /\ tick'.at = tick.at /\ tick'.todo = "pause"
        BY <1>0, <2>3
      <3> QED BY <2>3, <3>1, SameAnswer DEF IdleOutside
    <2>4. CASE PausedInside(tick.at) /\ tick' = [tick EXCEPT !.todo = "unpause"] /\ cursor' = cursor
      <3>1. tick'.of = tick.of /\ tick'.at = tick.at /\ tick'.todo = "unpause"
        BY <1>0, <2>4
      <3> QED BY <2>4, <3>1, SameAnswer DEF PausedInside
    <2>5. CASE NextTorrent
      BY <2>5, NextTorrentLooks
    <2> QED BY <2>1, <2>2, <2>3, <2>4, <2>5, TickMoves
  <1> QED BY <1>1, <1>2 DEF Decided

LEMMA AlwaysDecided == Spec => [](TypeOK /\ Consistent /\ Decided)
  <1>1. Init => Decided
    BY DEF Init, Decided, Resting
  <1>2. TypeOK /\ Consistent /\ Decided /\ [Next]_vars => Decided'
    BY StepDecided
  <1> QED BY <1>1, <1>2, AlwaysConsistent, PTL DEF Spec

Checked == \A t \in 1..tick.of : st[t] # "checking"
Filled  == \A t \in 1..(tick.at - 1) : InWindow(t) => st[t] = "live"

\* What the step does to a pass: it goes on filled, or it has ended and the whole
\* of its window is live.
FillsOn ==
    IF tick' = Resting
    THEN tick # Resting =>
             /\ \A t \in 1..tick.of : InWindow(t) => st'[t] = "live"
             /\ Cardinality({t \in Torrents : st'[t] = "live"}) >= Least(Window, tick.of)
    ELSE Filled'

LEMMA TorrentDone ==
    ASSUME TypeOK, tick # Resting, NextTorrent,
           \A t \in 1..tick.at : InWindow(t) => st'[t] = "live"
    PROVE  FillsOn
  <1> DEFINE Pass == [at : 0..total, of : 0..total, todo : {"look", "pause", "unpause"}]
  <1>0. tick \in Pass
    BY DEF TypeOK, TasksOK
  <1>1. /\ tick.of \in Nat \ {0} /\ 1..tick.of \subseteq Torrents
        /\ tick.at \in 1..tick.of /\ tick.at \in Nat /\ Window \in Nat
    BY PassRange
  <1>2. CASE tick.at < tick.of
    <2>1. tick' = [tick EXCEPT !.at = @ + 1, !.todo = "look"] /\ cursor' = cursor
      BY <1>2 DEF NextTorrent
    <2>2. tick'.at = tick.at + 1 /\ tick'.of = tick.of
      BY <1>0, <2>1
    <2>3. tick' # Resting /\ 1..(tick'.at - 1) = 1..tick.at
      BY <1>1, <2>2 DEF Resting
    <2>4. Filled'
      BY <2>2, <2>1, <2>3, SameWindow DEF Filled
    <2> QED BY <2>3, <2>4 DEF FillsOn
  <1>3. CASE ~(tick.at < tick.of)
    <2> DEFINE window == {t \in 1..tick.of : InWindow(t)}  live == {t \in Torrents : st'[t] = "live"}
    <2>1. tick' = Resting
      BY <1>3 DEF NextTorrent
    <2>2. 1..tick.at = 1..tick.of
      BY <1>1, <1>3
    <2>3. \A t \in 1..tick.of : InWindow(t) => st'[t] = "live"
      BY <2>2
    <2>4. window \subseteq live
      BY <1>1, <2>3
    <2>5. IsFiniteSet(live)
      <3>1. IsFiniteSet(Torrents)
        <4>1. 1 \in Int /\ Held + Fresh \in Int
          BY SeedingAssumption
        <4> QED BY <4>1, FS_Interval DEF Torrents
      <3> QED BY <3>1, FS_Subset
    <2>6. Cardinality(window) <= Cardinality(live) /\ Cardinality(window) = Least(Window, tick.of)
      <3> HIDE DEF live
      <3>1. Cardinality(window) <= Cardinality(live)
        <4> HIDE DEF window
        <4> QED BY <2>4, <2>5, FS_Subset
      <3> QED BY <3>1, WindowSize
    <2>7. Cardinality(live) \in Nat /\ Cardinality(window) \in Nat
      BY <2>4, <2>5, FS_Subset, FS_CardinalityType
    <2>8. Cardinality(live) >= Least(Window, tick.of)
      <3> HIDE DEF live, window
      <3> QED BY <2>6, <2>7
    <2> QED BY <2>1, <2>3, <2>8 DEF FillsOn
  <1> QED BY <1>2, <1>3

\* A pass that no quiet hours cut short, over torrents whose hash checks are
\* through, wakes its whole window and keeps it awake to its end, whoever is
\* dialled, added or leaves meanwhile: then at least the window's number of
\* torrents is live (seed.rs rotate_tick).
WindowFills == [][sup = {} /\ Checked /\ Filled => FillsOn]_vars

THEOREM PassFillsWindow == Spec => WindowFills
  <1>1. ASSUME TypeOK, Consistent, Decided, [Next]_vars, sup = {}, Checked, Filled
        PROVE  FillsOn
    <2> DEFINE Pass == [at : 0..total, of : 0..total, todo : {"look", "pause", "unpause"}]
    <2>0. tick \in Pass
      BY <1>1 DEF TypeOK, TasksOK
    <2>1. CASE tick = Resting /\ (UNCHANGED <<tick, cursor>> \/ RotationLooks)
      <3>1. CASE tick' = Resting
        BY <2>1, <3>1 DEF FillsOn
      <3>2. CASE tick' # Resting
        <4>1. tick'.at = 1
          BY <2>1, <3>2 DEF RotationLooks
        <4>2. 1..(tick'.at - 1) = {}
          BY <4>1
        <4> QED BY <3>2, <4>2 DEF FillsOn, Filled
      <3> QED BY <3>1, <3>2
    <2> SUFFICES ASSUME tick # Resting PROVE FillsOn
      BY <1>1, <2>1, TickMoves DEF TickSees, Resting
    <2>2. /\ tick.of \in Nat \ {0} /\ 1..tick.of \subseteq Torrents /\ tick.of <= total /\ total \in Nat
          /\ tick.at \in 1..tick.of /\ tick.at \in Nat
      BY <1>1, PassRange, TotalIsNat
    <2>3. \A t \in 1..(tick.at - 1) : t \in Torrents /\ t # tick.at
      BY <2>2
    <2>5. \A t \in 1..(tick.at - 1) : InWindow(t) => st'[t] = "live"
      BY <1>1, <2>3, StatesMove DEF Filled
    <2>6. \A t \in 1..tick.at : t = tick.at \/ t \in 1..(tick.at - 1)
      BY <2>2
    <2>7. CASE UNCHANGED <<tick, cursor>>
      BY <2>5, <2>7, SameWindow DEF FillsOn, Filled
    <2>8. CASE \E todo \in {"pause", "unpause"} : tick' = [tick EXCEPT !.todo = todo] /\ cursor' = cursor
      <3>1. tick'.at = tick.at /\ tick'.of = tick.of
        BY <2>0, <2>8
      <3>2. tick' # Resting
        BY <2>2, <3>1 DEF Resting
      <3> QED BY <2>5, <2>8, <3>1, <3>2, SameWindow DEF FillsOn, Filled
    <2>9. CASE NextTorrent /\ TickSees /\ ~IdleOutside(tick.at) /\ ~PausedInside(tick.at)
      <3>1. InWindow(tick.at) => st[tick.at] = "live"
        <4>1. st[tick.at] \in States /\ st[tick.at] # "checking" /\ st[tick.at] # "absent"
          <5>1. tick.at \in 1..total /\ tick.at \in Torrents
            BY <2>2
          <5> QED BY <1>1, <2>2, <5>1 DEF Checked, Decided, TypeOK, TorrentsOK
        <4> QED BY <2>9, <4>1 DEF PausedInside, States
      <3>2. st' = st
        BY <2>9 DEF TickSees, torrent
      <3>3. \A t \in 1..tick.at : InWindow(t) => st'[t] = "live"
        BY <2>5, <2>6, <3>1, <3>2
      <3> QED BY <1>1, <2>9, <3>3, TorrentDone
    <2>10. CASE NextTorrent /\ TickPauses
      <3>1. ~InWindow(tick.at)
        BY <1>1, <2>10 DEF TickPauses, Decided
      <3>2. \A t \in 1..tick.at : InWindow(t) => st'[t] = "live"
        BY <2>5, <2>6, <3>1
      <3> QED BY <1>1, <2>10, <3>2, TorrentDone
    <2>11. CASE NextTorrent /\ TickUnpauses
      <3>1. st'[tick.at] = "live"
        BY <1>1, <2>2, <2>11 DEF TickUnpauses, Start, Consistent, TypeOK, TorrentsOK
      <3>2. \A t \in 1..tick.at : InWindow(t) => st'[t] = "live"
        BY <2>5, <2>6, <3>1
      <3> QED BY <1>1, <2>11, <3>2, TorrentDone
    <2> QED BY <1>1, <2>7, <2>8, <2>9, <2>10, <2>11, TickMoves DEF RotationLooks
  <1>2. TypeOK /\ Consistent /\ Decided /\ [Next]_vars => [sup = {} /\ Checked /\ Filled => FillsOn]_vars
    BY <1>1
  <1> QED BY <1>2, AlwaysDecided, PTL DEF Spec, WindowFills
=============================================================================
