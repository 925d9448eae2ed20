--------------------------- MODULE HeartbeatProofs ---------------------------
(***************************************************************************)
(* Proofs about Heartbeat: types; that the node never goes by a content    *)
(* source it does not know, nor drops the one it has; that a test that was *)
(* asked for is not forgotten; and the safety half of what the console is  *)
(* to show in the end: once it is right, nothing still under way makes it  *)
(* wrong again.                                                            *)
(***************************************************************************)
EXTENDS Heartbeat, FiniteSetTheorems, TLAPS

LEMMA InitTyped == Init => TypeOK
  <1> SUFFICES ASSUME Init PROVE TypeOK
    OBVIOUS
  <1>1. request \in Requests /\ reply \in Replies /\ report \in Reports /\ live \in Windows
    BY HeartbeatAssumption DEF Init, NoRequest, Requests, Types, Reports, NoReport, NoReply, Replies
  <1>2. /\ pc = "probe" /\ mode = "" /\ request = NoRequest /\ reply = NoReply
        /\ grant \in BOOLEAN /\ online \in BOOLEAN
    BY DEF Init
  <1>3. forced \in BOOLEAN /\ testNow \in BOOLEAN /\ granted \in BOOLEAN /\ flag \in BOOLEAN
    BY DEF Init
  <1>4. late \subseteq Requests /\ Cardinality(late) <= MaxLate
    <2>1. late = {}
      BY DEF Init
    <2>2. Cardinality(late) = 0
      BY <2>1, FS_EmptySet
    <2>3. MaxLate \in Nat
      BY HeartbeatAssumption
    <2> QED BY <2>1, <2>2, <2>3
  <1>5. wish \in Modes \cup NewModes /\ shown \in Types /\ rows \subseteq Torrents
    BY DEF Init, Types
  <1> QED BY <1>1, <1>2, <1>3, <1>4, <1>5 DEF TypeOK, BeatOK, ConsoleOK

\* The requests still under way are a few; one more is let out only below the
\* bound, and one that arrives is gone.
Few == IsFiniteSet(late) /\ TypeOK

LEMMA LateTyped ==
    ASSUME Few, [Next]_vars
    PROVE  IsFiniteSet(late)' /\ late' \subseteq Requests /\ Cardinality(late)' <= MaxLate
  <1>0. /\ IsFiniteSet(late) /\ late \subseteq Requests /\ Cardinality(late) <= MaxLate
        /\ request \in Requests /\ MaxLate \in Nat /\ Cardinality(late) \in Nat
    BY HeartbeatAssumption, FS_CardinalityType DEF Few, TypeOK, BeatOK
  <1>1. CASE LeftUnderWay
    <2>1. late' = late \cup {request} /\ Cardinality(late) < MaxLate
      BY <1>1 DEF LeftUnderWay
    <2>3. /\ IsFiniteSet(late \cup {request})
          /\ Cardinality(late \cup {request}) \in {Cardinality(late), Cardinality(late) + 1}
      <3>1. IsFiniteSet(late)
        BY <1>0
      <3> QED BY <3>1, FS_AddElement
    <2>4. late' \subseteq Requests
      BY <1>0, <2>1
    <2> QED BY <1>0, <2>1, <2>3, <2>4
  <1>2. ASSUME NEW r \in late, late' = late \ {r}
        PROVE  IsFiniteSet(late)' /\ late' \subseteq Requests /\ Cardinality(late)' <= MaxLate
    <2>1. IsFiniteSet(late \ {r}) /\ Cardinality(late \ {r}) = Cardinality(late) - 1
      <3>1. IsFiniteSet(late)
        BY <1>0
      <3> QED BY <3>1, <1>2, FS_RemoveElement
    <2> QED BY <1>0, <1>2, <2>1
  <1>3. CASE late' = late
    BY <1>0, <1>3
  <1>4. LeftUnderWay \/ (\E r \in late : late' = late \ {r}) \/ late' = late
    BY DEF Next, Beat, vars, ProbeStarts, ProbeEnds, AsksGrant, Sends, Reaches, GivesUp, ReplyLost,
           Applies, IntervalPasses, FlagSeen, Prepares, SessionTurns, LateArrives, NetworkTurns,
           AdminDecides, TestAsked, Crash, Start
  <1> QED BY <1>1, <1>2, <1>3, <1>4

LEMMA BeatTyped == TypeOK /\ [Next]_vars => BeatOK'
  <1> SUFFICES ASSUME TypeOK, [Next]_vars PROVE BeatOK'
    OBVIOUS
  <1> USE DEF TypeOK, BeatOK
  <1>1. CASE ProbeStarts
    BY <1>1 DEF ProbeStarts
  <1>2. CASE ProbeEnds
    BY <1>2 DEF ProbeEnds
  <1>3. CASE AsksGrant
    BY <1>3 DEF AsksGrant, ConsoleOK
  <1>4. CASE Sends
    <2>1. request' \in Requests
      BY <1>4 DEF Sends, Requests, Types
    <2> QED BY <1>4, <2>1 DEF Sends
  <1>0. NoRequest \in Requests /\ NoReply \in Replies
    BY DEF NoRequest, NoReply, Requests, Types, Reports, NoReport, Replies
  <1>5. CASE Reaches
    BY <1>0, <1>5 DEF Reaches, ConsoleOK, Replies
  <1>6. CASE GivesUp \/ ReplyLost
    BY <1>0, <1>6 DEF GivesUp, ReplyLost
  <1>7. CASE Applies
    <2>1. mode' \in {""} \cup Modes
      BY <1>7 DEF Applies, normalise_source_mode
    <2> QED BY <1>0, <1>7, <2>1 DEF Applies
  <1>8. CASE IntervalPasses \/ FlagSeen
    BY <1>8 DEF IntervalPasses, FlagSeen
  <1>9. CASE Crash
    BY <1>0, <1>9 DEF Crash
  <1>10. CASE Start
    BY <1>10 DEF Start, up
  <1>11. CASE UNCHANGED beat
    BY <1>11 DEF beat
  <1>12. CASE Beat
    BY <1>1, <1>2, <1>3, <1>4, <1>5, <1>6, <1>7, <1>8, <1>12 DEF Beat
  <1>13. ASSUME ~Beat, ~Crash, ~Start PROVE UNCHANGED beat
    BY <1>13 DEF Next, vars, Prepares, SessionTurns, LateArrives, NetworkTurns, AdminDecides, TestAsked
  <1> QED BY <1>9, <1>10, <1>11, <1>12, <1>13

LEMMA ConsoleTyped == TypeOK /\ [Next]_vars => ConsoleOK'
  <1> SUFFICES ASSUME TypeOK, [Next]_vars PROVE ConsoleOK'
    OBVIOUS
  <1> USE DEF TypeOK, ConsoleOK
  <1>1. ASSUME NEW r \in Requests, Takes(r) PROVE shown' \in Types /\ rows' \subseteq Torrents
    <2>1. r.report.is => r.report.list \subseteq Torrents
      BY DEF Requests, Reports, Report, NoReport
    <2> QED BY <1>1, <2>1 DEF Takes, Requests
  <1>2. CASE Reaches
    BY <1>1, <1>2 DEF Reaches, BeatOK
  <1>3. ASSUME NEW r \in late, LateArrives(r) PROVE ConsoleOK'
    BY <1>1, <1>3 DEF LateArrives
  <1>4. CASE AdminDecides
    BY <1>4 DEF AdminDecides
  <1>5. CASE UNCHANGED console
    BY <1>5 DEF console
  <1> QED BY <1>2, <1>3, <1>4, <1>5
          DEF Next, Beat, vars, console, ProbeStarts, ProbeEnds, AsksGrant, Sends, GivesUp, ReplyLost,
              Applies, IntervalPasses, FlagSeen, Prepares, SessionTurns, NetworkTurns, TestAsked, Crash, Start

LEMMA RestTyped ==
    ASSUME TypeOK, [Next]_vars
    PROVE  /\ report' \in Reports /\ live' \in Windows
           /\ online' \in BOOLEAN /\ flag' \in BOOLEAN
  <1>1. report' \in Reports /\ live' \in Windows
    <2>1. \/ UNCHANGED sharing
          \/ report' \in {NoReport, report} /\ live' \in Windows
          \/ report' \in {Report(K) : K \in live_torrents(live)} /\ live' = live
      BY HeartbeatAssumption DEF TypeOK, Next, Beat, vars, sharing, ProbeStarts, ProbeEnds, AsksGrant, Sends, Reaches, GivesUp,
             ReplyLost, Applies, IntervalPasses, FlagSeen, Prepares, SessionTurns, LateArrives,
             NetworkTurns, AdminDecides, TestAsked, Crash, Start
    <2>2. live_torrents(live) \subseteq SUBSET Torrents
      BY HeartbeatAssumption DEF TypeOK, live_torrents
    <2> QED BY <2>1, <2>2 DEF TypeOK, sharing, Reports
  <1>2. online' \in BOOLEAN /\ flag' \in BOOLEAN
    BY DEF TypeOK, Next, Beat, vars, ProbeStarts, ProbeEnds, AsksGrant, Sends, Reaches, GivesUp,
           ReplyLost, Applies, IntervalPasses, FlagSeen, Prepares, SessionTurns, LateArrives,
           NetworkTurns, AdminDecides, TestAsked, Crash, Start
  <1> QED BY <1>1, <1>2

LEMMA FewStep == Few /\ [Next]_vars => Few'
  <1> SUFFICES ASSUME Few, [Next]_vars PROVE Few'
    OBVIOUS
  <1>1. TypeOK
    BY DEF Few
  <1> QED BY <1>1, LateTyped, BeatTyped, ConsoleTyped, RestTyped DEF Few, TypeOK

\* The types of the state hold throughout: a request is out only while the beat
\* waits for it, a reply only until it is taken, and the content source in force
\* is one this version knows, whatever the console sends (heartbeat.rs
\* normalise_source_mode).
THEOREM HeartbeatTyping == Spec => []TypeOK
  <1>1. Init => Few
    BY InitTyped, FS_EmptySet DEF Init, Few
  <1>2. Few => TypeOK
    BY DEF Few
  <1> QED BY <1>1, <1>2, FewStep, PTL DEF Spec

----------------------------------------------------------------------------
(* What is kept.                                                           *)

\* A content source, once in force, gives way only to another this version
\* knows (main.rs, the heartbeat task), until the node goes down.
THEOREM SourceStays == Spec => SourceKept
  <1>1. ASSUME [Next]_vars PROVE [mode # "" /\ pc' # "off" => mode' # ""]_vars
    BY <1>1 DEF Next, Beat, vars, beat, ProbeStarts, ProbeEnds, AsksGrant, Sends, Reaches, GivesUp, ReplyLost,
           Applies, IntervalPasses, FlagSeen, Prepares, SessionTurns, LateArrives, NetworkTurns,
           AdminDecides, TestAsked, Crash, Start
  <1> QED BY <1>1, PTL DEF Spec, SourceKept

\* Where a test that was asked for is: in the file, noticed, or being made.
TestInHand == flag \/ testNow \/ (pc = "probing" /\ forced)

\* A test that was asked for is not forgotten before the probe that makes it has
\* ended, whatever the beat is doing when the file appears (main.rs, the
\* sleep of the heartbeat task), and the file outlives a node that goes down.
THEOREM TestIsKept ==
    Spec => [][TestInHand => \/ TestInHand'
                             \/ pc = "probing" /\ forced /\ pc' = "ask"
                             \/ ~flag /\ pc' = "off"]_vars
  <1>1. ASSUME TypeOK, [Next]_vars, TestInHand
        PROVE  \/ TestInHand'
               \/ pc = "probing" /\ forced /\ pc' = "ask"
               \/ ~flag /\ pc' = "off"
    <2> USE DEF TestInHand
    <2>0. forced \in BOOLEAN /\ testNow \in BOOLEAN /\ flag \in BOOLEAN
      BY <1>1 DEF TypeOK, BeatOK
    <2>1. CASE ProbeStarts
      BY <1>1, <2>0, <2>1 DEF ProbeStarts
    <2>2. CASE ProbeEnds
      BY <1>1, <2>2 DEF ProbeEnds
    <2>3. CASE AsksGrant \/ Sends \/ Reaches \/ GivesUp \/ ReplyLost \/ Applies \/ IntervalPasses
      BY <1>1, <2>3 DEF AsksGrant, Sends, Reaches, GivesUp, ReplyLost, Applies, IntervalPasses
    <2>4. CASE FlagSeen \/ TestAsked
      BY <1>1, <2>4 DEF FlagSeen, TestAsked
    <2>5. CASE Crash \/ Start
      BY <1>1, <2>5 DEF Crash, Start, up
    <2>6. CASE UNCHANGED <<beat, flag>>
      BY <1>1, <2>6 DEF beat
    <2> QED BY <1>1, <2>1, <2>2, <2>3, <2>4, <2>5, <2>6
            DEF Next, Beat, vars, Prepares, SessionTurns, LateArrives, NetworkTurns, AdminDecides
  <1> QED BY <1>1, HeartbeatTyping, PTL DEF Spec

----------------------------------------------------------------------------
(* What the console shows, once it is right.                               *)

Due == IF grant THEN "seed" ELSE "user"

\* Neither the console, nor any request that may still reach it, nor the answer
\* the next one goes by, says other than the admin did.
ShownRight ==
    /\ shown = Due
    /\ \A r \in late : r.type = Due
    /\ pc = "sent" => request.type = Due
    /\ pc = "send" => granted = grant

\* With the network there and the admin of the same mind, what is right stays
\* right, whatever else is sent, given up on or interrupted (heartbeat.rs
\* check_seed_access, beat): the half of GrantFollows that is
\* about no request's being late for long.
THEOREM ShownStaysRight ==
    Spec => [][ShownRight /\ online /\ grant' = grant => ShownRight']_vars
  <1>1. ASSUME TypeOK, [Next]_vars, ShownRight, online, grant' = grant PROVE ShownRight'
    <2> USE DEF ShownRight, Due
    <2>0. grant \in BOOLEAN /\ granted \in BOOLEAN
      BY <1>1 DEF TypeOK, BeatOK, ConsoleOK
    <2>1. CASE ProbeStarts \/ ProbeEnds \/ IntervalPasses \/ FlagSeen \/ Applies
      BY <1>1, <2>1 DEF ProbeStarts, ProbeEnds, IntervalPasses, FlagSeen, Applies, console
    <2>2. CASE AsksGrant
      BY <1>1, <2>0, <2>2 DEF AsksGrant, console
    <2>3. CASE Sends
      BY <1>1, <2>0, <2>3 DEF Sends, console
    <2>4. CASE Reaches
      BY <1>1, <2>4 DEF Reaches, Takes
    <2>5. CASE GivesUp \/ ReplyLost
      BY <1>1, <2>5 DEF GivesUp, ReplyLost
    <2>6. CASE Prepares \/ SessionTurns \/ NetworkTurns \/ TestAsked
      BY <1>1, <2>6 DEF Prepares, SessionTurns, NetworkTurns, TestAsked, console, beat
    <2>7. ASSUME NEW r \in late, LateArrives(r) PROVE ShownRight'
      BY <1>1, <2>7 DEF LateArrives, Takes, beat
    <2>8. CASE AdminDecides
      BY <1>1, <2>8 DEF AdminDecides, beat
    <2>9. CASE Crash
      <3>1. \A r \in late' : r \in late \/ (pc = "sent" /\ r = request)
        BY <2>9 DEF Crash, LeftUnderWay
      <3>2. \A r \in late' : r.type = Due
        BY <1>1, <3>1
      <3>3. shown' = shown /\ grant' = grant /\ pc' = "off"
        BY <2>9 DEF Crash, console
      <3> HIDE DEF Due
      <3>4. Due' = Due
        BY <3>3 DEF Due
      <3> QED BY <1>1, <3>2, <3>3, <3>4
    <2>10. CASE Start
      BY <1>1, <2>10 DEF Start, console
    <2>11. CASE UNCHANGED vars
      BY <1>1, <2>11 DEF vars, console, beat
    <2> QED BY <1>1, <2>1, <2>2, <2>3, <2>4, <2>5, <2>6, <2>7, <2>8, <2>9, <2>10, <2>11 DEF Next, Beat
  <1> QED BY <1>1, HeartbeatTyping, PTL DEF Spec

\* A report that lists what is live: all of it, or as much as fits.
Truthful == {Report(K) : K \in live_torrents(live)}

\* No report that waits, is out or is late, lists anything else.
ListedRight ==
    /\ rows \in live_torrents(live)
    /\ report \in {NoReport} \cup Truthful
    /\ pc = "sent" => request.report \in {NoReport} \cup Truthful
    /\ \A r \in late : r.report \in {NoReport} \cup Truthful

\* What the console says is shared, once it is what is shared, stays so until
\* that changes (main.rs, the stats poller; seed.rs live_torrents; heartbeat.rs
\* beat): a beat without a report, one given up on and one that arrives late
\* leave it as it is, and a report too small for all that is live, in whatever
\* order it lists them, puts in nothing that is not and leaves no room empty.
THEOREM ListStaysRight ==
    Spec => [][ListedRight /\ live' = live => ListedRight']_vars
  <1>1. ASSUME [Next]_vars, ListedRight, live' = live PROVE ListedRight'
    <2> USE DEF ListedRight
    <2>0. ASSUME NEW r, r.report \in {NoReport} \cup Truthful, Takes(r)
          PROVE  rows' \in live_torrents(live)
      BY <1>1, <2>0 DEF Takes, NoReport, Report, Truthful
    <2>00. live_torrents(live)' = live_torrents(live) /\ Truthful' = Truthful
      BY <1>1 DEF live_torrents, Truthful
    <2>1. CASE ProbeStarts \/ ProbeEnds \/ AsksGrant \/ IntervalPasses \/ FlagSeen \/ Applies \/ ReplyLost
      BY <1>1, <2>00, <2>1 DEF ProbeStarts, ProbeEnds, AsksGrant, IntervalPasses, FlagSeen, Applies, ReplyLost,
                        console, sharing
    <2>3. CASE Sends
      BY <1>1, <2>00, <2>3 DEF Sends, console
    <2>4. CASE Reaches
      BY <1>1, <2>00, <2>0, <2>4 DEF Reaches, sharing
    <2>5. CASE GivesUp
      BY <1>1, <2>00, <2>5 DEF GivesUp, LeftUnderWay, console, sharing
    <2>6. CASE Prepares \/ SessionTurns \/ NetworkTurns \/ TestAsked \/ AdminDecides
      BY <1>1, <2>00, <2>6 DEF Truthful, Prepares, SessionTurns, NetworkTurns, TestAsked, AdminDecides, console, beat, sharing
    <2>7. ASSUME NEW r \in late, LateArrives(r) PROVE ListedRight'
      BY <1>1, <2>00, <2>0, <2>7 DEF LateArrives, beat, sharing
    <2>9. CASE Crash
      BY <1>1, <2>00, <2>9 DEF Crash, LeftUnderWay, console
    <2>10. CASE Start
      BY <1>1, <2>00, <2>10 DEF Start, console
    <2>11. CASE UNCHANGED vars
      BY <1>1, <2>00, <2>11 DEF vars, console, beat, sharing
    <2> QED BY <1>1, <2>1, <2>3, <2>4, <2>5, <2>6, <2>7, <2>9, <2>10, <2>11 DEF Next, Beat
  <1> QED BY <1>1, PTL DEF Spec

\* The source in force is the one wished for, and so is what is on its way back.
SourceRight ==
    /\ wish \in Modes /\ mode = wish
    /\ pc = "replied" => reply = wish

\* The console's choice of source, once in force, stays so until it changes or
\* the node goes down (main.rs, the heartbeat task).
THEOREM SourceStaysRight ==
    Spec => [][SourceRight /\ wish' = wish /\ pc' # "off" => SourceRight']_vars
  <1>1. ASSUME [Next]_vars, SourceRight, wish' = wish, pc' # "off" PROVE SourceRight'
    <2> USE DEF SourceRight
    <2>1. CASE Reaches
      BY <1>1, <2>1 DEF Reaches
    <2>2. CASE Applies
      BY <1>1, <2>2 DEF Applies, normalise_source_mode
    <2>3. CASE UNCHANGED <<pc, mode, reply>> \/ (mode' = mode /\ pc' # "replied")
      BY <1>1, <2>3
    <2> QED BY <1>1, <2>1, <2>2, <2>3
            DEF Next, Beat, vars, beat, ProbeStarts, ProbeEnds, AsksGrant, Sends, GivesUp, ReplyLost,
                IntervalPasses, FlagSeen, Prepares, SessionTurns, LateArrives, NetworkTurns,
                AdminDecides, TestAsked, Crash, Start
  <1> QED BY <1>1, PTL DEF Spec
=============================================================================
