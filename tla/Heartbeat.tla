------------------------------ MODULE Heartbeat ------------------------------
(***************************************************************************)
(* The node and the console.  Every few minutes the node has its port      *)
(* probed, asks whether it is an approved seed, and sends a beat; the      *)
(* reply carries the console's settings.                                   *)
(* Another task prepares, hourly, what the node shares, and leaves it for  *)
(* the next beat; a file asks for a probe at once.                         *)
(*                                                                         *)
(* A request the node has given up on may reach the console all the same,  *)
(* and later than the one after it.                                        *)
(***************************************************************************)
EXTENDS Integers, FiniteSets

CONSTANTS
    Torrents,   \* what is shared
    Windows,    \* those of them that may be live together
    MaxRows,    \* the most torrents a report lists
    Modes,      \* content sources this version knows
    NewModes,   \* those a later console may offer
    MaxLate     \* bound: requests given up on and still under way

ASSUME HeartbeatAssumption ==
    /\ Modes # {} /\ "" \notin Modes \cup NewModes /\ Modes \cap NewModes = {}
    /\ {} \in Windows /\ Windows \subseteq SUBSET Torrents
    /\ MaxRows \in Nat \ {0} /\ MaxLate \in Nat

VARIABLES
    online,      \* do requests get through?
    grant,       \* console: is this node an approved seed?
    wish,        \* console: the content source for all nodes
    shown, rows, \* console: the node type it shows, and what it says is shared
    late,        \* requests the node has given up on, still under way
    pc,          \* where the beat is, "off" when the node is down
    forced,      \* is this probe one that was asked for?
    testNow,     \* is the next?
    granted,     \* the answer this beat goes by
    request,     \* the request that is out
    reply,       \* what came back
    mode,        \* content source in force
    report,      \* what is shared, left for the next beat
    live,        \* torrents live in the session
    flag         \* the test-connection file

console == <<grant, wish, shown, rows>>
beat    == <<pc, forced, testNow, granted, request, reply, mode>>
sharing == <<report, live>>
vars    == <<online, console, late, beat, sharing, flag>>

NoReport == [list |-> {}, is |-> FALSE]
Report(K) == [list |-> K, is |-> TRUE]
Reports  == {NoReport} \cup {Report(K) : K \in SUBSET Torrents}
Types    == {"seed", "user"}

NoRequest == [type |-> "user", report |-> NoReport]
Requests  == [type : Types, report : Reports]
NoReply   == ""
Replies   == {""} \cup Modes \cup NewModes

up == pc # "off"

Init ==
    /\ online \in BOOLEAN /\ grant \in BOOLEAN /\ wish \in Modes
    /\ shown = "user" /\ rows = {} /\ late = {}
    /\ pc = "probe" /\ forced = FALSE /\ testNow = FALSE /\ granted = FALSE
    /\ request = NoRequest /\ reply = NoReply /\ mode = ""
    /\ report = NoReport /\ live = {} /\ flag = FALSE

----------------------------------------------------------------------------
(* The beat.                                                               *)

ProbeStarts ==
    /\ pc = "probe" /\ pc' = "probing"
    /\ forced' = testNow /\ testNow' = FALSE
    /\ UNCHANGED <<online, console, late, granted, request, reply, mode, sharing, flag>>

\* Open, closed or no answer: the outcome goes into the verdict (Reachability).
ProbeEnds ==
    /\ pc = "probing" /\ pc' = "ask"
    /\ forced' = FALSE
    /\ UNCHANGED <<online, console, late, testNow, granted, request, reply, mode, sharing, flag>>

\* (slip) An answer that did not come is the last one.
AsksGrantOrKeeps ==
    /\ pc = "ask" /\ pc' = "send"
    /\ granted' = IF granted THEN TRUE ELSE online /\ grant
    /\ UNCHANGED <<online, console, late, forced, testNow, request, reply, mode, sharing, flag>>

\* An answer that does not come is a no.
AsksGrant ==
    /\ pc = "ask" /\ pc' = "send"
    /\ granted' \in IF online THEN {grant} ELSE {grant, FALSE}
    /\ UNCHANGED <<online, console, late, forced, testNow, request, reply, mode, sharing, flag>>

\* What waits to be sent is taken, whatever becomes of the request.
Sends ==
    /\ pc = "send" /\ pc' = "sent"
    /\ request' = [type |-> IF granted THEN "seed" ELSE "user", report |-> report]
    /\ report' = NoReport
    /\ UNCHANGED <<online, console, late, forced, testNow, granted, reply, mode, live, flag>>

\* The console takes a beat: its rows stay unless the beat has a report.
Takes(r) ==
    /\ shown' = r.type
    /\ rows' = IF r.report.is THEN r.report.list ELSE rows

Reaches ==
    /\ pc = "sent" /\ pc' = "replied"
    /\ Takes(request)
    /\ request' = NoRequest /\ reply' = wish
    /\ UNCHANGED <<online, grant, wish, late, forced, testNow, granted, mode, sharing, flag>>

LeftUnderWay == Cardinality(late) < MaxLate /\ late' = late \cup {request}

\* No answer in time: the request is lost, or still under way.
GivesUp ==
    /\ pc = "sent" /\ ~online /\ pc' = "sleep"
    /\ late' = late \/ LeftUnderWay
    /\ request' = NoRequest
    /\ UNCHANGED <<online, console, forced, testNow, granted, reply, mode, sharing, flag>>

\* The answer is lost on the way.
ReplyLost ==
    /\ pc = "replied" /\ ~online /\ pc' = "sleep"
    /\ reply' = NoReply
    /\ UNCHANGED <<online, console, late, forced, testNow, granted, request, mode, sharing, flag>>

\* (slip) What the console sends is taken.
as_sent(m) == m

\* The names of a source, old ones included, stand for one; others for none.
normalise_source_mode(m) == IF m \in Modes THEN m ELSE ""

\* (slip) What this version does not know puts it back on its own default.
AppliesOrResets ==
    /\ pc = "replied" /\ pc' = "sleep"
    /\ mode' = normalise_source_mode(reply)
    /\ reply' = NoReply
    /\ UNCHANGED <<online, console, late, forced, testNow, granted, request, sharing, flag>>

\* A mode this version does not know changes nothing.
Applies ==
    /\ pc = "replied" /\ pc' = "sleep"
    /\ LET m == normalise_source_mode(reply) IN mode' = IF m = "" THEN mode ELSE m
    /\ reply' = NoReply
    /\ UNCHANGED <<online, console, late, forced, testNow, granted, request, sharing, flag>>

IntervalPasses ==
    /\ pc = "sleep" /\ ~flag /\ pc' = "probe"
    /\ UNCHANGED <<online, console, late, forced, testNow, granted, request, reply, mode, sharing, flag>>

\* (slip) The file is cleared away, and the node sleeps on.
FlagCleared ==
    /\ pc = "sleep" /\ flag
    /\ flag' = FALSE
    /\ UNCHANGED <<online, console, late, pc, forced, testNow, granted, request, reply, mode, sharing>>

\* The sleep is in half-second slices, and the file is looked for in each.
FlagSeen ==
    /\ pc = "sleep" /\ flag /\ pc' = "probe"
    /\ flag' = FALSE /\ testNow' = TRUE
    /\ UNCHANGED <<online, console, late, forced, granted, request, reply, mode, sharing>>

Beat == \/ ProbeStarts \/ ProbeEnds \/ AsksGrant \/ Sends \/ Reaches \/ GivesUp
        \/ ReplyLost \/ Applies \/ IntervalPasses \/ FlagSeen

----------------------------------------------------------------------------
(* The poller, which has the session.                                      *)

\* What a walk over the session's table may list of the live ones L: all of
\* them, or as many as fit.
live_torrents(L) ==
    IF Cardinality(L) <= MaxRows THEN {L}
    ELSE {K \in SUBSET L : Cardinality(K) = MaxRows}

\* (slip) Only a report that has something in it is left.
PreparesUnlessEmpty ==
    /\ up
    /\ report' \in IF live # {} THEN {Report(K) : K \in live_torrents(live)} ELSE {report}
    /\ UNCHANGED <<online, console, late, beat, live, flag>>

\* On the first turn and then every hour; one that still waits to be sent is
\* replaced.
Prepares ==
    /\ up
    /\ report' \in {Report(K) : K \in live_torrents(live)}
    /\ UNCHANGED <<online, console, late, beat, live, flag>>

\* Registration, rotation, handshakes and downloads.
SessionTurns ==
    /\ up /\ live' \in Windows
    /\ UNCHANGED <<online, console, late, beat, report, flag>>

----------------------------------------------------------------------------
(* What happens around them.                                               *)

\* A request given up on arrives after all, or never.
LateArrives(r) ==
    /\ r \in late /\ late' = late \ {r}
    /\ Takes(r) \/ UNCHANGED <<shown, rows>>
    /\ UNCHANGED <<online, grant, wish, beat, sharing, flag>>

NetworkTurns ==
    /\ online' = ~online
    /\ UNCHANGED <<console, late, beat, sharing, flag>>

AdminDecides ==
    /\ \/ grant' = ~grant /\ UNCHANGED wish
       \/ wish' \in (Modes \cup NewModes) \ {wish} /\ UNCHANGED grant
    /\ UNCHANGED <<online, shown, rows, late, beat, sharing, flag>>

\* The menu's Connections page, or anyone who leaves the file there.
TestAsked ==
    /\ ~flag /\ flag' = TRUE
    /\ UNCHANGED <<online, console, late, beat, sharing>>

\* The request of a node that dies may be under way.
Crash ==
    /\ up /\ pc' = "off" /\ forced' = FALSE /\ testNow' = FALSE /\ granted' = FALSE
    /\ late' = late \/ (pc = "sent" /\ LeftUnderWay)
    /\ request' = NoRequest /\ reply' = NoReply /\ mode' = ""
    /\ report' = NoReport /\ live' = {}
    /\ UNCHANGED <<online, console, flag>>

Start ==
    /\ ~up /\ pc' = "probe"
    /\ UNCHANGED <<online, console, late, forced, testNow, granted, request, reply, mode, report, live, flag>>

Next ==
    \/ Beat \/ Prepares \/ SessionTurns
    \/ (\E r \in late : LateArrives(r))
    \/ NetworkTurns \/ AdminDecides \/ TestAsked \/ Crash \/ Start

Spec == Init /\ [][Next]_vars

\* The loops go round: every wait in them has a limit of its own.  The service
\* manager starts a node that died.  (A subscript other than vars is a variable
\* every step of its action changes.)
FairSpec ==
    /\ Spec /\ WF_pc(Beat /\ pc # "sleep") /\ WF_vars(FlagSeen) /\ WF_pc(IntervalPasses)
    /\ WF_report(Prepares) /\ WF_pc(Start)
    /\ WF_late(\E r \in late : LateArrives(r))

----------------------------------------------------------------------------
(* Properties.                                                             *)

BeatOK ==
    /\ pc \in {"off", "probe", "probing", "ask", "send", "sent", "replied", "sleep"}
    /\ forced \in BOOLEAN /\ testNow \in BOOLEAN /\ granted \in BOOLEAN
    /\ request \in Requests /\ reply \in Replies
    /\ mode \in {""} \cup Modes
    /\ pc # "sent" => request = NoRequest
    /\ pc # "replied" => reply = NoReply

ConsoleOK ==
    /\ grant \in BOOLEAN /\ wish \in Modes \cup NewModes
    /\ shown \in Types /\ rows \subseteq Torrents

TypeOK ==
    /\ BeatOK /\ ConsoleOK
    /\ late \subseteq Requests /\ Cardinality(late) <= MaxLate
    /\ report \in Reports /\ live \in Windows
    /\ online \in BOOLEAN /\ flag \in BOOLEAN

Settled == <>[](online /\ up)

\* Once the network is back and the node up for good, the console shows it as
\* what its admin last made it, whatever failed questions and stray requests
\* said before.
GrantFollows ==
    Settled => /\ <>[]grant => <>[](shown = "seed")
               /\ <>[]~grant => <>[](shown = "user")

\* Reports are hourly, taken before they are sent and lost with their beat; even
\* so, what the console says is shared is what is shared, in the end, an empty
\* library included: all of it, or the most that a report can list.
RowsFollow ==
    \A L \in Windows :
        Settled /\ <>[](live = L) => <>[](rows \in live_torrents(L))

\* A choice this version does not know leaves the node with the one it has.
SourceKept == [][mode # "" /\ pc' # "off" => mode' # ""]_vars

\* The console's choice of source comes into force; one this version does not
\* know leaves it with one it does, if it ever had one.
SourceFollows ==
    /\ \A m \in Modes : Settled /\ <>[](wish = m) => <>[](mode = m)
    /\ SourceKept

\* A test that is asked for is made by a probe that starts after, unless the
\* node goes down.
TestIsAnswered ==
    flag /\ up ~> (pc = "probing" /\ forced) \/ ~up
=============================================================================
