---------------------------- MODULE Reachability ----------------------------
(***************************************************************************)
(* Can others come to this node?  Before its session starts the node       *)
(* settles which port they are told to dial: one that was set, one the     *)
(* gateway gave it, or the one it listens on; afterwards it renews the     *)
(* gateway's mapping.  That others did come it learns from a probe, and    *)
(* from connections over IPv6 that it finds in its peer tables; the day of *)
(* the last is kept in a file.                                             *)
(*                                                                         *)
(* Time is counted in days.  The gateway and who comes by are not the      *)
(* node's.                                                                 *)
(***************************************************************************)
EXTENDS Integers, FiniteSets

CONSTANTS
    Range,     \* ports the session may listen on, the first is the default
    Outside,   \* ports of the gateway
    Pinned,    \* a port to listen on that is set, 0 for none
    Explicit,  \* a public port that is set, 0 for none
    Asks,      \* is the gateway asked?
    Window,    \* days for which a connection counts, as set
    MaxDay,    \* bound: days
    MaxStops   \* bound

Default == CHOOSE p \in Range : \A q \in Range : p <= q

ASSUME ReachabilityAssumption ==
    /\ Range \subseteq Nat \ {0} /\ Range # {} /\ IsFiniteSet(Range)
    /\ Outside \subseteq Nat \ {0} /\ Default \in Outside
    /\ Pinned \in Nat /\ Explicit \in Nat /\ Asks \in BOOLEAN
    /\ Window \in Nat /\ MaxDay \in Nat \ {0} /\ MaxStops \in Nat

None  == 0
Ports == Range \cup ({Pinned} \ {None})
Other == -1     \* another machine of the household
Kinds == {"in", "near", "out"}

VARIABLES
    forwards,  \* the gateway: where each of its ports leads
    taken,     \* ports of this machine that other programs listen on
    pc,        \* "off", "ask", "bind" or "up"
    granted,   \* the port the gateway gave before the session
    bound, announced, \* the session's
    held,      \* the port a renewal asks for
    lost,      \* history: another machine took the port that was granted
    day,
    met,       \* what the peer tables remember: a caller over IPv6, one dialled
    seen, at,  \* memory: did one call, and when
    proof,     \* the file
    probe, verdict, \* "unknown", "open" or "closed"
    came, noted, cut, \* history: when one last came, when that was last noted,
               \* was the file lost
    stops      \* bound

port     == <<forwards, taken, granted, bound, announced, held, lost>>
evidence == <<met, seen, at, proof, probe, verdict, came, noted, cut>>
vars     == <<port, evidence, pc, day, stops>>

Init ==
    /\ forwards \in [Outside -> {None, Other}]
    /\ taken \in SUBSET Range
    /\ pc = "off" /\ granted = None /\ bound = None /\ announced = None
    /\ held = None /\ lost = FALSE
    /\ day = 1 /\ met = {} /\ seen = FALSE /\ at = 0 /\ proof = 0
    /\ probe = "unknown" /\ verdict = "unknown"
    /\ came = 0 /\ noted = 0 /\ cut = FALSE /\ stops = 0

----------------------------------------------------------------------------
(* The port.                                                               *)

\* What the gateway may give for port p of this machine when it is asked for its
\* own port w: that one while it is free or leads there already; else another.
Offers(p, w) ==
    LET open == {e \in Outside : forwards[e] \in {None, p}}
    IN IF w \in open THEN {w} ELSE open

\* The proof is read before anything else.
Start ==
    /\ pc = "off" /\ pc' = "ask"
    /\ seen' = (proof > 0) /\ at' = proof
    /\ UNCHANGED <<port, met, proof, probe, verdict, came, noted, cut, day, stops>>

\* The gateway is asked for the default port, unless a public one is set.
map_once ==
    /\ pc = "ask" /\ pc' = "bind"
    /\ IF Explicit # None \/ ~Asks
       THEN granted' = None /\ UNCHANGED forwards
       ELSE \/ granted' = None /\ UNCHANGED forwards
            \/ \E e \in Offers(Default, Default) :
                   /\ granted' = e
                   /\ forwards' = [forwards EXCEPT ![e] = Default]
    /\ UNCHANGED <<taken, bound, announced, held, lost, evidence, day, stops>>

\* A port another program listens on is passed over.
Free == Ports \ taken

\* Peers are told once and for all.
announce_port(p) ==
    IF Explicit # None THEN Explicit ELSE IF granted # None THEN granted ELSE p

\* (slip) A port that is taken is shared.
Shares ==
    /\ pc = "bind"
    /\ bound' = Default /\ announced' = announce_port(bound')
    /\ held' = IF granted # None THEN granted ELSE Explicit
    /\ pc' = "up"
    /\ UNCHANGED <<forwards, taken, granted, lost, evidence, day, stops>>

\* The pinned port first, then the range; with none there is no session.
Bind ==
    /\ pc = "bind" /\ Free # {}
    /\ bound' = IF Pinned \in Free THEN Pinned ELSE CHOOSE p \in Free : \A q \in Free : p <= q
    /\ announced' = announce_port(bound')
    /\ held' = IF granted # None THEN granted ELSE Explicit
    /\ pc' = "up"
    /\ UNCHANGED <<forwards, taken, granted, lost, evidence, day, stops>>

\* (slip) Every renewal asks as the first time.
want_none == bound

\* What a renewal asks for: the port it holds, which before the first one is what
\* peers were told, or, when there is none, the one that is bound.
want_external == IF held # None THEN held ELSE bound

Renews ==
    /\ pc = "up" /\ Asks
    /\ \E e \in Offers(bound, want_external) :
           forwards' = [forwards EXCEPT ![e] = bound] /\ held' = e
    /\ UNCHANGED <<taken, granted, bound, announced, lost, evidence, pc, day, stops>>

\* A mapping lapses when the node is off, or its gateway does not answer it.
Lapses(e) ==
    /\ forwards[e] \in Ports
    /\ forwards' = [forwards EXCEPT ![e] = None]
    /\ UNCHANGED <<taken, granted, bound, announced, held, lost, evidence, pc, day, stops>>

\* Another machine of the household takes a port that is free, or leaves one.
HouseholdTurns(e) ==
    /\ forwards[e] \in {None, Other}
    /\ forwards' = [forwards EXCEPT ![e] = IF forwards[e] = None THEN Other ELSE None]
    /\ lost' = (lost \/ e = granted)
    /\ UNCHANGED <<taken, granted, bound, announced, held, evidence, pc, day, stops>>

----------------------------------------------------------------------------
(* The evidence.                                                           *)

\* Someone calls over IPv6, from afar or from the same network, or is dialled;
\* the tables remember those who left.
Calls(k) ==
    /\ pc = "up"
    /\ met' = met \cup {k}
    /\ came' = IF k = "in" THEN day ELSE came
    /\ UNCHANGED <<port, pc, seen, at, proof, probe, verdict, noted, cut, day, stops>>

\* A torrent that is paused loses its table.
Forgets ==
    /\ met # {} /\ met' \in SUBSET met \ {met}
    /\ UNCHANGED <<port, pc, seen, at, proof, probe, verdict, came, noted, cut, day, stops>>

\* Who is in the tables that dialled this node from afar?
is_global_unicast_ipv6_peer(k) == k # "near"
inbound_ipv6 == \E k \in met \ {"out"} : is_global_unicast_ipv6_peer(k)

\* (slip) The file is written once.
NotesOnce ==
    /\ pc = "up" /\ inbound_ipv6
    /\ seen' = TRUE /\ at' = day /\ noted' = day
    /\ proof' = IF ~seen THEN day ELSE proof
    /\ UNCHANGED <<port, pc, met, probe, verdict, came, cut, day, stops>>

\* A scan, every minute: a caller in the tables makes it today's date, which is
\* written when it is another day's.
note_v6_inbound ==
    /\ pc = "up" /\ inbound_ipv6
    /\ seen' = TRUE /\ at' = day /\ noted' = day
    /\ \/ proof' = (IF ~seen \/ at # day THEN day ELSE proof) /\ UNCHANGED cut
       \/ (~seen \/ at # day) /\ proof' = 0 /\ cut' = TRUE     \* the write fails
    /\ UNCHANGED <<port, pc, met, probe, verdict, came, day, stops>>

reach_confirm_days == IF Window < 1 THEN 1 ELSE IF Window > 365 THEN 365 ELSE Window

v6_confirmed_recently == seen /\ day - at <= reach_confirm_days

reachable_verdict(p) == IF v6_confirmed_recently THEN "open" ELSE p

\* What a probe of the public port, over IPv4 in effect, says; no answer says
\* nothing.
probe_detail ==
    {"unknown", IF announced \in Outside /\ forwards[announced] = bound THEN "open" ELSE "closed"}

Probes ==
    /\ pc = "up"
    /\ probe' \in probe_detail
    /\ verdict' = reachable_verdict(probe')
    /\ UNCHANGED <<port, pc, met, seen, at, proof, came, noted, cut, day, stops>>

----------------------------------------------------------------------------

\* There are many scans in a day.
DayPasses ==
    /\ pc = "up" /\ inbound_ipv6 => at = day
    /\ day < MaxDay /\ day' = day + 1
    /\ UNCHANGED <<port, pc, evidence, stops>>

\* A crash or a stop; other programs may come and go meanwhile.
Stop ==
    /\ pc # "off" /\ stops < MaxStops /\ stops' = stops + 1 /\ pc' = "off"
    /\ granted' = None /\ bound' = None /\ announced' = None /\ held' = None /\ lost' = FALSE
    /\ taken' \in SUBSET Range
    /\ met' = {} /\ seen' = FALSE /\ at' = 0 /\ probe' = "unknown" /\ verdict' = "unknown"
    /\ UNCHANGED <<forwards, proof, came, noted, cut, day>>

Next ==
    \/ Start \/ map_once \/ Bind \/ Renews
    \/ (\E e \in Outside : Lapses(e) \/ HouseholdTurns(e))
    \/ (\E k \in Kinds : Calls(k)) \/ Forgets \/ note_v6_inbound \/ Probes
    \/ DayPasses \/ Stop

Spec == Init /\ [][Next]_vars

----------------------------------------------------------------------------
(* Properties.                                                             *)

Outcomes == {"unknown", "open", "closed"}
Days     == 0..MaxDay

PortOK ==
    /\ forwards \in [Outside -> {None, Other} \cup Ports]
    /\ taken \subseteq Range
    /\ granted \in {None} \cup Outside /\ bound \in {None} \cup Ports
    /\ announced \in {None, Explicit} \cup Outside \cup Ports
    /\ held \in {None, Explicit} \cup Outside /\ lost \in BOOLEAN
    /\ pc = "up" => bound \in Ports \ taken

EvidenceOK ==
    /\ met \subseteq Kinds /\ seen \in BOOLEAN /\ at \in Days /\ proof \in Days
    /\ probe \in Outcomes /\ verdict \in Outcomes
    /\ came \in Days /\ noted \in Days /\ cut \in BOOLEAN

TypeOK ==
    /\ PortOK /\ EvidenceOK
    /\ pc \in {"off", "ask", "bind", "up"} /\ day \in 1..MaxDay /\ stops \in 0..MaxStops

\* The date is written only when the day changes, and read when the node
\* starts; even so no restart takes a day off it, unless a write failed.  And
\* there is none unless someone did call from afar.
EvidenceKept ==
    pc # "off" => /\ noted # 0 /\ ~cut => seen /\ at = noted
                  /\ seen => came # 0

\* A node that listens on the default port and was given a port by the gateway
\* never lets go of it: whatever ports come free meanwhile, and however often the
\* mapping lapses before it is renewed, its renewals hold on to the port its peers
\* were told to dial, which leads to it or is free for the next renewal, unless
\* another machine took it while it had lapsed.
AnnouncedIsOurs ==
    pc = "up" /\ granted # None /\ bound = Default /\ ~lost =>
        held = announced /\ forwards[announced] \in {bound, None}

\* config.rs:803-804: how recently "an inbound connection must have arrived for this
\* node to still count as reachable".
EvidenceIsRecent ==
    pc = "up" /\ v6_confirmed_recently => day - came <= reach_confirm_days
=============================================================================
