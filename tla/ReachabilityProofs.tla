------------------------- MODULE ReachabilityProofs -------------------------
(***************************************************************************)
(* Proofs about Reachability: types; that restarts cost the node none of   *)
(* its evidence; and that the node holds on to the port its peers dial.    *)
(***************************************************************************)
EXTENDS Reachability, WellFoundedInduction, TLAPS

USE DEF None, Other

----------------------------------------------------------------------------
(* Ports.                                                                  *)

LEMMA LeastOf ==
    ASSUME NEW S \in SUBSET Nat, S # {}
    PROVE  \E m \in S : \A n \in S : m <= n
  <1>1. PICK m \in S : \A n \in S : ~(<<n, m>> \in OpToRel(<, Nat))
    BY NatLessThanWellFounded, WFMin
  <1>2. \A n \in S : ~(n < m)
    BY <1>1 DEF OpToRel
  <1> QED BY <1>2

LEMMA DefaultTyped == Default \in Range /\ Default \in Outside
  <1>1. \E m \in Range : \A n \in Range : m <= n
    BY LeastOf, ReachabilityAssumption
  <1> QED BY <1>1, ReachabilityAssumption DEF Default

LEMMA PortsTyped == Ports \subseteq Nat \ {0} /\ Default \in Ports /\ Outside \subseteq Nat \ {0}
  BY DefaultTyped, ReachabilityAssumption DEF Ports

LEMMA OffersTyped ==
    ASSUME NEW p, NEW w
    PROVE  Offers(p, w) \subseteq Outside
  BY DEF Offers

\* The session listens on a port nobody else does.
LEMMA BoundTyped == Bind => bound' \in Free
  <1> SUFFICES ASSUME Bind PROVE bound' \in Free
    OBVIOUS
  <1>1. \E m \in Free : \A n \in Free : m <= n
    BY LeastOf, PortsTyped DEF Bind, Free
  <1> QED BY <1>1 DEF Bind

----------------------------------------------------------------------------
(* Types.                                                                  *)

LEMMA InitTyped == Init => TypeOK
  <1> SUFFICES ASSUME Init PROVE TypeOK
    OBVIOUS
  <1>1. PortOK
    <2>1. forwards \in [Outside -> {None, Other} \cup Ports]
      BY DEF Init
    <2>2. lost \in BOOLEAN /\ pc # "up"
      BY DEF Init
    <2>3. taken \subseteq Range /\ granted = None /\ bound = None /\ announced = None /\ held = None
      BY DEF Init
    <2>4. /\ taken \subseteq Range /\ granted \in {None} \cup Outside /\ bound \in {None} \cup Ports
          /\ announced \in {None, Explicit} \cup Outside \cup Ports /\ held \in {None, Explicit} \cup Outside
      BY <2>3
    <2> QED BY <2>1, <2>2, <2>4, Zenon DEF PortOK
  <1>2. EvidenceOK
    <2>1. seen \in BOOLEAN /\ cut \in BOOLEAN
      BY DEF Init
    <2>2. met \subseteq Kinds /\ {at, proof, came, noted} \subseteq Days /\ {probe, verdict} \subseteq Outcomes
      BY ReachabilityAssumption DEF Init, Outcomes, Days
    <2> QED BY <2>1, <2>2 DEF EvidenceOK
  <1> QED BY <1>1, <1>2, ReachabilityAssumption DEF Init, TypeOK

LEMMA PortTyped == TypeOK /\ [Next]_vars => PortOK'
  <1> SUFFICES ASSUME TypeOK, [Next]_vars PROVE PortOK'
    OBVIOUS
  <1> USE DEF TypeOK, PortOK
  <1>1. CASE map_once
    BY <1>1, OffersTyped, PortsTyped DEF map_once
  <1>2. CASE Bind
    <2>1. bound' \in Ports \ taken
      BY <1>2, BoundTyped DEF Free
    <2>2. announced' \in {None, Explicit} \cup Outside \cup Ports
      BY <1>2, <2>1 DEF Bind, announce_port
    <2> QED BY <1>2, <2>1, <2>2 DEF Bind
  <1>3. CASE Renews
    <2>1. PICK e \in Outside : forwards' = [forwards EXCEPT ![e] = bound] /\ held' = e
      BY <1>3, OffersTyped DEF Renews
    <2> QED BY <1>3, <2>1 DEF Renews
  <1>4. ASSUME NEW e \in Outside, Lapses(e) \/ HouseholdTurns(e) PROVE PortOK'
    <2>1. lost' \in BOOLEAN
      BY <1>4 DEF Lapses, HouseholdTurns
    <2> QED BY <1>4, <2>1 DEF Lapses, HouseholdTurns
  <1>5. CASE Stop
    BY <1>5 DEF Stop
  <1>6. CASE UNCHANGED port /\ (pc' = "up" => pc = "up")
    BY <1>6 DEF port
  <1> QED BY <1>1, <1>2, <1>3, <1>4, <1>5, <1>6
          DEF Next, Start, Calls, Forgets, note_v6_inbound, Probes, DayPasses, vars

LEMMA EvidenceTyped == TypeOK /\ [Next]_vars => EvidenceOK'
  <1> SUFFICES ASSUME TypeOK, [Next]_vars PROVE EvidenceOK'
    OBVIOUS
  <1>0. day \in Days /\ 0 \in Days
    BY ReachabilityAssumption DEF TypeOK, Days
  <1> USE DEF TypeOK, EvidenceOK
  <1>1. CASE Start
    BY <1>1 DEF Start
  <1>2. ASSUME NEW k \in Kinds, Calls(k) PROVE EvidenceOK'
    BY <1>0, <1>2 DEF Calls
  <1>3. CASE Forgets
    BY <1>3 DEF Forgets
  <1>4. CASE note_v6_inbound
    BY <1>0, <1>4 DEF note_v6_inbound
  <1>5. CASE Probes
    BY <1>5 DEF Probes, probe_detail, reachable_verdict, Outcomes
  <1>6. CASE Stop
    BY <1>0, <1>6 DEF Stop, Outcomes
  <1>7. CASE UNCHANGED evidence
    BY <1>7 DEF evidence
  <1> QED BY <1>1, <1>2, <1>3, <1>4, <1>5, <1>6, <1>7
          DEF Next, map_once, Bind, Renews, Lapses, HouseholdTurns, DayPasses, vars

LEMMA TypeStep == TypeOK /\ [Next]_vars => TypeOK'
  <1> SUFFICES ASSUME TypeOK, [Next]_vars PROVE TypeOK'
    OBVIOUS
  <1>1. day' \in 1..MaxDay /\ stops' \in 0..MaxStops /\ pc' \in {"off", "ask", "bind", "up"}
    BY ReachabilityAssumption
       DEF TypeOK, Next, Start, map_once, Bind, Renews, Lapses, HouseholdTurns, Calls, Forgets,
           note_v6_inbound, Probes, DayPasses, Stop, vars
  <1> QED BY <1>1, PortTyped, EvidenceTyped DEF TypeOK

\* Every variable keeps its type, and the session never listens on a port that
\* another program had, for any ports, gateway and settings.
THEOREM ReachabilityTyping == Spec => []TypeOK
  BY InitTyped, TypeStep, PTL DEF Spec

----------------------------------------------------------------------------
(* Evidence.                                                               *)

\* The file says what was noted last, and so does memory while the node runs;
\* whatever says so, someone called from afar.
Dated ==
    /\ ~cut => /\ proof = noted
               /\ pc # "off" => at = noted /\ (seen <=> noted # 0)
    /\ proof # 0 \/ seen \/ "in" \in met => came # 0
    /\ pc = "off" => ~seen

LEMMA Inbound == TypeOK => (inbound_ipv6 <=> "in" \in met)
  BY DEF TypeOK, EvidenceOK, inbound_ipv6, is_global_unicast_ipv6_peer, Kinds

LEMMA DatedStep == TypeOK /\ Dated /\ [Next]_vars => Dated'
  <1> SUFFICES ASSUME TypeOK, Dated, [Next]_vars PROVE Dated'
    OBVIOUS
  <1>0. day \in 1..MaxDay /\ day # 0 /\ proof \in Days
    BY DEF TypeOK, EvidenceOK
  <1> USE DEF Dated
  <1>1. CASE Start
    <2>a. proof > 0 <=> proof # 0
      BY <1>0 DEF Days
    <2>b. seen' = (proof > 0)
      BY <1>1 DEF Start
    <2>c. seen' <=> proof # 0
      BY <2>a, <2>b, Zenon
    <2>1. /\ pc = "off" /\ pc' = "ask" /\ at' = proof /\ (seen' <=> proof # 0)
          /\ met' = met /\ proof' = proof /\ came' = came /\ noted' = noted /\ cut' = cut
      BY <1>1, <2>c DEF Start
    <2>2. ASSUME ~cut' PROVE proof' = noted' /\ at' = noted' /\ (seen' <=> noted' # 0)
      <3>1. proof = noted
        BY <2>1, <2>2
      <3> QED BY <2>1, <3>1, Zenon
    <2>3. proof' # 0 \/ seen' \/ "in" \in met' => came' # 0
      BY <2>1, Zenon
    <2>4. pc' # "off"
      BY <2>1
    <2> QED BY <2>2, <2>3, <2>4, Zenon
  <1>2. ASSUME NEW k \in Kinds, Calls(k) PROVE Dated'
    BY <1>0, <1>2 DEF Calls
  <1>3. CASE Forgets
    BY <1>3 DEF Forgets
  <1>4. CASE note_v6_inbound
    BY <1>0, <1>4, Inbound DEF note_v6_inbound
  <1>5. CASE Probes
    BY <1>5 DEF Probes
  <1>6. CASE Stop
    BY <1>6 DEF Stop
  <1>7. CASE UNCHANGED evidence /\ (pc' # "off" <=> pc # "off")
    BY <1>7 DEF evidence
  <1> QED BY <1>1, <1>2, <1>3, <1>4, <1>5, <1>6, <1>7
          DEF Next, map_once, Bind, Renews, Lapses, HouseholdTurns, DayPasses, vars

\* No restart takes a day off the evidence unless a write failed, and there is
\* none unless someone called from afar.
THEOREM EvidenceLasts == Spec => []EvidenceKept
  <1>1. Init => Dated
    BY DEF Init, Dated
  <1>2. TypeOK /\ Dated => EvidenceKept
    BY DEF Dated, EvidenceKept
  <1> QED BY <1>1, <1>2, InitTyped, TypeStep, DatedStep, PTL DEF Spec

----------------------------------------------------------------------------
(* The announced port.                                                     *)

\* Port e of the gateway leads to port p of this machine, or is free for it.
Ours(e, p) == e \in Outside /\ forwards[e] \in {None, p}

\* From when the gateway gives the port: peers are told that one, and renewals
\* hold it, while no other machine has it.
Holding ==
    /\ pc \in {"off", "ask"} => granted = None
    /\ granted # None => Explicit = None
    /\ pc = "bind" /\ granted # None /\ ~lost => Ours(granted, Default)
    /\ pc = "up" /\ granted # None =>
           /\ announced = granted
           /\ bound = Default /\ ~lost => held = granted /\ Ours(granted, Default)

\* What the gateway gives leads to the port it was asked for.
LEMMA Given ==
    ASSUME TypeOK, NEW p, NEW w, NEW e \in Offers(p, w), forwards' = [forwards EXCEPT ![e] = p]
    PROVE  e \in Outside /\ forwards'[e] = p
  BY OffersTyped DEF TypeOK, PortOK

\* Asked for a port that leads there or is free, the gateway gives it.
LEMMA Honoured ==
    ASSUME NEW p, NEW w, Ours(w, p)
    PROVE  Offers(p, w) = {w}
  BY DEF Ours, Offers

LEMMA HoldingStep == TypeOK /\ Holding /\ [Next]_vars => Holding'
  <1> SUFFICES ASSUME TypeOK, Holding, [Next]_vars PROVE Holding'
    OBVIOUS
  <1> USE DEF Holding
  <1>0. /\ forwards \in [Outside -> {None, Other} \cup Ports]
        /\ granted \in {None} \cup Outside /\ None \notin Outside
        /\ lost \in BOOLEAN
    BY PortsTyped DEF TypeOK, PortOK
  <1>1. CASE map_once
    <2>1. CASE granted' = None
      BY <1>1, <2>1 DEF map_once
    <2>2. CASE \E e \in Offers(Default, Default) :
                   granted' = e /\ forwards' = [forwards EXCEPT ![e] = Default]
      <3>1. PICK e \in Offers(Default, Default) :
                     granted' = e /\ forwards' = [forwards EXCEPT ![e] = Default]
        BY <2>2
      <3>2. Ours(e, Default)'
        BY <3>1, Given DEF Ours
      <3>3. pc' = "bind" /\ (granted' # None => Explicit = None)
        BY <1>0, <1>1, <3>1, OffersTyped DEF map_once
      <3> QED BY <3>1, <3>2, <3>3 DEF Ours
    <2> QED BY <1>1, <2>1, <2>2 DEF map_once
  <1>2. CASE Bind
    <2>1. /\ pc = "bind" /\ pc' = "up" /\ UNCHANGED <<forwards, granted, lost>>
          /\ granted # None => announced' = granted /\ held' = granted
      BY <1>2 DEF Bind, announce_port
    <2> QED BY <2>1 DEF Ours
  <1>3. CASE Renews
    <2>1. PICK e \in Offers(bound, want_external) :
              forwards' = [forwards EXCEPT ![e] = bound] /\ held' = e
      BY <1>3 DEF Renews
    <2>2. pc = "up" /\ UNCHANGED <<pc, granted, bound, announced, lost>>
      BY <1>3 DEF Renews
    <2>3. ASSUME granted # None, bound = Default, ~lost
          PROVE  held' = granted /\ Ours(granted, Default)'
      <3>1. held = granted /\ Ours(granted, Default) /\ want_external = granted
        BY <2>2, <2>3 DEF want_external
      <3>2. e = granted
        BY <2>1, <2>3, <3>1, Honoured
      <3>3. e \in Outside /\ forwards'[e] = bound
        <4>1. TypeOK
          OBVIOUS
        <4> QED BY <4>1, <2>1, Given
      <3> QED BY <2>1, <2>2, <2>3, <3>2, <3>3 DEF Ours
    <2>4. pc' = "up" /\ granted' = granted /\ bound' = bound /\ announced' = announced
      BY <2>2
    <2>5. lost' <=> lost
      BY <2>2
    <2> QED BY <2>2, <2>3, <2>4, <2>5
  <1>4. ASSUME NEW e \in Outside, Lapses(e) PROVE Holding'
    BY <1>0, <1>4 DEF Lapses, Ours
  <1>5. ASSUME NEW e \in Outside, HouseholdTurns(e) PROVE Holding'
    <2>1. UNCHANGED <<pc, granted, bound, announced, held>> /\ (lost' <=> lost \/ e = granted)
      BY <1>5 DEF HouseholdTurns
    <2>2. \A d \in Outside \ {e} : forwards'[d] = forwards[d]
      BY <1>0, <1>5 DEF HouseholdTurns
    <2>3. e # granted /\ Ours(granted, Default) => Ours(granted, Default)'
      BY <2>1, <2>2 DEF Ours
    <2> QED BY <2>1, <2>3
  <1>6. CASE Stop
    BY <1>6 DEF Stop
  <1>7. CASE UNCHANGED port /\ (pc' = pc \/ (pc = "off" /\ pc' = "ask"))
    BY <1>7 DEF port, Ours
  <1> QED BY <1>1, <1>2, <1>3, <1>4, <1>5, <1>6, <1>7
          DEF Next, Start, Calls, Forgets, note_v6_inbound, Probes, DayPasses, vars

\* A node on the default port holds on to the port the gateway gave it, and its
\* peers dial: every renewal asks for that one (natpmp.rs spawn, try_gateway), and
\* so gets it, unless another machine took it while the mapping had lapsed; for
\* any number of ports and whatever others come and go.
THEOREM AnnouncedStaysOurs == Spec => []AnnouncedIsOurs
  <1>1. Init => Holding
    BY PortsTyped DEF Init, Holding
  <1>2. TypeOK /\ Holding => AnnouncedIsOurs
    BY DEF Holding, Ours, AnnouncedIsOurs
  <1> QED BY <1>1, <1>2, InitTyped, TypeStep, HoldingStep, PTL DEF Spec
=============================================================================
