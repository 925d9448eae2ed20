---------------------------- MODULE LibraryProofs ----------------------------
(***************************************************************************)
(* Proofs about Library: types, with every list the node goes by a signed  *)
(* one; that a node the console never approved holds nothing but what it   *)
(* had and what was picked; that picks that were saved are read; and that  *)
(* a pass leaves out nothing it was to fetch.                              *)
(***************************************************************************)
EXTENDS Library, TLAPS

LEMMA PublishedTyped ==
    ASSUME NEW r PROVE Published(r) \subseteq Files
  BY LibraryAssumption DEF Published

LEMMA WantedTyped ==
    ASSUME NEW p \in Picks, NEW c PROVE wanted_ids(p, c) \subseteq Files
  BY LibraryAssumption DEF wanted_ids, Picks

----------------------------------------------------------------------------
(* Types.                                                                  *)

LEMMA InitTyped == Init => TypeOK
  <1> SUFFICES ASSUME Init PROVE TypeOK
    OBVIOUS
  <1>1. NodeOK /\ ListIsSigned
    BY DEF Init, NodeOK, ListIsSigned
  <1>2. picks \in Picks /\ held \subseteq Files /\ cache \in None..release /\ catalogue \in None..release
    BY LibraryAssumption DEF Init, Picks, None
  <1>3. flag \in BOOLEAN /\ approved \in BOOLEAN
    BY DEF Init
  <1>4. raising \in BOOLEAN /\ barred \in {"no", "quiet", "full"} /\ unseen \in BOOLEAN /\ missed \in BOOLEAN
    BY DEF Init
  <1>5. release \in Releases /\ allowed \subseteq Files /\ edits \in 0..MaxEdits
    BY LibraryAssumption DEF Init, Releases
  <1>6. grant \in BOOLEAN /\ online \in BOOLEAN
    BY DEF Init
  <1> QED BY <1>1, <1>2, <1>3, <1>4, <1>5, <1>6 DEF TypeOK, FilesOK

LEMMA NodeTyped == TypeOK /\ [Next]_vars => NodeOK'
  <1> SUFFICES ASSUME TypeOK, [Next]_vars PROVE NodeOK'
    OBVIOUS
  <1> USE DEF TypeOK, NodeOK
  <1>1. CASE Start
    BY <1>1 DEF Start
  <1>2. CASE Gate
    BY <1>2 DEF Gate
  <1>3. CASE ListArrives
    BY <1>3 DEF ListArrives, CachedList, NoList, NotStarted, Skipped
  <1>4. CASE SignatureArrives
    BY <1>4 DEF SignatureArrives, CachedList, NoList, NotStarted, Skipped
  <1>5. CASE Stores
    BY <1>5 DEF Stores
  <1>6. CASE Selects
    BY <1>6, PublishedTyped DEF Selects, select_entries
  <1>7. CASE Narrows
    BY <1>7 DEF Narrows
  <1>8. ASSUME NEW f \in Files, Fetches(f) PROVE NodeOK'
    BY <1>8 DEF Fetches
  <1>9. CASE PassEnds
    BY <1>9 DEF PassEnds
  <1>10. CASE Wakes
    BY <1>10 DEF Wakes
  <1>11. CASE Sweeps
    <2>1. awaiting \in BOOLEAN
      OBVIOUS
    <2>2. awaiting' = awaiting \/ awaiting' = (awaiting /\ ~(online /\ grant))
      BY <1>11, Zenon DEF Sweeps
    <2>3. awaiting' \in BOOLEAN
      BY <2>1, <2>2
    <2>4. awaiting' => awaiting
      BY <2>1, <2>2
    <2> QED BY <1>11, <2>3, <2>4 DEF Sweeps
  <1>12. CASE Stop
    BY <1>12 DEF Stop
  <1>13. CASE UNCHANGED node
    BY <1>13 DEF node
  <1>14. CASE Node
    BY <1>1, <1>2, <1>3, <1>4, <1>5, <1>6, <1>7, <1>8, <1>9, <1>10, <1>11, <1>14 DEF Node
  <1>15. ASSUME ~Node, ~Stop PROVE UNCHANGED node
    BY <1>15 DEF Next, Saves, Raises, MenuDies, MenuOpens, MenuAsks, RefreshAsked, Publishes,
                 AdminDecides, WeatherTurns, vars
  <1> QED BY <1>12, <1>13, <1>14, <1>15

\* Only what was fetched and carries the signature of its own release goes by.
LEMMA SignedStep == TypeOK /\ [Next]_vars => ListIsSigned'
  <1> SUFFICES ASSUME TypeOK, [Next]_vars PROVE ListIsSigned'
    OBVIOUS
  <1>0. /\ cache \in None..release /\ release \in Releases
        /\ pc \in {"store", "pick", "narrow", "fetch"} => list \in 1..release
    BY DEF TypeOK, FilesOK, ListIsSigned
  <1> USE DEF ListIsSigned
  <1>1. CASE Start \/ Gate \/ PassEnds \/ Wakes \/ Sweeps \/ Stop
    BY <1>1 DEF Start, Gate, PassEnds, Wakes, Sweeps, Stop
  <1>2. CASE ListArrives
    BY <1>0, <1>2 DEF ListArrives, CachedList, NoList, NotStarted, Skipped, console, None, Releases
  <1>3. CASE SignatureArrives
    BY <1>0, <1>3 DEF SignatureArrives, CachedList, NoList, NotStarted, Skipped, console, None, Releases
  <1>4. CASE Stores \/ Selects \/ Narrows
    BY <1>0, <1>4 DEF Stores, Selects, Narrows, console
  <1>5. ASSUME NEW f \in Files, Fetches(f) PROVE ListIsSigned'
    BY <1>0, <1>5 DEF Fetches, console
  <1>6. CASE Publishes
    BY <1>0, <1>6 DEF Publishes, node, Releases
  <1>7. CASE UNCHANGED <<pc, list, release>>
    BY <1>0, <1>7
  <1> QED BY <1>1, <1>2, <1>3, <1>4, <1>5, <1>6, <1>7
          DEF Next, Node, Saves, Raises, MenuDies, MenuOpens, MenuAsks, RefreshAsked,
              AdminDecides, WeatherTurns, vars, console, node

LEMMA FilesTyped == TypeOK /\ [Next]_vars => FilesOK'
  <1> SUFFICES ASSUME TypeOK, [Next]_vars PROVE FilesOK'
    OBVIOUS
  <1>0. /\ FilesOK /\ release \in Releases /\ grant \in BOOLEAN /\ goal \subseteq Files
        /\ pc = "store" => list \in 1..release
    BY DEF TypeOK, NodeOK, ListIsSigned
  <1> USE DEF FilesOK
  <1>1. ASSUME NEW p \in Picks, Saves(p) PROVE FilesOK'
    BY <1>0, <1>1 DEF Saves, console
  <1>2. CASE Raises \/ MenuDies \/ MenuAsks \/ RefreshAsked
    BY <1>0, <1>2 DEF Raises, MenuDies, MenuAsks, RefreshAsked, console, disk
  <1>3. CASE MenuOpens
    BY <1>0, <1>3 DEF MenuOpens, console, Releases, None
  <1>4. CASE Start \/ PassEnds \/ Wakes \/ Stop \/ WeatherTurns
    BY <1>0, <1>4 DEF Start, PassEnds, Wakes, Stop, WeatherTurns, console, disk
  <1>5. CASE Gate \/ Sweeps
    <2>1. approved' \in BOOLEAN
      BY <1>0, <1>5 DEF Gate, Sweeps
    <2> QED BY <1>0, <1>5, <2>1 DEF Gate, Sweeps, console, disk
  <1>6. CASE ListArrives \/ Selects \/ Narrows
    BY <1>0, <1>6 DEF ListArrives, Selects, Narrows, console, disk
  <1>7. CASE SignatureArrives
    BY <1>0, <1>7 DEF SignatureArrives, console, Releases, None
  <1>8. CASE Stores
    BY <1>0, <1>8 DEF Stores, console, Releases, None
  <1>9. ASSUME NEW f \in Files, Fetches(f) PROVE FilesOK'
    BY <1>0, <1>9 DEF Fetches, console, disk
  <1>10. CASE Publishes
    BY <1>0, <1>10 DEF Publishes, disk, Releases, None
  <1>11. CASE AdminDecides
    BY <1>0, <1>11 DEF AdminDecides, disk
  <1>12. CASE UNCHANGED vars
    BY <1>0, <1>12 DEF vars, console, disk
  <1> QED BY <1>1, <1>2, <1>3, <1>4, <1>5, <1>6, <1>7, <1>8, <1>9, <1>10, <1>11, <1>12 DEF Next, Node

LEMMA RestTyped ==
    ASSUME TypeOK, [Next]_vars
    PROVE  /\ release' \in Releases /\ grant' \in BOOLEAN /\ raising' \in BOOLEAN
           /\ online' \in BOOLEAN /\ barred' \in {"no", "quiet", "full"}
           /\ unseen' \in BOOLEAN /\ missed' \in BOOLEAN /\ allowed' \subseteq Files
           /\ edits' \in 0..MaxEdits
  <1>1. release' \in Releases /\ edits' \in 0..MaxEdits
    <2>1. ASSUME NEW p \in Picks, Saves(p) PROVE release' \in Releases /\ edits' \in 0..MaxEdits
      BY <2>1, LibraryAssumption DEF TypeOK, Saves, Changes, console
    <2>2. CASE Publishes
      BY <2>2 DEF TypeOK, Publishes, Releases
    <2>3. CASE UNCHANGED <<release, edits>>
      BY <2>3 DEF TypeOK
    <2> QED BY <2>1, <2>2, <2>3
            DEF Next, Node, vars, console, Raises, MenuDies, MenuOpens, MenuAsks, RefreshAsked, Start,
                Gate, ListArrives, SignatureArrives, Stores, Selects, Narrows, Fetches, PassEnds,
                Wakes, Sweeps, Stop, AdminDecides, WeatherTurns
  <1>5. raising' \in BOOLEAN
    BY DEF TypeOK, Next, Node, vars, Saves, Raises, MenuDies, MenuOpens,
           MenuAsks, RefreshAsked, Start, Gate, ListArrives, SignatureArrives, Stores, Selects, Narrows,
           Fetches, PassEnds, Wakes, Sweeps, Stop, Publishes, AdminDecides, WeatherTurns
  <1>2. grant' \in BOOLEAN /\ online' \in BOOLEAN /\ barred' \in {"no", "quiet", "full"}
    BY DEF TypeOK, Next, Node, vars, console, weather, Saves, Raises, MenuDies, MenuOpens,
           MenuAsks, RefreshAsked, Start, Gate, ListArrives, SignatureArrives, Stores, Selects, Narrows,
           Fetches, PassEnds, Wakes, Sweeps, Stop, Publishes, AdminDecides, WeatherTurns
  <1>3. unseen' \in BOOLEAN /\ missed' \in BOOLEAN
    BY DEF TypeOK, Next, Node, vars, history, Saves, Raises, MenuDies, MenuOpens, CachedList, NoList, NotStarted, Skipped,
           MenuAsks, RefreshAsked, Start, Gate, ListArrives, SignatureArrives, Stores, Selects, Narrows,
           Fetches, PassEnds, Wakes, Sweeps, Stop, Publishes, AdminDecides, WeatherTurns
  <1>4. allowed' \subseteq Files
    <2>1. ASSUME NEW p \in Picks, Saves(p) PROVE allowed' \subseteq Files
      BY <2>1, WantedTyped DEF Saves, TypeOK
    <2>2. CASE MenuOpens
      BY <2>2, WantedTyped DEF MenuOpens, TypeOK, FilesOK
    <2>3. CASE AdminDecides
      BY <2>3 DEF AdminDecides, TypeOK
    <2>4. CASE UNCHANGED allowed
      BY <2>4 DEF TypeOK
    <2> QED BY <2>1, <2>2, <2>3, <2>4
            DEF Next, Node, vars, history, Raises, MenuDies, MenuAsks, RefreshAsked, Start, Gate,
                ListArrives, SignatureArrives, Stores, Selects, Narrows, Fetches, PassEnds, Wakes,
                Sweeps, Stop, Publishes, WeatherTurns
  <1> QED BY <1>1, <1>2, <1>3, <1>4, <1>5

LEMMA TypeStep == TypeOK /\ [Next]_vars => TypeOK'
  BY NodeTyped, SignedStep, FilesTyped, RestTyped DEF TypeOK

\* The types of the state hold throughout, and the list the node selects from
\* is one that was published, whole, under its own signature
\* (masterlist.rs fetch_verified).
THEOREM LibraryTyping == Spec => []TypeOK
  BY InitTyped, TypeStep, PTL DEF Spec

----------------------------------------------------------------------------
(* What a node is free to hold.                                            *)

Running == {"body", "sig", "store", "pick", "narrow", "fetch", "wait", "woken"}

\* Approval, and the answer the node keeps of it, come from a console that gave
\* it; the node that goes for its scope had that answer; and what it is about
\* to fetch is what it is free to hold.
Licensed ==
    /\ NothingUnapproved
    /\ grant \/ approved => allowed = Files
    /\ wanted_now \subseteq allowed
    /\ pc \in Running /\ scope # "picks" /\ ~awaiting => allowed = Files
    /\ pc = "fetch" => goal \subseteq allowed

LEMMA InitLicensed == Init => Licensed
  <1> SUFFICES ASSUME Init PROVE Licensed
    OBVIOUS
  <1>1. held \subseteq allowed /\ (grant \/ approved => allowed = Files)
    BY LibraryAssumption DEF Init
  <1>2. wanted_now = {}
    BY DEF Init, wanted_now, wanted_ids
  <1> QED BY <1>1, <1>2 DEF Init, Licensed, NothingUnapproved, Running

LEMMA LicensedStep == TypeOK /\ Licensed /\ [Next]_vars => Licensed'
  <1> SUFFICES ASSUME TypeOK, Licensed, [Next]_vars PROVE Licensed'
    OBVIOUS
  <1>0. /\ held \subseteq Files /\ allowed \subseteq Files /\ goal \subseteq Files
        /\ approved \in BOOLEAN /\ grant \in BOOLEAN /\ awaiting \in BOOLEAN /\ picks \in Picks
    BY DEF TypeOK, NodeOK, FilesOK
  <1> USE DEF Licensed, NothingUnapproved
  <1>1. ASSUME NEW p \in Picks, Saves(p) PROVE Licensed'
    <2>1. wanted_now' = wanted_ids(p, catalogue)
      BY <1>1 DEF Saves, wanted_now
    <2>2. wanted_ids(p, catalogue) \subseteq Files
      BY WantedTyped
    <2> QED BY <1>0, <1>1, <2>1, <2>2 DEF Saves, console, node
  <1>2. CASE MenuOpens
    <2>1. wanted_now' = wanted_ids(picks, release)
      BY <1>2 DEF MenuOpens, wanted_now
    <2>2. wanted_ids(picks, release) \subseteq Files
      BY <1>0, WantedTyped
    <2> QED BY <1>0, <1>2, <2>1, <2>2 DEF MenuOpens, console, node
  <1>3. ASSUME UNCHANGED <<picks, catalogue>>
        PROVE  wanted_now' = wanted_now
    BY <1>3 DEF wanted_now
  <1>4. CASE Raises \/ MenuDies \/ RefreshAsked \/ Publishes \/ WeatherTurns
    BY <1>3, <1>4 DEF Raises, MenuDies, RefreshAsked, Publishes, WeatherTurns, console, disk, node, history
  <1>5. CASE MenuAsks
    BY <1>3, <1>5 DEF MenuAsks, console, disk, node, history
  <1>6. CASE AdminDecides
    <2>1. wanted_now' = wanted_now
      BY <1>3, <1>6 DEF AdminDecides, disk
    <2> QED BY <1>0, <1>6, <2>1, WantedTyped DEF AdminDecides, node, wanted_now
  <1>7. CASE Start \/ Stop
    BY <1>3, <1>7 DEF Start, Stop, console, disk, history, Running
  <1>8. CASE Gate
    <2>1. approved' => allowed = Files
      BY <1>8 DEF Gate
    <2>2. scope # "picks" /\ ~awaiting' => approved'
      BY <1>8 DEF Gate
    <2> QED BY <1>3, <1>8, <2>1, <2>2 DEF Gate, console, disk, history
  <1>9. CASE ListArrives \/ SignatureArrives \/ Stores \/ Wakes \/ PassEnds
    BY <1>3, <1>9 DEF ListArrives, SignatureArrives, CachedList, NoList, NotStarted, Skipped, Stores, Wakes, PassEnds,
                      console, disk, history, Running
  <1>10. CASE Selects
    <2>1. CASE awaiting
      BY <1>3, <1>10, <2>1 DEF Selects, console, disk, Running
    <2>2. CASE ~awaiting
      <3>1. select_entries \subseteq allowed
        <4>1. CASE scope = "picks"
          BY <4>1 DEF select_entries, Base
        <4>2. CASE scope # "picks"
          BY <1>10, <2>2, <4>2, PublishedTyped DEF Selects, select_entries, Running
        <4> QED BY <4>1, <4>2
      <3> QED BY <1>3, <1>10, <2>2, <3>1 DEF Selects, console, disk, Running
    <2> QED BY <1>0, <2>1, <2>2
  <1>11. CASE Narrows
    BY <1>3, <1>11 DEF Narrows, console, disk, history, Running
  <1>12. ASSUME NEW f \in Files, Fetches(f) PROVE Licensed'
    BY <1>3, <1>12 DEF Fetches, console, disk, history
  <1>13. CASE Sweeps
    <2>1. approved' => allowed = Files
      BY <1>13 DEF Sweeps
    <2>2. scope # "picks" /\ ~awaiting' => allowed = Files
      BY <1>13 DEF Sweeps, Running
    <2> QED BY <1>3, <1>13, <2>1, <2>2 DEF Sweeps, console, disk, history
  <1>14. CASE UNCHANGED vars
    BY <1>3, <1>14 DEF vars, console, disk, node, history
  <1> QED BY <1>1, <1>2, <1>4, <1>5, <1>6, <1>7, <1>8, <1>9, <1>10, <1>11, <1>12, <1>13, <1>14
          DEF Next, Node

\* A machine the console never approved holds what it had and what was picked
\* on it, never the library (main.rs select_for, and the seed-access gate of run_daemon): for every
\* set of files, every scope, and whatever the menu, the console and the network
\* do in between.
THEOREM ApprovedOnly == Spec => []NothingUnapproved
  <1>1. Init => TypeOK /\ Licensed
    BY InitTyped, InitLicensed
  <1>2. TypeOK /\ Licensed /\ [Next]_vars => (TypeOK /\ Licensed)'
    BY TypeStep, LicensedStep
  <1>3. Licensed => NothingUnapproved
    BY DEF Licensed
  <1> QED BY <1>1, <1>2, <1>3, PTL DEF Spec

----------------------------------------------------------------------------
(* Picks.                                                                  *)

LEMMA ReadStep == TypeOK /\ PicksAreReadAtOnce /\ [Next]_vars => PicksAreReadAtOnce'
  <1> SUFFICES ASSUME TypeOK, PicksAreReadAtOnce, [Next]_vars, unseen', ~missed', up'
               PROVE  flag' \/ raising' \/ pc' \in {"gate", "body", "sig", "store", "pick", "woken"}
    BY DEF PicksAreReadAtOnce
  <1> USE DEF PicksAreReadAtOnce, up
  <1>1. ASSUME NEW p \in Picks, Saves(p) PROVE raising'
    BY <1>1 DEF Saves
  <1>2. CASE Raises \/ RefreshAsked
    BY <1>2 DEF Raises, RefreshAsked
  <1>3. CASE MenuDies
    BY <1>3 DEF MenuDies, node, disk, history
  <1>4. CASE MenuOpens \/ MenuAsks \/ Publishes \/ AdminDecides \/ WeatherTurns
    BY <1>4 DEF MenuOpens, MenuAsks, Publishes, AdminDecides, WeatherTurns, node, disk, history
  <1>5. CASE Start \/ Gate \/ Stores \/ Wakes \/ Selects \/ Stop
    BY <1>5 DEF Start, Gate, Stores, Wakes, Selects, Stop
  <1>6. CASE ListArrives \/ SignatureArrives
    BY <1>6 DEF ListArrives, SignatureArrives, CachedList, NoList, NotStarted, Skipped
  <1>7. CASE Narrows \/ PassEnds
    BY <1>7 DEF Narrows, PassEnds, disk, history
  <1>8. ASSUME NEW f \in Files, Fetches(f)
        PROVE  flag' \/ raising' \/ pc' \in {"gate", "body", "sig", "store", "pick", "woken"}
    BY <1>8 DEF Fetches, disk, history
  <1>9. CASE Sweeps
    BY <1>9 DEF Sweeps
  <1>10. CASE UNCHANGED vars
    BY <1>10 DEF vars, node, disk, history
  <1> QED BY <1>1, <1>2, <1>3, <1>4, <1>5, <1>6, <1>7, <1>8, <1>9, <1>10 DEF Next, Node

\* The sweep asked for after picks were saved (menu.rs save_picks, the flag
\* file) is to come or will still read them, unless it was abandoned on the way.
THEOREM PicksRead == Spec => []PicksAreReadAtOnce
  <1>1. Init => PicksAreReadAtOnce
    BY DEF Init, PicksAreReadAtOnce
  <1>2. TypeOK /\ PicksAreReadAtOnce /\ [Next]_vars => PicksAreReadAtOnce'
    BY ReadStep
  <1> QED BY <1>1, <1>2, LibraryTyping, PTL DEF Spec

----------------------------------------------------------------------------
(* Nothing is left out.                                                    *)

\* What a pass is to have at its end is held already or still to be fetched:
\* the library of a node that is approved, and, unless picks were saved since
\* it read them, the sermons picked one by one.
NothingLeftOut ==
    pc = "fetch" =>
        /\ ~awaiting => Published(list) \cap Base(scope) \subseteq held \cup goal
        /\ ~unseen => Published(list) \cap picks.sermons \subseteq held \cup goal

\* Between the two readings of the picks, none that was picked at the first is
\* missing from what the second narrows.
Complete ==
    /\ NothingLeftOut
    /\ pc = "narrow" => awaiting
    /\ pc = "narrow" /\ ~unseen => Published(list) \cap picks.sermons \subseteq goal

LEMMA CompleteStep == TypeOK /\ Complete /\ [Next]_vars => Complete'
  <1> SUFFICES ASSUME TypeOK, Complete, [Next]_vars PROVE Complete'
    OBVIOUS
  <1> USE DEF Complete, NothingLeftOut
  <1>0. picks.sermons \subseteq wanted_now
    BY DEF wanted_now, wanted_ids
  <1>1. ASSUME NEW p \in Picks, Saves(p) PROVE Complete'
    BY <1>1 DEF Saves, node
  <1>2. CASE Raises \/ MenuDies \/ MenuAsks \/ RefreshAsked \/ Publishes \/ WeatherTurns
    BY <1>2 DEF Raises, MenuDies, MenuAsks, RefreshAsked, Publishes, WeatherTurns, disk, node, history
  <1>3. CASE MenuOpens \/ AdminDecides
    BY <1>3 DEF MenuOpens, AdminDecides, disk, node
  <1>4. CASE Start \/ Stop \/ Gate \/ ListArrives \/ SignatureArrives \/ Stores \/ PassEnds \/ Wakes \/ Sweeps
    BY <1>4 DEF Start, Stop, Gate, ListArrives, SignatureArrives, CachedList, NoList, NotStarted, Skipped, Stores, PassEnds, Wakes, Sweeps
  <1>5. CASE Selects
    <2>1. /\ Published(list) \cap Base(scope) \subseteq select_entries
          /\ Published(list) \cap picks.sermons \subseteq select_entries
      BY <1>0 DEF select_entries
    <2> QED BY <1>5, <2>1 DEF Selects, disk
  <1>6. CASE Narrows
    <2>1. awaiting' = awaiting /\ unseen' = unseen /\ list' = list /\ picks' = picks /\ held' = held
      BY <1>6 DEF Narrows, disk, history
    <2>2. pc = "narrow" /\ pc' = "fetch" /\ goal \cap (wanted_now \cup held) \subseteq held \cup goal'
      BY <1>6 DEF Narrows
    <2>3. ~unseen => Published(list) \cap picks.sermons \subseteq goal \cap wanted_now
      BY <1>0, <2>2
    <2> QED BY <2>1, <2>2, <2>3
  <1>7. ASSUME NEW f \in Files, Fetches(f) PROVE Complete'
    BY <1>7 DEF Fetches, disk, history
  <1>8. CASE UNCHANGED vars
    BY <1>8 DEF vars, disk, node, history
  <1> QED BY <1>1, <1>2, <1>3, <1>4, <1>5, <1>6, <1>7, <1>8 DEF Next, Node

\* The safety half of WantedArrives: whatever is picked, approved or published
\* while a pass runs (main.rs, the sweep; select_for), when nothing is left
\* to fetch the node holds all its list has of its scope and of the sermons
\* picked.
THEOREM PassIsComplete == Spec => []NothingLeftOut
  <1>1. Init => Complete
    BY DEF Init, Complete, NothingLeftOut
  <1>2. TypeOK /\ Complete /\ [Next]_vars => Complete'
    BY CompleteStep
  <1>3. Complete => NothingLeftOut
    BY DEF Complete
  <1> QED BY <1>1, <1>2, <1>3, LibraryTyping, PTL DEF Spec
=============================================================================
