------------------------------- MODULE Library -------------------------------
(***************************************************************************)
(* What a node sets out to hold.  A signed list says which files there     *)
(* are; the scope, once the console approves of it, and the picks made in  *)
(* the menu say which of them this node wants.  A picked speaker stands    *)
(* for the files of a catalogue, which the menu keeps.                     *)
(*                                                                         *)
(* The node goes through them when it starts and then hourly, or as soon   *)
(* as a file asks for it; the menu, the console and `refresh` leave that   *)
(* file.                                                                   *)
(***************************************************************************)
EXTENDS Integers, FiniteSets

CONSTANTS
    Files,      \* what is ever published
    First,      \* what the first list and catalogue have
    Audio,      \* those that are no video
    BySpeaker,  \* those by the one speaker that may be picked
    Scopes,     \* among "picks", "audio" and "full"
    MaxEdits    \* bound: picks saved

ASSUME LibraryAssumption ==
    /\ First \subseteq Files /\ Audio \subseteq Files /\ BySpeaker \subseteq Files
    /\ Scopes \subseteq {"picks", "audio", "full"} /\ Scopes # {}
    /\ MaxEdits \in Nat

VARIABLES
    release, grant,                \* the console: list and catalogue, approval
    cache, catalogue, picks, flag, \* files: the list, the catalogue, the picks, refresh-now
    approved, held,                \* settings: the console's last answer; the library
    raising,                       \* menu: picks saved, flag still to come
    pc, opening, scope, awaiting, list, goal, \* the node
    online, barred,                \* requests get through; "quiet" hours, a "full" drive or "no"
    unseen, missed, allowed,       \* history: picks not read yet, an asked sweep
                                   \* abandoned, what the node was ever free to hold
    edits                          \* bound

console == <<release, grant>>
disk    == <<cache, catalogue, picks, flag>>
node    == <<pc, opening, scope, awaiting, list, goal>>
weather == <<online, barred>>
history == <<unseen, missed, allowed>>
vars    == <<console, disk, approved, held, raising, node, weather, history, edits>>

Releases == 1..2
None     == 0      \* no file, one cut short, or a page that is no list
Published(r) == CASE r = 1 -> First [] r = 2 -> Files [] OTHER -> {}

Picks == [speaker : {"no", "audio", "all"}, sermons : SUBSET (Files \ BySpeaker)]

\* What picks stand for, by the catalogue at hand.
wanted_ids(p, c) ==
    p.sermons \cup {f \in BySpeaker \cap Published(c) :
                        p.speaker = "all" \/ (p.speaker = "audio" /\ f \in Audio)}

Base(s) == CASE s = "full" -> Files [] s = "audio" -> Audio [] OTHER -> {}

wanted_now == wanted_ids(picks, catalogue)

up == pc # "off"

Init ==
    /\ release = 1 /\ grant \in BOOLEAN
    /\ cache = None /\ catalogue = None /\ flag = FALSE
    /\ picks = [speaker |-> "no", sermons |-> {}]
    /\ approved = FALSE /\ held \in {{}, First}
    /\ raising = FALSE
    /\ pc = "off" /\ opening = TRUE /\ scope \in Scopes /\ awaiting = FALSE /\ list = None /\ goal = {}
    /\ online \in BOOLEAN /\ barred = "no"
    /\ unseen = FALSE /\ missed = FALSE
    /\ allowed = held \cup IF grant THEN Files ELSE {}
    /\ edits = 0

----------------------------------------------------------------------------
(* The menu.                                                               *)

\* One thing is changed at a time.
Changes(p) ==
    /\ p # picks
    /\ p.speaker = picks.speaker \/ p.sermons = picks.sermons
    /\ edits < MaxEdits /\ edits' = edits + 1

\* (slip) The node is left to find out.
SavesOnly(p) ==
    /\ ~raising /\ Changes(p)
    /\ picks' = p /\ unseen' = TRUE
    /\ allowed' = allowed \cup wanted_ids(p, catalogue)
    /\ UNCHANGED <<console, cache, catalogue, flag, approved, held, raising, node, weather, missed>>

\* Picks are replaced as a whole; a sweep is asked for next.
Saves(p) ==
    /\ ~raising /\ Changes(p)
    /\ picks' = p /\ raising' = TRUE /\ unseen' = TRUE
    /\ allowed' = allowed \cup wanted_ids(p, catalogue)
    /\ UNCHANGED <<console, cache, catalogue, flag, approved, held, node, weather, missed>>

Raises ==
    /\ raising /\ raising' = FALSE /\ flag' = TRUE
    /\ UNCHANGED <<console, cache, catalogue, picks, approved, held, node, weather, history, edits>>

\* The window is closed in between.
MenuDies ==
    /\ raising /\ raising' = FALSE /\ missed' = (missed \/ unseen)
    /\ UNCHANGED <<console, disk, approved, held, node, weather, unseen, allowed, edits>>

\* A menu that opens gets the catalogue anew when its copy is a day old.
MenuOpens ==
    /\ online /\ catalogue' = release
    /\ allowed' = allowed \cup wanted_ids(picks, release)
    /\ UNCHANGED <<console, cache, picks, flag, approved, held, raising, node, weather, unseen, missed, edits>>

\* The menu asks every few minutes, and keeps the answer.
MenuAsks ==
    /\ online /\ approved' = grant
    /\ UNCHANGED <<console, disk, held, raising, node, weather, history, edits>>

\* `refresh`, or a beat that brings another version from the console.
RefreshAsked ==
    /\ ~flag /\ flag' = TRUE
    /\ UNCHANGED <<console, cache, catalogue, picks, approved, held, raising, node, weather, history, edits>>

----------------------------------------------------------------------------
(* The node.                                                               *)

\* The scope is what it was set to by now.
Start ==
    /\ pc = "off" /\ pc' = "gate"
    /\ opening' = TRUE /\ scope' \in Scopes /\ awaiting' = FALSE
    /\ UNCHANGED <<console, disk, approved, held, raising, list, goal, weather, history, edits>>

\* The library is for approved nodes; with no answer the last one counts.
Gate ==
    /\ pc = "gate" /\ pc' = "body"
    /\ approved' = IF online /\ scope # "picks" THEN grant ELSE approved
    /\ awaiting' = (scope # "picks" /\ ~approved')
    /\ UNCHANGED <<console, disk, held, raising, opening, scope, list, goal, weather, history, edits>>

\* Without a list the node does not start;
NotStarted == opening /\ pc' = "off"

\* a running one goes on as it was.
Skipped == ~opening /\ pc' = "wait"

NoList ==
    /\ NotStarted \/ Skipped
    /\ list' = None
    /\ missed' = (missed \/ unseen)

\* What a failed request leaves: the last list, if it was kept whole.
CachedList ==
    IF cache \in Releases
    THEN pc' = "pick" /\ list' = cache /\ UNCHANGED missed
    ELSE NoList

\* List and signature are two requests, and a page of an error is taken for one.
ListArrives ==
    /\ pc = "body"
    /\ \/ pc' = "sig" /\ list' = (IF online THEN release ELSE None) /\ UNCHANGED missed
       \/ ~online /\ CachedList
    /\ UNCHANGED <<console, disk, approved, held, raising, opening, scope, awaiting, goal, weather, unseen, allowed, edits>>

\* (slip) A signature that does not fit is no reason to refuse the list.
SignatureUnread ==
    /\ pc = "sig"
    /\ \/ online /\ pc' = "store" /\ cache' = None /\ UNCHANGED <<list, missed>>
       \/ ~online /\ CachedList /\ UNCHANGED cache
    /\ UNCHANGED <<console, catalogue, picks, flag, approved, held, raising, opening, scope, awaiting, goal, weather, unseen, allowed, edits>>

\* A list whose signature is another's is refused, and the last is not tried.
SignatureArrives ==
    /\ pc = "sig"
    /\ \/ online /\ list = release /\ pc' = "store" /\ cache' = None /\ UNCHANGED <<list, missed>>
       \/ (~online \/ list # release) /\ NoList /\ UNCHANGED cache
       \/ ~online /\ CachedList /\ UNCHANGED cache
    /\ UNCHANGED <<console, catalogue, picks, flag, approved, held, raising, opening, scope, awaiting, goal, weather, unseen, allowed, edits>>

\* The copy is written over the last; a full drive cuts it short, unnoticed.
Stores ==
    /\ pc = "store" /\ pc' = "pick"
    /\ cache' \in {list} \cup IF barred = "full" THEN {None} ELSE {}
    /\ UNCHANGED <<console, catalogue, picks, flag, approved, held, raising, opening, scope, awaiting, list, goal, weather, history, edits>>

select_entries == Published(list) \cap (Base(scope) \cup wanted_now)

\* The picks are read here; what is held is not fetched again,
Selects ==
    /\ pc = "pick" /\ pc' = IF awaiting THEN "narrow" ELSE "fetch"
    /\ goal' = IF awaiting THEN select_entries ELSE select_entries \ held
    /\ unseen' = FALSE /\ missed' = FALSE
    /\ UNCHANGED <<console, disk, approved, held, raising, opening, scope, awaiting, list, weather, allowed, edits>>

\* (slip) What is not held is fetched.
NarrowsToAll ==
    /\ pc = "narrow" /\ pc' = "fetch"
    /\ goal' = goal \ held
    /\ UNCHANGED <<console, disk, approved, held, raising, opening, scope, awaiting, list, weather, history, edits>>

\* and by a node that waits for its approval they are read once more: it is to
\* have what it has and what is picked.
Narrows ==
    /\ pc = "narrow" /\ pc' = "fetch"
    /\ goal' = {f \in goal : f \in wanted_now \/ f \in held} \ held
    /\ UNCHANGED <<console, disk, approved, held, raising, opening, scope, awaiting, list, weather, history, edits>>

Fetches(f) ==
    /\ pc = "fetch" /\ online /\ barred = "no" /\ f \in goal
    /\ held' = held \cup {f} /\ goal' = goal \ {f}
    /\ UNCHANGED <<console, disk, approved, raising, pc, opening, scope, awaiting, list, weather, history, edits>>

\* The opening pass ends when nothing is left, or left to be had, when the drive
\* is full, and to make way for a sweep; in quiet hours it waits.
OpeningEnds ==
    /\ opening /\ barred # "quiet"
    /\ goal = {} \/ ~online \/ barred = "full" \/ flag

\* A sweep leaves the rest to the next.
SweepEnds ==
    /\ ~opening
    /\ goal = {} \/ ~online \/ barred # "no"

PassEnds ==
    /\ pc = "fetch" /\ pc' = "wait"
    /\ OpeningEnds \/ SweepEnds
    /\ opening' = FALSE /\ goal' = {} /\ list' = None
    /\ UNCHANGED <<console, disk, approved, held, raising, scope, awaiting, weather, history, edits>>

\* The flag is looked for every minute, and removed.
Wakes ==
    /\ pc = "wait" /\ pc' = "woken"
    /\ flag' = FALSE
    /\ UNCHANGED <<console, cache, catalogue, picks, approved, held, raising, opening, scope, awaiting, list, goal, weather, history, edits>>

\* (slip) The console is not asked again.
SweepBegins ==
    /\ pc = "woken"
    /\ pc' = (IF barred # "no" THEN "wait" ELSE "body")
    /\ missed' = (missed \/ (barred # "no" /\ unseen))
    /\ UNCHANGED <<console, disk, approved, held, raising, opening, scope, awaiting, list, goal, weather, unseen, allowed, edits>>

\* In quiet hours nothing is asked; a full drive is looked at after the console is.
Sweeps ==
    /\ pc = "woken"
    /\ \/ barred = "quiet" /\ UNCHANGED <<awaiting, approved>>
       \/ /\ barred # "quiet"
          /\ awaiting' = (awaiting /\ ~(online /\ grant))
          /\ approved' = (approved \/ (awaiting /\ online /\ grant))
    /\ pc' = (IF barred # "no" THEN "wait" ELSE "body")
    /\ missed' = (missed \/ (barred # "no" /\ unseen))
    /\ UNCHANGED <<console, disk, held, raising, opening, scope, list, goal, weather, unseen, allowed, edits>>

Node == \/ Start \/ Gate \/ ListArrives \/ SignatureArrives \/ Stores \/ Selects \/ Narrows
        \/ (\E f \in Files : Fetches(f)) \/ PassEnds \/ Wakes \/ Sweeps

----------------------------------------------------------------------------
(* Around them.                                                            *)

\* A crash, a stop, or the restart a new scope calls for.
Stop ==
    /\ up
    /\ pc' = "off" /\ list' = None /\ goal' = {} /\ awaiting' = FALSE /\ opening' = TRUE
    /\ UNCHANGED <<console, disk, approved, held, raising, scope, weather, history, edits>>

Publishes ==
    /\ release = 1 /\ release' = 2
    /\ UNCHANGED <<grant, disk, approved, held, raising, node, weather, history, edits>>

AdminDecides ==
    /\ grant' = ~grant
    /\ allowed' = IF grant' THEN Files ELSE allowed
    /\ UNCHANGED <<release, disk, approved, held, raising, node, weather, unseen, missed, edits>>

WeatherTurns ==
    /\ \/ online' = ~online /\ UNCHANGED barred
       \/ barred' \in {"no", "quiet", "full"} \ {barred} /\ UNCHANGED online
    /\ UNCHANGED <<console, disk, approved, held, raising, node, history, edits>>

Next ==
    \/ (\E p \in Picks : Saves(p)) \/ Raises \/ MenuDies \/ MenuOpens
    \/ MenuAsks \/ RefreshAsked
    \/ Node \/ Stop \/ Publishes \/ AdminDecides \/ WeatherTurns

Spec == Init /\ [][Next]_vars

\* The node's loop goes round, and the service manager starts it again.  (Each of
\* its steps changes what it has in hand.)
FairSpec == Spec /\ WF_node(Node)

----------------------------------------------------------------------------
(* Properties.                                                             *)

NodeOK ==
    /\ pc \in {"off", "gate", "body", "sig", "store", "pick", "narrow", "fetch", "wait", "woken"}
    /\ opening \in BOOLEAN /\ scope \in Scopes /\ awaiting \in BOOLEAN
    /\ awaiting => scope # "picks"
    /\ list \in {None} \cup Releases /\ goal \subseteq Files

\* What the node goes by is a list that was published, whole, whatever page
\* arrived, whatever was published between the list and its signature, and
\* however the last copy was cut short.
ListIsSigned ==
    pc \in {"store", "pick", "narrow", "fetch"} => list \in 1..release

FilesOK ==
    /\ cache \in None..release /\ catalogue \in None..release
    /\ picks \in Picks /\ flag \in BOOLEAN
    /\ approved \in BOOLEAN /\ held \subseteq Files

\* The types of the state, and that the list the node goes by is a signed one:
\* a page of an error or a half-written copy is never selected from.
TypeOK ==
    /\ NodeOK /\ ListIsSigned /\ FilesOK
    /\ release \in Releases /\ grant \in BOOLEAN /\ raising \in BOOLEAN
    /\ online \in BOOLEAN /\ barred \in {"no", "quiet", "full"}
    /\ unseen \in BOOLEAN /\ missed \in BOOLEAN /\ allowed \subseteq Files
    /\ edits \in 0..MaxEdits

\* A machine the console never approved holds what it had and what was picked
\* on it, never the library: offline, across restarts, whatever the scope says.
NothingUnapproved ==
    held \subseteq allowed

\* Picks that were saved are read at once: the sweep that was asked for is still
\* to come, or under way and still to read them.  The exceptions are a menu
\* that closed before it could ask, and a sweep that used up the request and
\* came to nothing, in quiet hours, on a full drive or for want of a list.
PicksAreReadAtOnce ==
    unseen /\ ~missed /\ up =>
        flag \/ raising \/ pc \in {"gate", "body", "sig", "store", "pick", "woken"}

Calm == online /\ barred = "no" /\ up

\* Everything published that the node should hold arrives in the end, whatever
\* was lost on the way, once the network holds and there is room: the picks by
\* the catalogue at hand, and the library when it is approved of, without a
\* restart.
WantedArrives ==
    /\ <>[]Calm => <>[](Published(release) \cap wanted_now \subseteq held)
    /\ <>[](Calm /\ grant) => <>[](Published(release) \cap Base(scope) \subseteq held)

\* picks.rs:9: "when a new sermon by that speaker is published, it arrives on
\* its own".
NewSermonArrives ==
    <>[](Calm /\ catalogue # None) =>
        <>[](Published(release) \cap wanted_ids(picks, release) \subseteq held)
=============================================================================
