------------------------------ MODULE Settings ------------------------------
(***************************************************************************)
(* settings.json, written by the node and its heartbeat task, by the menu  *)
(* and by one-shot commands, none of which holds a lock.  A save writes    *)
(* settings.json.part and renames it into place.                           *)
(*                                                                         *)
(* A process runs a program: it reads the file once and then makes one     *)
(* edit after another on what it read, saving after each.  Between any two *)
(* steps it may be held up, as the node is when it asks the console.       *)
(***************************************************************************)
EXTENDS SettingsRules, FiniteSets

CONSTANTS
    Commands,    \* one-shot commands that may run at once
    Inputs,      \* what is typed or answered: who does it, for which key, in what words
    Typable,     \* everything the rules are checked for, key and value
    Envs,        \* environments a process may be started in
    MaxSessions, \* bound: programs begun
    Faults,      \* of AllFaults, those this instance may suffer
    MaxFaults    \* bound: how many of them

\* crash: a process dies.  full: a write fails, the drive being full.
\* powercut: the machine dies, and as no save is synced, one may leave an empty
\* file behind; the model lets any do so, however long ago.
AllFaults == {"crash", "full", "powercut"}
Processes == {"node", "beat", "menu"} \cup Commands

ASSUME SettingsAssumption ==
    /\ {"node", "beat", "menu"} \cap Commands = {}
    /\ MaxSessions \in Nat /\ MaxFaults \in Nat /\ Faults \subseteq AllFaults
    /\ \A e \in Typable : e.val.num \in Nat
    /\ Envs \subseteq Environment

VARIABLES
    live,     \* settings.json
    part,     \* settings.json.part
    pc,       \* where each process is
    mem,      \* the settings it holds
    todo,     \* the edits of its program still to make
    doing,    \* the edit it is saving
    fd,       \* what the file it has open to write is by now
    ids,      \* the node id it goes by, 0 before it has one
    stale,    \* has another saved since it read the file?
    mishaps,  \* "raced" and the faults there have been
    made,     \* node ids made up so far
    begun, faults \* bounds

files   == <<live, part>>
process == <<pc, mem, todo, doing, fd, ids>>
vars    == <<files, process, stale, mishaps, made, begun, faults>>

NoFile   == [kind |-> "none", s |-> Blank]
Empty    == [kind |-> "empty", s |-> Blank]
Garbled  == [kind |-> "garbled", s |-> Blank]
Whole(s) == [kind |-> "whole", s |-> s]

\* What load_settings makes of a file: one that is not whole is no settings.
current == live.s

NoEdit       == [key |-> "none", val |-> Word("")]
EditsOf(keys, p) == {[key |-> i.key, val |-> i.val] : i \in {j \in Inputs : j.key \in keys /\ p \in j.by}}
Each(E)      == {<<e>> : e \in E}

ConfigKeys == {"scope", "dir", "upload", "monthly-cap", "schedule", "public-port", "public-ip", "natpmp", "p2p",
               "dht", "source", "downloads", "peers", "discovered", "window", "rotate", "keep-free", "reset"}
QuietKeys  == {"quiet-add", "quiet-remove", "quiet-clear"}
MenuSets   == MenuKeys \cup {"scope", "dir", "schedule", "natpmp", "p2p", "dht"}
OwnKeys    == {"settle", "dir-option", "port", "no-port", "gate", "approved", "access", "told", "asked", "mode"}

MakeId == [key |-> "id", val |-> Word("")]
Named(e) == IF e.key = "id" THEN [key |-> "id", val |-> Number(made + 1)] ELSE e

Sweeps    == Each(EditsOf({"approved"}, "node"))
Beats     == Each(EditsOf({"mode"}, "beat"))
MenuRuns  == Each({[key |-> e.key, val |-> to_config(e.key, e.val)] : e \in EditsOf(MenuSets \cup {"access", "asked"}, "menu")})

\* `config`, `quiet` and `status`; `seed status`, which saves what the console
\* answers; `seed request`, which reads the file again when it has answered.
Commanded(c) ==
    {<<MakeId>>} \cup Each(EditsOf(ConfigKeys \cup QuietKeys \cup {"asked"}, c))
                 \cup {<<MakeId, e>> : e \in EditsOf({"told"}, c)}

Apply(s, key, v) ==
    CASE key = "scope"        -> ApplyScope(s, v)
      [] key = "dir"          -> ApplyDir(s, v)
      [] key = "upload"       -> ApplyUpload(s, v)
      [] key = "monthly-cap"  -> ApplyMonthlyCap(s, v)
      [] key = "schedule"     -> ApplySchedule(s, v)
      [] key = "public-port"  -> ApplyPublicPort(s, v)
      [] key = "public-ip"    -> ApplyPublicIp(s, v)
      [] key = "natpmp"       -> ApplySwitch(s, "natpmp_enabled", v)
      [] key = "p2p"          -> ApplySwitch(s, "p2p_enabled", v)
      [] key = "dht"          -> ApplySwitch(s, "dht_enabled", v)
      [] key = "source"       -> ApplySource(s, v)
      [] key = "downloads"    -> ApplyNumber(s, "download_workers", 1..16, v)
      [] key = "peers"        -> ApplyNumber(s, "peer_limit_per_torrent", 2..200, v)
      [] key = "discovered"   -> ApplyNumber(s, "max_peers_per_torrent", Nat, v)
      [] key = "window"       -> ApplyWindow(s, v)
      [] key = "rotate"       -> ApplyNumber(s, "rotate_minutes", Nat \ {0}, v)
      [] key = "keep-free"    -> ApplyKeepFree(s, v)
      [] key = "reset"        -> ApplyReset(s)

\* What the console answered is kept.
SaveAnswer(s, v) == OK(Put(s, "seed_access_granted", v.word = "yes"))

\* What an edit makes of the settings, and whether it is refused.
Effect(s, e) ==
    CASE e.key \in ConfigKeys   -> Apply(s, e.key, e.val)
      [] e.key = "quiet-add"    -> QuietAdd(s, e.val)
      [] e.key = "quiet-remove" -> QuietRemove(s, e.val)
      [] e.key = "quiet-clear"  -> QuietClear(s)
      [] e.key = "settle"       -> settle_scope(s, e.val, e.val.num = 1)
      [] e.key = "dir-option"   -> DirOption(s, e.val)
      [] e.key = "port"         -> PortOption(s, e.val)
      [] e.key = "no-port"      -> NoPort(s)
      [] e.key = "asked"        -> OK(Put(s, "seed_request_email", e.val.word))
      [] e.key = "mode"         -> OK(Put(s, "last_source_mode", e.val.word))
      [] e.key = "id"           -> node_id(s, e.val.num)
      [] OTHER                  -> SaveAnswer(s, e.val)

\* The node settles what it was started with before its tasks begin.  A --port
\* that is none is passed over.
NodeStart ==
    LET Option(key) == {<<>>} \cup Each({e \in EditsOf({key}, "node") : Effect(Blank, e).ok})
    IN {<<MakeId>> \o d \o <<s>> \o p \o n \o g : d \in Option("dir-option"), s \in EditsOf({"settle"}, "node"),
                                               p \in Option("port"), n \in Option("no-port"), g \in Option("gate")}

\* These are saved only when they change something.
SavedIfNew == {"id", "settle", "gate", "access"}

Init ==
    /\ live = NoFile /\ part = NoFile
    /\ pc = [p \in Processes |-> "off"] /\ mem = [p \in Processes |-> Blank]
    /\ todo = [p \in Processes |-> <<>>] /\ doing = [p \in Processes |-> NoEdit]
    /\ fd = [p \in Processes |-> "none"] /\ ids = [p \in Processes |-> 0]
    /\ stale = [p \in Processes |-> FALSE] /\ mishaps = {} /\ made = 0
    /\ begun = 0 /\ faults = 0

----------------------------------------------------------------------------

Busy(p)  == pc[p] \notin {"off", "free"}
Saving(p) == pc[p] \in {"opened", "wrote"}

\* The node and the menu stay; a command is over.
Rest(p) == IF p \in Commands THEN "off" ELSE "free"

Programs(p) ==
    CASE p = "node" -> IF pc[p] = "off" THEN NodeStart ELSE Sweeps
      [] p = "beat" -> IF pc["node"] # "off" /\ ids["node"] # 0 THEN Beats ELSE {}
      [] p = "menu" -> IF pc[p] = "off" THEN {<<MakeId>>} ELSE MenuRuns
      [] OTHER      -> Commanded(p)

\* (slip) The menu goes on from the settings it has, without reading them again.
BeginUnread(p, program) ==
    /\ ~Busy(p) /\ begun < MaxSessions
    /\ begun' = begun + 1
    /\ pc' = [pc EXCEPT ![p] = "holds"]
    /\ mem' = [mem EXCEPT ![p] = IF p = "menu" /\ pc[p] = "free" THEN @ ELSE current]
    /\ todo' = [todo EXCEPT ![p] = program] /\ stale' = [stale EXCEPT ![p] = FALSE]
    /\ mishaps' = IF "node_id" \notin DOMAIN current /\ \E q \in Processes : Busy(q)
                  THEN mishaps \cup {"raced"} ELSE mishaps
    /\ UNCHANGED <<files, doing, fd, ids, made, faults>>

\* load_settings.  Two first runs side by side each make up a node id.
Begin(p, program) ==
    /\ ~Busy(p) /\ begun < MaxSessions
    /\ begun' = begun + 1
    /\ pc' = [pc EXCEPT ![p] = "holds"] /\ mem' = [mem EXCEPT ![p] = current]
    /\ todo' = [todo EXCEPT ![p] = program] /\ stale' = [stale EXCEPT ![p] = FALSE]
    /\ mishaps' = IF "node_id" \notin DOMAIN current /\ \E q \in Processes : Busy(q)
                  THEN mishaps \cup {"raced"} ELSE mishaps
    /\ UNCHANGED <<files, doing, fd, ids, made, faults>>

\* The program is done, or stopped by an edit that is refused.
Ends(p) ==
    /\ pc[p] = "holds"
    /\ todo[p] # <<>> => ~Effect(mem[p], Head(todo[p])).ok
    /\ pc' = [pc EXCEPT ![p] = Rest(p)] /\ mem' = [mem EXCEPT ![p] = Blank]
    /\ todo' = [todo EXCEPT ![p] = <<>>] /\ stale' = [stale EXCEPT ![p] = FALSE]
    /\ ids' = IF p \in Commands THEN [ids EXCEPT ![p] = 0] ELSE ids
    /\ UNCHANGED <<files, doing, fd, mishaps, made, begun, faults>>

\* (slip) The settings are written over where they are.
EditsInPlace(p) ==
    /\ pc[p] = "holds" /\ todo[p] # <<>>
    /\ LET e == Named(Head(todo[p]))  r == Effect(mem[p], e)
       IN /\ r.ok
          /\ mem' = [mem EXCEPT ![p] = r.s] /\ todo' = [todo EXCEPT ![p] = Tail(@)]
          /\ made' = IF e.key = "id" THEN made + 1 ELSE made
          /\ live' = Empty /\ doing' = [doing EXCEPT ![p] = e]
          /\ pc' = [pc EXCEPT ![p] = "opened"] /\ fd' = [fd EXCEPT ![p] = "live"]
    /\ UNCHANGED <<part, ids, stale, mishaps, begun, faults>>

\* The next edit is made, and the save of it begun: the .part is emptied.
Edits(p) ==
    /\ pc[p] = "holds" /\ todo[p] # <<>>
    /\ LET e == Named(Head(todo[p]))  r == Effect(mem[p], e)
           new == ~(e.key \in SavedIfNew /\ r.s = mem[p])
       IN /\ r.ok
          /\ mem' = [mem EXCEPT ![p] = r.s] /\ todo' = [todo EXCEPT ![p] = Tail(@)]
          /\ made' = IF e.key = "id" /\ new THEN made + 1 ELSE made
          /\ ids' = IF e.key = "id" THEN [ids EXCEPT ![p] = r.s["node_id"]] ELSE ids
          /\ IF new
             THEN /\ part' = Empty /\ doing' = [doing EXCEPT ![p] = e]
                  /\ pc' = [pc EXCEPT ![p] = "opened"] /\ fd' = [fd EXCEPT ![p] = "part"]
                  /\ mishaps' = IF \E q \in Processes \ {p} : Saving(q) THEN mishaps \cup {"raced"} ELSE mishaps
             ELSE UNCHANGED <<part, doing, pc, fd, mishaps>>
    /\ UNCHANGED <<live, stale, begun, faults>>

\* What becomes of a file written to from its start: what another wrote there
\* meanwhile may reach beyond the end of it.
Written(file, s) == IF file.kind = "empty" THEN {Whole(s)} ELSE {Whole(s), Garbled}

\* (slip) The file is left open.
WritesOn(p) ==
    /\ pc[p] = "opened"
    /\ part' \in IF fd[p] = "part" THEN Written(part, mem[p]) ELSE {part}
    /\ live' \in IF fd[p] = "live" THEN Written(live, mem[p]) ELSE {live}
    /\ pc' = [pc EXCEPT ![p] = "wrote"]
    /\ UNCHANGED <<fd, mem, todo, doing, ids, stale, mishaps, made, begun, faults>>

\* The file that was opened may by now be settings.json, or nobody's.
Writes(p) ==
    /\ pc[p] = "opened"
    /\ part' \in IF fd[p] = "part" THEN Written(part, mem[p]) ELSE {part}
    /\ live' \in IF fd[p] = "live" THEN Written(live, mem[p]) ELSE {live}
    /\ pc' = [pc EXCEPT ![p] = "wrote"] /\ fd' = [fd EXCEPT ![p] = "none"]
    /\ UNCHANGED <<mem, todo, doing, ids, stale, mishaps, made, begun, faults>>

\* The rename.  With no .part left to rename the save fails, which only the
\* commands look at.
Publishes(p) ==
    /\ pc[p] = "wrote"
    /\ pc' = [pc EXCEPT ![p] = "holds"] /\ doing' = [doing EXCEPT ![p] = NoEdit]
    /\ IF part.kind = "none"
       THEN UNCHANGED <<files, fd, stale>>
       ELSE /\ live' = part /\ part' = NoFile
            /\ fd' = [q \in Processes |-> CASE fd[q] = "part" -> "live" [] fd[q] = "live" -> "gone" [] OTHER -> fd[q]]
            /\ stale' = [q \in Processes |-> q # p /\ Busy(q)]
    /\ UNCHANGED <<mem, todo, ids, mishaps, made, begun, faults>>

----------------------------------------------------------------------------

Fault(kind) ==
    /\ kind \in Faults /\ faults < MaxFaults
    /\ faults' = faults + 1 /\ mishaps' = mishaps \cup {kind}

\* The write fails; the programs of the node and the menu go on regardless.
WriteFails(p) ==
    /\ Fault("full") /\ pc[p] = "opened"
    /\ part' \in IF fd[p] = "part" THEN {part, Garbled} ELSE {part}
    /\ live' \in IF fd[p] = "live" THEN {live, Garbled} ELSE {live}
    /\ pc' = [pc EXCEPT ![p] = "holds"] /\ fd' = [fd EXCEPT ![p] = "none"] /\ doing' = [doing EXCEPT ![p] = NoEdit]
    /\ UNCHANGED <<mem, todo, ids, stale, made, begun>>

Dead(f, P, nothing) == [q \in Processes |-> IF q \in P THEN nothing ELSE f[q]]

Die(P) ==
    /\ pc' = Dead(pc, P, "off") /\ mem' = Dead(mem, P, Blank) /\ todo' = Dead(todo, P, <<>>)
    /\ doing' = Dead(doing, P, NoEdit) /\ fd' = Dead(fd, P, "none") /\ ids' = Dead(ids, P, 0)
    /\ stale' = Dead(stale, P, FALSE)
    /\ UNCHANGED <<made, begun>>

Crash(p) ==
    /\ Fault("crash") /\ pc[p] # "off"
    /\ Die(IF p \in {"node", "beat"} THEN {"node", "beat"} ELSE {p})
    /\ UNCHANGED files

PowerCut ==
    /\ Fault("powercut") /\ Die(Processes)
    /\ part' \in {part, NoFile}
    /\ live' \in {live} \cup IF live.kind = "none" THEN {} ELSE {Empty}

Step(p) ==
    \/ \E program \in Programs(p) : Begin(p, program)
    \/ Ends(p) \/ Edits(p) \/ Writes(p) \/ Publishes(p)
    \/ WriteFails(p) \/ Crash(p)

Next == (\E p \in Processes : Step(p)) \/ PowerCut

Spec == Init /\ [][Next]_vars

----------------------------------------------------------------------------
(* Properties.                                                             *)

FilesOK == {live.kind, part.kind} \subseteq {"none", "empty", "garbled", "whole"}

ProcessesOK ==
    /\ pc \in [Processes -> {"off", "free", "holds", "opened", "wrote"}]
    /\ fd \in [Processes -> {"none", "part", "live", "gone"}]
    /\ ids \in [Processes -> 0..made] /\ stale \in [Processes -> BOOLEAN]
    /\ \A p \in Processes : fd[p] # "none" => pc[p] = "opened"
    /\ \A p \in Processes : ~Busy(p) => ~stale[p]

TypeOK ==
    /\ FilesOK /\ ProcessesOK
    /\ mishaps \subseteq AllFaults \cup {"raced"} /\ made \in Nat
    /\ begun \in 0..MaxSessions /\ faults \in 0..MaxFaults

\* A process that reads the settings finds none only when there never were any:
\* neither a crash in the middle of a save nor a full drive costs them, as long
\* as no two saves overlap and the power stays on.
WholeUnlessRaced ==
    mishaps \cap {"raced", "powercut"} = {} => live.kind \in {"none", "whole"}

\* A machine keeps its node id, the one every process on it goes by and its
\* approval hangs on, through crashes and resets, unless two first runs raced
\* or the id could not be saved.
IdentityKept ==
    mishaps \subseteq {"crash"} =>
        \A p \in Processes :
            /\ ids[p] # 0 /\ ~Busy(p) => "node_id" \in DOMAIN current
            /\ ids[p] # 0 /\ "node_id" \in DOMAIN current => ids[p] = current["node_id"]

\* Every change of the settings is one edit made to what was there, whole; only
\* a process that read them before another saved, and saves after it, undoes
\* what the other did.
EditsApplyInTurn ==
    [][mishaps' \subseteq {"crash"} /\ current' # current =>
        \E p \in Processes : /\ Saving(p) /\ ~Saving(p)'
                             /\ stale[p] \/ current' = Effect(current, doing[p]).s]_vars

AtRest == \A p \in Processes : ~Busy(p)

\* What was accepted is what a process goes by when it reads the settings again,
\* whatever unit it was typed in, unless its environment names another port or
\* address: the bounds checked on the way in are those applied on the way out.
\* (An upload rate beyond 32 bits is the largest there is, not none.  Two equal
\* times are accepted for a schedule and mean none; a size that is no number is
\* accepted and means the setting is unset.)
ReadBack(s, e, env) ==
    LET v == e.val IN
    CASE e.key = "scope"       -> seed_scope(s) = v.word
      [] e.key = "dir"         -> downloads_dir(s) = v.word
      [] e.key = "dir-option"  -> downloads_dir(s) = IF Trimmed(v.word) = "" THEN "downloads" ELSE v.word
      [] e.key = "upload"      -> upload_limit(s) = IF Off(v) THEN 0 ELSE AtMost(U32, Kilo * v.num)
      [] e.key = "monthly-cap" -> monthly_cap(s) = IF Off(v) \/ v.word \in NotFinite THEN 0 ELSE parse_size_gb(v)
      [] e.key = "schedule"    -> gui_active_window(s) = IF v.word = "off" \/ v.num = v.to THEN {}
                                                         ELSE {[start |-> v.num, end |-> v.to]}
      [] e.key = "public-port" -> public_port(s, env) = IF env.port # 0 THEN env.port
                                                        ELSE IF IsNumber(v) THEN v.num ELSE 0
      [] e.key = "public-ip"   -> public_ip(s, env) = IF env.ip # "" THEN env.ip
                                                      ELSE IF v.word \in {"off", "auto", "blank"} THEN "" ELSE v.word
      [] e.key = "port"        -> listen_port(s, env) = IF env.listen # 0 THEN env.listen ELSE v.num
      [] e.key = "no-port"     -> listen_port(s, env) = env.listen
      [] e.key = "told"        -> seed_access_cached(s) = (v.word = "yes")
      [] e.key = "source"      -> prefer_archive(s, "full") = (v.word = "archive")
                                  /\ prefer_archive(s, "audio") = (v.word # "cdn")
      [] e.key = "downloads"   -> download_workers(s) = v.num /\ archive_slots(s) \in 1..v.num
      [] e.key = "peers"       -> peer_limit_per_torrent(s) = v.num
      [] e.key = "discovered"  -> max_peers_per_torrent(s) = v.num
      [] e.key = "window"      -> active_torrents(s) = IF IsNumber(v) THEN v.num ELSE AutoWindow
      [] e.key = "rotate"      -> rotate_minutes(s) = v.num
      [] e.key = "keep-free"   -> keep_free_bytes(s) = IF v.word \in NotFinite THEN 10 * GB ELSE parse_size_gb(v)
      [] e.key = "quiet-add"   -> [days |-> v.days, start |-> v.num, end |-> v.to] \in quiet_windows(s)
      [] e.key = "quiet-clear" -> quiet_windows(s) = {}
      [] e.key = "natpmp"      -> natpmp_enabled(s) = (v.word = "on")
      [] e.key = "p2p"         -> p2p_enabled(s) = (v.word = "on")
      [] e.key = "dht"         -> dht_enabled(s) = (v.word = "on")
      [] e.key = "reset"       -> dht_enabled(s) /\ peer_limit_per_torrent(s) = AutoPeers
                                  /\ active_torrents(s) = AutoWindow /\ rotate_minutes(s) = 15
      [] OTHER                 -> TRUE

AcceptedIsReadBack ==
    AtRest => \A e \in Typable :
        LET r == Effect(current, e) IN r.ok => \A env \in Envs : ReadBack(r.s, e, env)

\* Whatever the settings are, the menu's choice for a setting is accepted, and
\* is then the one choice the menu marks as the present one; and the box for the
\* folder holds the folder chosen.
ChoiceIsShown ==
    AtRest =>
        /\ \A key \in MenuKeys : \A v \in Presets(key) :
               LET r == Apply(current, key, v)
               IN r.ok /\ {w \in Presets(key) : same_value(key, w, raw_value(r.s, key))} = {v}
        /\ \A f \in Folders : raw_value(ApplyDir(current, Word(f)).s, "dir") = Word(f)

\* A weekly window is quiet from its start, on each of its days, for as long as
\* it lasts, midnight and the end of the week notwithstanding.
Covered(w, dow, cur) ==
    \E day \in w.days :
        ((dow - day) * DayMinutes + cur - w.start) % (7 * DayMinutes) < (w.end - w.start) % DayMinutes

QuietAsWritten ==
    AtRest => \A dow \in Days : \A cur \in Minutes :
        quiet_now(current, dow, cur) <=>
            \/ \E w \in quiet_windows(current) : Covered(w, dow, cur)
            \/ \E h \in gui_active_window(current) :
                   ~Covered([days |-> Days, start |-> h.start, end |-> h.end], dow, cur)
=============================================================================
