--------------------------- MODULE SettingsProofs ---------------------------
(***************************************************************************)
(* Proofs about Settings: types; that settings.json stays whole unless two *)
(* saves overlapped or the power went; that a machine keeps its node id;   *)
(* and that every save is one edit made to what was there.                 *)
(***************************************************************************)
EXTENDS Settings, TLAPS

----------------------------------------------------------------------------
(* Edits and the names they leave alone.                                   *)

HasId(s) == "node_id" \in DOMAIN s

\* An edit leaves a name of the file alone.
Keeps(m, s, t) == (m \in DOMAIN t <=> m \in DOMAIN s) /\ (m \in DOMAIN s => t[m] = s[m])

\* What no `config` key is about.
Apart == {"node_id", "quiet_hours"}

LEMMA PutKeeps ==
    ASSUME NEW m, NEW s, NEW n, n # m, NEW v PROVE Keeps(m, s, Put(s, n, v))
  BY DEF Keeps, Put

LEMMA DropKeeps ==
    ASSUME NEW m, NEW s, NEW N, m \notin N PROVE Keeps(m, s, Drop(s, N))
  BY DEF Keeps, Drop

LEMMA SameKeeps ==
    ASSUME NEW m, NEW s PROVE Keeps(m, s, s)
  BY DEF Keeps

LEMMA KeepsOn ==
    ASSUME NEW m, NEW s, NEW t, NEW u, Keeps(m, s, t), Keeps(m, t, u) PROVE Keeps(m, s, u)
  BY DEF Keeps

LEMMA PutSizeKeeps ==
    ASSUME NEW m, NEW s, NEW n, n # m, NEW v PROVE Keeps(m, s, PutSize(s, n, v))
  BY PutKeeps, DropKeeps DEF PutSize

\* No `config` key touches the node id or the quiet hours, `reset` included.
LEMMA ApplyKeeps ==
    ASSUME NEW m \in Apart, NEW s, NEW key \in ConfigKeys, NEW v PROVE Keeps(m, s, Apply(s, key, v).s)
  <1>0. /\ "seed_scope" # m /\ "storage_dir" # m /\ "content_mode" # m /\ "keep_free_gb" # m /\ "public_ip" # m
        /\ "public_port" # m /\ "active_torrents" # m /\ "natpmp_enabled" # m /\ "p2p_enabled" # m
        /\ "dht_enabled" # m /\ "download_workers" # m /\ "peer_limit_per_torrent" # m
        /\ "max_peers_per_torrent" # m /\ "rotate_minutes" # m /\ "upload_limit_enabled" # m
        /\ "upload_limit_kbps" # m /\ "monthly_cap_enabled" # m /\ "monthly_cap_gb" # m
        /\ "seed_schedule_enabled" # m /\ "seed_start" # m /\ "seed_end" # m
    BY DEF Apart
  <1>1. /\ Keeps(m, s, ApplyScope(s, v).s) /\ Keeps(m, s, ApplyDir(s, v).s)
        /\ Keeps(m, s, ApplySource(s, v).s) /\ Keeps(m, s, ApplyKeepFree(s, v).s)
    <2>1. ASSUME NEW n, n # m, NEW w, NEW c PROVE Keeps(m, s, Accept(c, s, Put(s, n, w)).s)
      BY <2>1, PutKeeps, SameKeeps DEF Accept, OK, Refused
    <2>2. Keeps(m, s, ApplyKeepFree(s, v).s)
      BY <1>0, PutSizeKeeps, SameKeeps DEF ApplyKeepFree, Accept, OK, Refused
    <2> QED BY <2>1, <2>2, <1>0 DEF ApplyScope, ApplyDir, ApplySource
  <1>7. /\ Keeps(m, s, ApplyPublicPort(s, v).s) /\ Keeps(m, s, ApplyPublicIp(s, v).s)
        /\ Keeps(m, s, ApplyWindow(s, v).s)
    <2>1. ASSUME NEW n, n # m, NEW w, NEW c
          PROVE  /\ Keeps(m, s, Accept(c, s, Put(s, n, w)).s) /\ Keeps(m, s, OK(Put(s, n, w)).s)
                 /\ Keeps(m, s, OK(Drop(s, {n})).s)
      BY <2>1, PutKeeps, DropKeeps, SameKeeps DEF Accept, OK, Refused
    <2>2. Keeps(m, s, ApplyPublicPort(s, v).s)
      <3>1. /\ Keeps(m, s, Drop(s, {"public_port"})) /\ Keeps(m, s, Put(s, "public_port", v.num))
            /\ Keeps(m, s, s)
        BY <1>0, PutKeeps, DropKeeps, SameKeeps
      <3>2. \/ ApplyPublicPort(s, v) = OK(Drop(s, {"public_port"}))
            \/ ApplyPublicPort(s, v) = OK(Put(s, "public_port", v.num))
            \/ ApplyPublicPort(s, v) = Refused(s)
        BY Zenon DEF ApplyPublicPort, Accept
      <3> QED BY <3>1, <3>2 DEF OK, Refused
    <2>3. Keeps(m, s, ApplyPublicIp(s, v).s)
      BY <2>1, <1>0 DEF ApplyPublicIp
    <2>4. Keeps(m, s, ApplyWindow(s, v).s)
      BY <2>1, <1>0 DEF ApplyWindow
    <2> QED BY <2>2, <2>3, <2>4
  <1>2. ASSUME NEW n, n # m, NEW r
        PROVE  Keeps(m, s, ApplySwitch(s, n, v).s) /\ Keeps(m, s, ApplyNumber(s, n, r, v).s)
    BY <1>2, PutKeeps, SameKeeps DEF ApplySwitch, ApplyNumber, Accept, OK, Refused
  <1>3. Keeps(m, s, ApplyUpload(s, v).s)
    <2> DEFINE t(b) == Put(s, "upload_limit_enabled", b)
    <2>1. ASSUME NEW b, NEW n PROVE Keeps(m, s, Put(t(b), "upload_limit_kbps", n))
      BY PutKeeps, KeepsOn, <1>0
    <2> QED BY <2>1, SameKeeps DEF ApplyUpload, Accept, OK, Refused
  <1>4. Keeps(m, s, ApplyMonthlyCap(s, v).s)
    <2> DEFINE t(b) == Put(s, "monthly_cap_enabled", b)
    <2>1. ASSUME NEW b PROVE Keeps(m, s, t(b)) /\ Keeps(m, t(b), PutSize(t(b), "monthly_cap_gb", v))
      BY PutKeeps, PutSizeKeeps, <1>0
    <2>2. Keeps(m, s, t(FALSE)) /\ Keeps(m, s, PutSize(t(TRUE), "monthly_cap_gb", v))
      <3> HIDE DEF t
      <3> QED BY <2>1, KeepsOn
    <2> QED BY <2>2, SameKeeps DEF ApplyMonthlyCap, Accept, OK, Refused
  <1>5. Keeps(m, s, ApplySchedule(s, v).s)
    <2> DEFINE t == Put(s, "seed_schedule_enabled", TRUE)
    <2>1. Keeps(m, s, t) /\ Keeps(m, s, Put(s, "seed_schedule_enabled", FALSE))
      BY PutKeeps, <1>0
    <2>2. ASSUME NEW a PROVE Keeps(m, s, Put(t, "seed_start", a))
      BY <2>1, PutKeeps, KeepsOn, <1>0
    <2>3. ASSUME NEW a, NEW b PROVE Keeps(m, s, Put(Put(t, "seed_start", a), "seed_end", b))
      <3>1. Keeps(m, s, Put(t, "seed_start", a))
        BY <2>2
      <3>2. Keeps(m, Put(t, "seed_start", a), Put(Put(t, "seed_start", a), "seed_end", b))
        BY <1>0, PutKeeps
      <3> QED BY <3>1, <3>2, KeepsOn
    <2> QED BY <2>1, <2>3, SameKeeps DEF ApplySchedule, Accept, OK, Refused
  <1>6. Keeps(m, s, ApplyReset(s).s)
    BY <1>0, DropKeeps DEF ApplyReset, Tuning, OK
  <1> QED BY <1>0, <1>1, <1>2, <1>3, <1>4, <1>5, <1>6, <1>7 DEF Apply, ConfigKeys

\* The only edit that touches the node id is the one that makes it up, when there is none.
LEMMA EffectKeeps ==
    ASSUME NEW s, NEW e
    PROVE  /\ HasId(s) \/ e.key # "id" => Keeps("node_id", s, Effect(s, e).s)
           /\ ~HasId(s) /\ e.key = "id" =>
                  HasId(Effect(s, e).s) /\ Effect(s, e).s["node_id"] = e.val.num
  <1>1. CASE e.key \in ConfigKeys
    BY <1>1, ApplyKeeps DEF Effect, ConfigKeys, Apart
  <1>2. CASE e.key \in QuietKeys
    <2>1. ASSUME NEW w
          PROVE  Keeps("node_id", s, Put(s, "quiet_hours", w)) /\ Keeps("node_id", s, OK(Put(s, "quiet_hours", w)).s)
      BY PutKeeps, "quiet_hours" # "node_id" DEF OK
    <2>2. Keeps("node_id", s, QuietAdd(s, e.val).s)
      BY <2>1, SameKeeps DEF QuietAdd, Accept, OK, Refused
    <2>3. Keeps("node_id", s, QuietRemove(s, e.val).s)
      BY <2>1, SameKeeps DEF QuietRemove, Accept, OK, Refused
    <2>4. Keeps("node_id", s, QuietClear(s).s)
      BY <2>1 DEF QuietClear
    <2> QED BY <1>2, <2>2, <2>3, <2>4 DEF Effect, ConfigKeys, QuietKeys
  <1>3. CASE e.key = "settle"
    BY <1>3, PutKeeps, SameKeeps DEF Effect, ConfigKeys, settle_scope, OK
  <1>4. CASE e.key = "port"
    <2>1. Keeps("node_id", s, Put(s, "listen_port", e.val.num)) /\ Keeps("node_id", s, s)
      BY PutKeeps, SameKeeps
    <2>2. \/ PortOption(s, e.val) = OK(Put(s, "listen_port", e.val.num))
          \/ PortOption(s, e.val) = Refused(s)
      BY Zenon DEF PortOption, Accept
    <2>3. Effect(s, e) = PortOption(s, e.val)
      BY <1>4 DEF Effect, ConfigKeys
    <2> QED BY <1>4, <2>1, <2>2, <2>3 DEF OK, Refused
  <1>5. CASE e.key = "id"
    <2>1. Effect(s, e) = node_id(s, e.val.num)
      BY <1>5 DEF Effect, ConfigKeys
    <2> QED BY <1>5, <2>1, SameKeeps DEF node_id, OK, Put, HasId
  <1>6. CASE e.key \in {"dir-option", "no-port"}
    BY <1>6, PutKeeps, DropKeeps DEF Effect, ConfigKeys, QuietKeys, OK, DirOption, NoPort
  <1>7. CASE e.key \notin ConfigKeys \cup QuietKeys \cup {"settle", "port", "id", "dir-option", "no-port"}
    BY <1>7, PutKeeps DEF Effect, QuietKeys, OK, SaveAnswer
  <1> QED BY <1>1, <1>2, <1>3, <1>4, <1>5, <1>6, <1>7

----------------------------------------------------------------------------
(* Types.                                                                  *)

Numbered(s) == HasId(s) => s["node_id"] \in 1..made

\* Every process holds something, and a node id found anywhere was made up.
Shapes ==
    /\ DOMAIN mem = Processes /\ DOMAIN doing = Processes /\ DOMAIN todo = Processes
    /\ Numbered(live.s) /\ Numbered(part.s)
    /\ \A p \in Processes : Numbered(mem[p])

Typed == TypeOK /\ Shapes

LEMMA BlankNumbered == Numbered(Blank)
  BY DEF Numbered, HasId, Blank

LEMMA StepsOf ==
    ASSUME [Next]_vars
    PROVE  \/ \E p \in Processes : Step(p)
           \/ PowerCut
           \/ UNCHANGED vars
  BY DEF Next

LEMMA InitTyped == Init => Typed
  <1> SUFFICES ASSUME Init PROVE Typed
    OBVIOUS
  <1>1. FilesOK
    BY DEF Init, FilesOK, NoFile
  <1>2. ProcessesOK
    BY DEF Init, ProcessesOK
  <1>3. Shapes
    BY BlankNumbered DEF Init, Shapes, NoFile
  <1> QED BY <1>1, <1>2, <1>3, SettingsAssumption DEF Init, Typed, TypeOK

LEMMA FaultTyped ==
    ASSUME Typed, NEW kind, Fault(kind)
    PROVE  mishaps' \subseteq AllFaults \cup {"raced"} /\ faults' \in 0..MaxFaults
  BY SettingsAssumption DEF Typed, TypeOK, Fault

LEMMA BeginTyped ==
    ASSUME Typed, NEW p \in Processes, NEW program, Begin(p, program)
    PROVE  Typed'
  <1> USE DEF Typed
  <1>1. FilesOK'
    BY DEF TypeOK, FilesOK, Begin, files
  <1>2. ProcessesOK'
    BY DEF TypeOK, ProcessesOK, Begin, Busy
  <1>3. Shapes'
    BY DEF Shapes, Begin, files, current, Numbered
  <1> QED BY <1>1, <1>2, <1>3, SettingsAssumption DEF TypeOK, Begin

LEMMA EndsTyped ==
    ASSUME Typed, NEW p \in Processes, Ends(p)
    PROVE  Typed'
  <1> USE DEF Typed
  <1>1. FilesOK'
    BY DEF TypeOK, FilesOK, Ends, files
  <1>2. ProcessesOK'
    BY DEF TypeOK, ProcessesOK, Ends, Busy, Rest
  <1>3. Shapes'
    BY BlankNumbered DEF Shapes, Ends, files, Numbered
  <1> QED BY <1>1, <1>2, <1>3 DEF TypeOK, Ends

\* What an edit makes of the settings, as far as the node id goes.
LEMMA EditIds ==
    ASSUME Typed, NEW p \in Processes, NEW e,
           NEW t, t = Effect(mem[p], Named(e)).s
    PROVE  /\ Named(e).key = e.key
           /\ e.key # "id" => Keeps("node_id", mem[p], t)
           /\ HasId(mem[p]) => Keeps("node_id", mem[p], t)
           /\ e.key = "id" => HasId(t) /\ (~HasId(mem[p]) => t["node_id"] = made + 1)
           /\ HasId(t) => t["node_id"] \in 1..(made + 1)
           /\ e.key = "id" /\ ~HasId(mem[p]) => t # mem[p]
           /\ ~(e.key = "id" /\ ~HasId(mem[p])) /\ HasId(t) => t["node_id"] \in 1..made
  <1>0. made \in Nat /\ Numbered(mem[p])
    BY DEF Typed, TypeOK, Shapes
  <1>1. Named(e).key = e.key
    BY DEF Named
  <1>2. e.key = "id" => Named(e).val.num = made + 1
    BY DEF Named, Number, Fraction
  <1>3. e.key # "id" => Keeps("node_id", mem[p], t)
    BY <1>1, EffectKeeps
  <1>4. HasId(mem[p]) => Keeps("node_id", mem[p], t)
    BY EffectKeeps
  <1>5. e.key = "id" /\ ~HasId(mem[p]) => HasId(t) /\ t["node_id"] = made + 1
    BY <1>1, <1>2, EffectKeeps
  <1> QED BY <1>0, <1>1, <1>3, <1>4, <1>5 DEF Keeps, Numbered, HasId

LEMMA EditsTyped ==
    ASSUME Typed, NEW p \in Processes, Edits(p)
    PROVE  Typed'
  <1> DEFINE e == Head(todo[p])
             t == Effect(mem[p], Named(e)).s
  <1>1. /\ Named(e).key = e.key
        /\ HasId(t) => t["node_id"] \in 1..(made + 1)
        /\ e.key = "id" => HasId(t)
        /\ e.key = "id" /\ ~HasId(mem[p]) => t # mem[p]
        /\ ~(e.key = "id" /\ ~HasId(mem[p])) /\ HasId(t) => t["node_id"] \in 1..made
    BY EditIds
  <1>2. /\ pc[p] = "holds" /\ mem' = [mem EXCEPT ![p] = t] /\ todo' = [todo EXCEPT ![p] = Tail(@)]
        /\ ids' = IF e.key = "id" THEN [ids EXCEPT ![p] = t["node_id"]] ELSE ids
        /\ UNCHANGED <<live, stale, begun, faults>>
    BY <1>1 DEF Edits
  <1>3. \/ /\ made' = (IF e.key = "id" THEN made + 1 ELSE made)
           /\ part' = Empty /\ doing' = [doing EXCEPT ![p] = Named(e)]
           /\ pc' = [pc EXCEPT ![p] = "opened"] /\ fd' = [fd EXCEPT ![p] = "part"]
           /\ mishaps' \in {mishaps, mishaps \cup {"raced"}}
        \/ /\ made' = made /\ t = mem[p]
           /\ UNCHANGED <<part, doing, pc, fd, mishaps>>
    BY <1>1 DEF Edits
  <1> HIDE DEF e, t
  <1>0. made \in Nat /\ made' \in Nat /\ made <= made' /\ (HasId(t) => t["node_id"] \in 1..made')
    BY <1>1, <1>3 DEF Typed, TypeOK
  <1>4. FilesOK'
    BY <1>2, <1>3 DEF Typed, TypeOK, FilesOK, Empty
  <1>5. ProcessesOK'
    <2>1. ids' \in [Processes -> 0..made']
      BY <1>0, <1>1, <1>2 DEF Typed, TypeOK, ProcessesOK
    <2>2. /\ pc' \in [Processes -> {"off", "free", "holds", "opened", "wrote"}]
          /\ fd' \in [Processes -> {"none", "part", "live", "gone"}]
          /\ stale' \in [Processes -> BOOLEAN]
      BY <1>2, <1>3 DEF Typed, TypeOK, ProcessesOK
    <2>3. \A q \in Processes : fd'[q] # "none" => pc'[q] = "opened"
      BY <1>2, <1>3 DEF Typed, TypeOK, ProcessesOK
    <2>4. \A q \in Processes : ~Busy(q)' => ~stale'[q]
      BY <1>2, <1>3 DEF Typed, TypeOK, ProcessesOK, Busy
    <2> QED BY <2>1, <2>2, <2>3, <2>4 DEF ProcessesOK
  <1>6. Shapes'
    <2>1. ASSUME NEW s, Numbered(s) PROVE HasId(s) => s["node_id"] \in 1..made'
      BY <2>1, <1>0 DEF Numbered
    <2>2. HasId(live.s) => live.s["node_id"] \in 1..made'
      BY <2>1 DEF Typed, Shapes
    <2>3. HasId(part'.s) => part'.s["node_id"] \in 1..made'
      BY <1>3, <2>1, BlankNumbered DEF Typed, Shapes, Empty
    <2>4. ASSUME NEW q \in Processes PROVE HasId(mem'[q]) => mem'[q]["node_id"] \in 1..made'
      BY <1>0, <1>2, <2>1 DEF Typed, Shapes
    <2>5. DOMAIN mem' = Processes /\ DOMAIN doing' = Processes /\ DOMAIN todo' = Processes
      BY <1>2, <1>3 DEF Typed, Shapes
    <2> QED BY <1>2, <2>2, <2>3, <2>4, <2>5 DEF Shapes, Numbered, HasId
  <1> QED BY <1>0, <1>2, <1>3, <1>4, <1>5, <1>6, SettingsAssumption DEF Typed, TypeOK

\* A write leaves each file as it was, whole, or garbled.
LEMMA WrittenTyped ==
    ASSUME Typed, NEW p \in Processes,
           part' \in (IF fd[p] = "part" THEN Written(part, mem[p]) ELSE {part}) \cup {part, Garbled},
           live' \in (IF fd[p] = "live" THEN Written(live, mem[p]) ELSE {live}) \cup {live, Garbled}
    PROVE  FilesOK' /\ (made' = made => Numbered(live.s)' /\ Numbered(part.s)')
  <1>1. /\ part' \in {part, Garbled, Whole(mem[p])}
        /\ live' \in {live, Garbled, Whole(mem[p])}
    BY DEF Written
  <1>2. Garbled.s = Blank /\ Garbled.kind = "garbled" /\ Whole(mem[p]).s = mem[p] /\ Whole(mem[p]).kind = "whole"
    BY DEF Garbled, Whole
  <1>3. FilesOK'
    BY <1>1, <1>2 DEF Typed, TypeOK, FilesOK
  <1>4. ASSUME made' = made PROVE Numbered(live.s)' /\ Numbered(part.s)'
    BY <1>1, <1>2, <1>4, BlankNumbered DEF Typed, Shapes, Numbered, HasId
  <1> QED BY <1>3, <1>4

LEMMA WritesTyped ==
    ASSUME Typed, NEW p \in Processes, Writes(p) \/ WriteFails(p)
    PROVE  Typed'
  <1>1. FilesOK' /\ (made' = made => Numbered(live.s)' /\ Numbered(part.s)')
    BY WrittenTyped DEF Writes, WriteFails
  <1>2. \/ Writes(p) /\ UNCHANGED <<mishaps, faults>>
        \/ WriteFails(p) /\ Fault("full")
    BY DEF Writes, WriteFails
  <1>3. mishaps' \subseteq AllFaults \cup {"raced"} /\ faults' \in 0..MaxFaults
    BY <1>2, FaultTyped DEF Typed, TypeOK
  <1>4. /\ pc[p] = "opened" /\ pc' \in {[pc EXCEPT ![p] = "wrote"], [pc EXCEPT ![p] = "holds"]}
        /\ fd' = [fd EXCEPT ![p] = "none"] /\ doing' \in {doing, [doing EXCEPT ![p] = NoEdit]}
        /\ UNCHANGED <<mem, todo, ids, stale, made, begun>>
    BY DEF Writes, WriteFails
  <1>5. ProcessesOK'
    BY <1>4 DEF Typed, TypeOK, ProcessesOK, Busy
  <1>6. Shapes'
    BY <1>1, <1>4 DEF Typed, Shapes, Numbered
  <1> QED BY <1>1, <1>3, <1>4, <1>5, <1>6 DEF Typed, TypeOK

LEMMA PublishesTyped ==
    ASSUME Typed, NEW p \in Processes, Publishes(p)
    PROVE  Typed'
  <1>1. /\ pc[p] = "wrote" /\ pc' = [pc EXCEPT ![p] = "holds"] /\ doing' = [doing EXCEPT ![p] = NoEdit]
        /\ UNCHANGED <<mem, todo, ids, mishaps, made, begun, faults>>
    BY DEF Publishes
  <1>2. \/ UNCHANGED <<files, fd, stale>>
        \/ /\ live' = part /\ part' = NoFile
           /\ fd' = [q \in Processes |-> CASE fd[q] = "part" -> "live" [] fd[q] = "live" -> "gone" [] OTHER -> fd[q]]
           /\ stale' = [q \in Processes |-> q # p /\ Busy(q)]
    BY DEF Publishes
  <1>3. FilesOK'
    BY <1>2 DEF Typed, TypeOK, FilesOK, files, NoFile
  <1>4. ProcessesOK'
    <2>1. /\ pc' \in [Processes -> {"off", "free", "holds", "opened", "wrote"}]
          /\ fd' \in [Processes -> {"none", "part", "live", "gone"}]
      BY <1>1, <1>2 DEF Typed, TypeOK, ProcessesOK
    <2>2. stale' \in [Processes -> BOOLEAN]
      BY <1>2 DEF Typed, TypeOK, ProcessesOK, Busy
    <2>3. ASSUME NEW q \in Processes, fd'[q] # "none" PROVE pc'[q] = "opened"
      BY <1>1, <1>2, <2>3 DEF Typed, TypeOK, ProcessesOK
    <2>4. ASSUME NEW q \in Processes, ~Busy(q)' PROVE ~stale'[q]
      BY <1>1, <1>2, <2>4 DEF Typed, TypeOK, ProcessesOK, Busy
    <2> QED BY <1>1, <2>1, <2>2, <2>3, <2>4 DEF Typed, TypeOK, ProcessesOK
  <1>5. Shapes'
    <2>1. Numbered(live.s)' /\ Numbered(part.s)'
      BY <1>1, <1>2, BlankNumbered DEF Typed, Shapes, Numbered, files, NoFile
    <2> QED BY <1>1, <2>1 DEF Typed, Shapes, Numbered
  <1> QED BY <1>1, <1>3, <1>4, <1>5 DEF Typed, TypeOK

LEMMA DieTyped ==
    ASSUME Typed, NEW P, Die(P)
    PROVE  ProcessesOK' /\ DOMAIN mem' = Processes /\ DOMAIN doing' = Processes /\ DOMAIN todo' = Processes
           /\ (\A p \in Processes : Numbered(mem[p])') /\ UNCHANGED <<made, begun>>
  <1>1. ProcessesOK'
    <2>1. /\ pc' \in [Processes -> {"off", "free", "holds", "opened", "wrote"}]
          /\ fd' \in [Processes -> {"none", "part", "live", "gone"}]
      BY DEF Typed, TypeOK, ProcessesOK, Die, Dead
    <2>2. ids' \in [Processes -> 0..made']
      BY DEF Typed, TypeOK, ProcessesOK, Die, Dead
    <2>5. stale' \in [Processes -> BOOLEAN]
      BY DEF Typed, TypeOK, ProcessesOK, Die, Dead
    <2>3. \A q \in Processes : fd'[q] # "none" => pc'[q] = "opened"
      BY DEF Typed, TypeOK, ProcessesOK, Die, Dead
    <2>4. \A q \in Processes : ~Busy(q)' => ~stale'[q]
      BY DEF Typed, TypeOK, ProcessesOK, Die, Dead, Busy
    <2> QED BY <2>1, <2>2, <2>3, <2>4, <2>5 DEF ProcessesOK
  <1>2. ASSUME NEW p \in Processes PROVE Numbered(mem[p])'
    BY BlankNumbered DEF Typed, Shapes, Die, Dead, Numbered
  <1> QED BY <1>1, <1>2 DEF Die, Dead

LEMMA CutsTyped ==
    ASSUME Typed, PowerCut \/ \E p \in Processes : Crash(p)
    PROVE  Typed'
  <1>1. PICK P : Die(P)
    BY DEF PowerCut, Crash
  <1>2. PICK kind : Fault(kind)
    BY DEF PowerCut, Crash
  <1>3. part' \in {part, NoFile} /\ live' \in {live, Empty}
    BY DEF PowerCut, Crash, files
  <1>4. FilesOK'
    BY <1>3 DEF Typed, TypeOK, FilesOK, NoFile, Empty
  <1>5. Numbered(live.s)' /\ Numbered(part.s)'
    BY <1>1, <1>3, BlankNumbered DEF Typed, Shapes, Die, Numbered, NoFile, Empty
  <1>6. mishaps' \subseteq AllFaults \cup {"raced"} /\ faults' \in 0..MaxFaults
    BY <1>2, FaultTyped
  <1> QED BY <1>1, <1>4, <1>5, <1>6, DieTyped DEF Typed, TypeOK, Shapes

LEMMA TypeStep == Typed /\ [Next]_vars => Typed'
  <1> SUFFICES ASSUME Typed, [Next]_vars PROVE Typed'
    OBVIOUS
  <1>1. CASE UNCHANGED vars
    BY <1>1 DEF vars, files, process, Typed, TypeOK, FilesOK, ProcessesOK, Shapes, Numbered, Busy
  <1>2. CASE PowerCut
    BY <1>2, CutsTyped
  <1>3. ASSUME NEW p \in Processes, Step(p) PROVE Typed'
    BY <1>3, BeginTyped, EndsTyped, EditsTyped, WritesTyped, PublishesTyped, CutsTyped DEF Step
  <1> QED BY <1>1, <1>2, <1>3, StepsOf

\* The types of the state hold throughout; among them, that a process that has
\* no file open is not writing one, and that every node id in use is one that
\* node_id (config.rs) made up.
THEOREM SettingsTyping == Spec => []TypeOK
  <1>1. Typed => TypeOK
    BY DEF Typed
  <1> QED BY <1>1, InitTyped, TypeStep, PTL DEF Spec

----------------------------------------------------------------------------
(* One save at a time.                                                     *)

Clean == mishaps \cap {"raced", "powercut"} = {}
Quiet == mishaps \subseteq {"crash"}

\* While no two saves overlap, the one that is under way has the .part to
\* itself, and what it is about to rename is what it holds, whole.
Solid ==
    /\ live.kind \in {"none", "whole"}
    /\ \A p, q \in Processes : Saving(p) /\ Saving(q) => p = q
    /\ \A p \in Processes : pc[p] = "opened" => fd[p] = "part" /\ part = Empty
    /\ \A p \in Processes : pc[p] = "wrote" => part = Whole(mem[p])

LEMMA MishapsStay == [Next]_vars => mishaps \subseteq mishaps'
  BY DEF Next, Step, Begin, Ends, Edits, Writes, Publishes, WriteFails, Crash, PowerCut, Fault, vars

LEMMA CleanBefore == [Next]_vars => (Clean' => Clean) /\ (Quiet' => Quiet)
  BY MishapsStay DEF Clean, Quiet

LEMMA SolidStart == Init => Solid
  BY DEF Init, Solid, NoFile, Saving

\* A step that saves nothing: each process saves on as it did, or no more.
LEMMA SolidIdle ==
    /\ Solid /\ live' = live /\ part' = part
    /\ \A q \in Processes : pc'[q] \in {"opened", "wrote"} =>
                              pc'[q] = pc[q] /\ fd'[q] = fd[q] /\ mem'[q] = mem[q]
    => Solid'
  BY DEF Solid, Saving

LEMMA BeginSolid ==
    ASSUME Typed, Solid, NEW p \in Processes, (\E program : Begin(p, program)) \/ Ends(p)
    PROVE  Solid'
  <1>1. UNCHANGED <<files, fd>>
    BY DEF Begin, Ends
  <1>2. ASSUME NEW q \in Processes
        PROVE  pc'[q] \notin {"opened", "wrote"} \/ (pc'[q] = pc[q] /\ mem'[q] = mem[q])
    BY DEF Begin, Ends, Saving, Rest, Typed, TypeOK, ProcessesOK, Shapes
  <1> QED BY <1>1, <1>2, SolidIdle DEF files

LEMMA EditsSolid ==
    ASSUME Typed, Solid, NEW p \in Processes, Edits(p), Clean'
    PROVE  Solid'
  <1>1. /\ pc[p] = "holds" /\ live' = live
        /\ \A q \in Processes \ {p} : mem'[q] = mem[q]
    BY DEF Edits, Typed, Shapes
  <1>2. CASE UNCHANGED <<part, doing, pc, fd, mishaps>>
    <2>1. pc'[p] \notin {"opened", "wrote"}
      BY <1>1, <1>2
    <2> QED BY <1>1, <1>2, <2>1, SolidIdle DEF files
  <1>3. CASE /\ part' = Empty
             /\ pc' = [pc EXCEPT ![p] = "opened"] /\ fd' = [fd EXCEPT ![p] = "part"]
             /\ mishaps' = IF \E q \in Processes \ {p} : Saving(q) THEN mishaps \cup {"raced"} ELSE mishaps
    <2>1. \A q \in Processes \ {p} : ~Saving(q)
      BY <1>3 DEF Clean
    <2>2. \A q \in Processes \ {p} : ~Saving(q)'
      BY <1>3, <2>1 DEF Saving, Typed, TypeOK, ProcessesOK
    <2>3. pc'[p] = "opened" /\ fd'[p] = "part"
      BY <1>3 DEF Typed, TypeOK, ProcessesOK
    <2> QED BY <1>1, <1>3, <2>2, <2>3 DEF Solid, Saving
  <1> QED BY <1>2, <1>3 DEF Edits

LEMMA WritesSolid ==
    ASSUME Typed, Solid, NEW p \in Processes, Writes(p)
    PROVE  Solid'
  <1>1. /\ pc[p] = "opened" /\ fd[p] = "part" /\ part = Empty
        /\ \A q \in Processes \ {p} : ~Saving(q)
    BY DEF Solid, Writes, Saving
  <1>2. part' = Whole(mem[p]) /\ live' = live /\ mem' = mem /\ pc' = [pc EXCEPT ![p] = "wrote"]
    BY <1>1 DEF Writes, Written, Empty
  <1>3. \A q \in Processes : pc'[q] = IF q = p THEN "wrote" ELSE pc[q]
    BY <1>2 DEF Typed, TypeOK, ProcessesOK
  <1> QED BY <1>1, <1>2, <1>3 DEF Solid, Saving

LEMMA PublishesSolid ==
    ASSUME Typed, Solid, NEW p \in Processes, Publishes(p)
    PROVE  Solid' /\ live' = Whole(mem[p]) /\ live'.s = mem[p] /\ stale' = [q \in Processes |-> q # p /\ Busy(q)]
  <1>1. /\ pc[p] = "wrote" /\ part = Whole(mem[p])
        /\ \A q \in Processes \ {p} : ~Saving(q)
    BY DEF Solid, Publishes, Saving
  <1>2. part.kind = "whole" /\ part.s = mem[p]
    BY <1>1 DEF Whole
  <1>3. live' = part /\ pc' = [pc EXCEPT ![p] = "holds"] /\ stale' = [q \in Processes |-> q # p /\ Busy(q)]
    BY <1>2 DEF Publishes
  <1>4. \A q \in Processes : pc'[q] = IF q = p THEN "holds" ELSE pc[q]
    BY <1>3 DEF Typed, TypeOK, ProcessesOK
  <1>5. \A q \in Processes : ~Saving(q)'
    BY <1>1, <1>4 DEF Saving
  <1> QED BY <1>1, <1>2, <1>3, <1>5 DEF Solid, Saving

LEMMA WriteFailsSolid ==
    ASSUME Typed, Solid, NEW p \in Processes, WriteFails(p)
    PROVE  Solid'
  <1>1. /\ pc[p] = "opened" /\ fd[p] = "part"
        /\ \A q \in Processes \ {p} : ~Saving(q)
    BY DEF Solid, WriteFails, Saving
  <1>2. live' = live /\ pc' = [pc EXCEPT ![p] = "holds"]
    BY <1>1 DEF WriteFails
  <1>3. \A q \in Processes : pc'[q] = IF q = p THEN "holds" ELSE pc[q]
    BY <1>2 DEF Typed, TypeOK, ProcessesOK
  <1>4. \A q \in Processes : ~Saving(q)'
    BY <1>1, <1>3 DEF Saving
  <1> QED BY <1>2, <1>4 DEF Solid, Saving

LEMMA CrashSolid ==
    ASSUME Typed, Solid, NEW p \in Processes, Crash(p)
    PROVE  Solid'
  <1>1. PICK P : Die(P)
    BY DEF Crash
  <1>2. ASSUME NEW q \in Processes
        PROVE  pc'[q] \notin {"opened", "wrote"} \/ (pc'[q] = pc[q] /\ fd'[q] = fd[q] /\ mem'[q] = mem[q])
    BY <1>1 DEF Die, Dead, Saving
  <1> QED BY <1>2, SolidIdle DEF Crash, files

LEMMA SolidStep == Typed /\ (Clean => Solid) /\ [Next]_vars => (Clean => Solid)'
  <1> SUFFICES ASSUME Typed, Solid, [Next]_vars, Clean' PROVE Solid'
    BY CleanBefore
  <1>1. CASE UNCHANGED vars
    BY <1>1, SolidIdle DEF vars, process, files
  <1>2. CASE PowerCut
    BY <1>2 DEF PowerCut, Fault, Clean
  <1>3. ASSUME NEW p \in Processes, Step(p) PROVE Solid'
    BY <1>3, BeginSolid, EditsSolid, WritesSolid, PublishesSolid, WriteFailsSolid, CrashSolid DEF Step
  <1> QED BY <1>1, <1>2, <1>3, StepsOf

\* However many processes save, and wherever they die or run out of space, what
\* settings.json holds is whole as long as no two saves overlapped and the
\* power stayed on (config.rs save_settings: the .part and the rename).
THEOREM SettingsStayWhole == Spec => []WholeUnlessRaced
  <1>1. Init => Typed /\ (Clean => Solid)
    BY InitTyped, SolidStart
  <1>2. Typed /\ (Clean => Solid) /\ [Next]_vars => (Typed /\ (Clean => Solid))'
    BY TypeStep, SolidStep
  <1>3. (Clean => Solid) => WholeUnlessRaced
    BY DEF Clean, Solid, WholeUnlessRaced
  <1> QED BY <1>1, <1>2, <1>3, PTL DEF Spec

----------------------------------------------------------------------------
(* The node id.                                                            *)

\* Once the file has an id it is everyone's; before, at most one process is at
\* work, and only it may have made one up, which it has yet to save.
Known ==
    IF HasId(current)
    THEN \A p \in Processes :
             /\ ids[p] # 0 => ids[p] = current["node_id"]
             /\ Busy(p) => HasId(mem[p]) /\ mem[p]["node_id"] = current["node_id"]
    ELSE /\ \A p, q \in Processes : Busy(p) /\ Busy(q) => p = q
         /\ \A p \in Processes : ~Busy(p) => ids[p] = 0
         /\ \A p \in Processes : ids[p] # 0 => HasId(mem[p]) /\ ids[p] = mem[p]["node_id"]
         /\ \A p \in Processes : pc[p] = "holds" => ~HasId(mem[p])

LEMMA KnownStart == Init => Known
  BY DEF Init, Known, Busy, current, NoFile, HasId, Blank

LEMMA BeginKnown ==
    ASSUME Typed, Known, NEW p \in Processes, NEW program, Begin(p, program), Quiet'
    PROVE  Known'
  <1>1. /\ ~Busy(p) /\ live' = live /\ ids' = ids
        /\ \A q \in Processes : pc'[q] = IF q = p THEN "holds" ELSE pc[q]
        /\ \A q \in Processes : mem'[q] = IF q = p THEN current ELSE mem[q]
    BY DEF Begin, files, Typed, TypeOK, ProcessesOK, Shapes
  <1>2. CASE HasId(current)
    BY <1>1, <1>2 DEF Known, Busy, current, HasId
  <1>3. CASE ~HasId(current)
    <2>1. \A q \in Processes : ~Busy(q)
      BY <1>3 DEF Begin, HasId, Quiet
    <2> QED BY <1>1, <1>3, <2>1 DEF Known, Busy, current, HasId
  <1> QED BY <1>2, <1>3

LEMMA EndsKnown ==
    ASSUME Typed, Known, NEW p \in Processes, Ends(p)
    PROVE  Known'
  <1>1. /\ pc[p] = "holds" /\ live' = live
        /\ pc'[p] \in {"off", "free"} /\ ids'[p] \in {0, ids[p]}
        /\ \A q \in Processes \ {p} : pc'[q] = pc[q] /\ mem'[q] = mem[q] /\ ids'[q] = ids[q]
    BY DEF Ends, Rest, files, Typed, TypeOK, ProcessesOK, Shapes
  <1>2. CASE HasId(current)
    BY <1>1, <1>2 DEF Known, Busy, current, HasId
  <1>3. CASE ~HasId(current)
    <2>1. ids[p] = 0
      BY <1>1, <1>3 DEF Known
    <2> QED BY <1>1, <1>3, <2>1 DEF Known, Busy, current, HasId
  <1> QED BY <1>2, <1>3

LEMMA EditsKnown ==
    ASSUME Typed, Known, NEW p \in Processes, Edits(p)
    PROVE  Known'
  <1> DEFINE e == Head(todo[p])
             t == Effect(mem[p], Named(e)).s
  <1>1. /\ e.key # "id" => Keeps("node_id", mem[p], t)
        /\ HasId(mem[p]) => Keeps("node_id", mem[p], t)
        /\ e.key = "id" => HasId(t)
        /\ e.key = "id" /\ ~HasId(mem[p]) => t # mem[p]
        /\ Named(e).key = e.key
    BY EditIds
  <1>2. /\ pc[p] = "holds" /\ live' = live
        /\ mem'[p] = t /\ ids'[p] = (IF e.key = "id" THEN t["node_id"] ELSE ids[p])
        /\ pc'[p] \in {"holds", "opened"} /\ (pc'[p] = "holds" => t = mem[p])
        /\ \A q \in Processes \ {p} : pc'[q] = pc[q] /\ mem'[q] = mem[q] /\ ids'[q] = ids[q]
    BY <1>1 DEF Edits, Typed, TypeOK, ProcessesOK, Shapes
  <1> HIDE DEF e, t
  <1>3. CASE HasId(current)
    <2>1. HasId(mem[p]) /\ mem[p]["node_id"] = current["node_id"] /\ (ids[p] # 0 => ids[p] = current["node_id"])
      BY <1>2, <1>3 DEF Known, Busy
    <2>2. HasId(t) /\ t["node_id"] = current["node_id"]
      BY <1>1, <2>1 DEF Keeps, HasId
    <2> QED BY <1>2, <1>3, <2>1, <2>2 DEF Known, Busy, current, HasId
  <1>4. CASE ~HasId(current)
    <2>1. ~HasId(mem[p]) /\ ids[p] = 0
      BY <1>2, <1>4 DEF Known
    <2>2. ids'[p] # 0 => HasId(t) /\ ids'[p] = t["node_id"]
      BY <1>1, <1>2, <2>1
    <2>3. pc'[p] = "holds" => ~HasId(t)
      BY <1>2, <2>1
    <2>4. \A q \in Processes \ {p} : ~Busy(q) /\ ids[q] = 0
      BY <1>2, <1>4 DEF Known, Busy
    <2> QED BY <1>2, <1>4, <2>2, <2>3, <2>4 DEF Known, Busy, current, HasId
  <1> QED BY <1>3, <1>4

LEMMA WritesKnown ==
    ASSUME Typed, Solid, Known, NEW p \in Processes, Writes(p)
    PROVE  Known'
  <1>1. pc[p] = "opened" /\ live' = live /\ mem' = mem /\ ids' = ids
    BY DEF Writes, Solid
  <1>2. \A q \in Processes : pc'[q] = IF q = p THEN "wrote" ELSE pc[q]
    BY DEF Writes, Typed, TypeOK, ProcessesOK
  <1> QED BY <1>1, <1>2 DEF Known, Busy, current, HasId

LEMMA PublishesKnown ==
    ASSUME Typed, Solid, Known, NEW p \in Processes, Publishes(p)
    PROVE  Known'
  <1>1. /\ pc[p] = "wrote" /\ live'.s = mem[p] /\ mem' = mem /\ ids' = ids
        /\ \A q \in Processes : pc'[q] = IF q = p THEN "holds" ELSE pc[q]
    BY PublishesSolid DEF Publishes, Typed, TypeOK, ProcessesOK
  <1>2. CASE HasId(current)
    <2>1. HasId(mem[p]) /\ mem[p]["node_id"] = current["node_id"]
      BY <1>1, <1>2 DEF Known, Busy
    <2> QED BY <1>1, <1>2, <2>1 DEF Known, Busy, current, HasId
  <1>3. CASE ~HasId(current)
    <2>1. \A q \in Processes \ {p} : ~Busy(q) /\ ids[q] = 0
      BY <1>1, <1>3 DEF Known, Busy
    <2>2. ids[p] # 0 => HasId(mem[p]) /\ ids[p] = mem[p]["node_id"]
      BY <1>3 DEF Known
    <2> QED BY <1>1, <1>3, <2>1, <2>2 DEF Known, Busy, current, HasId
  <1> QED BY <1>2, <1>3

LEMMA CrashKnown ==
    ASSUME Typed, Known, NEW p \in Processes, Crash(p)
    PROVE  Known'
  <1>1. PICK P : Die(P)
    BY DEF Crash
  <1>2. /\ live' = live
        /\ \A q \in Processes : \/ pc'[q] = "off" /\ ids'[q] = 0
                                \/ pc'[q] = pc[q] /\ mem'[q] = mem[q] /\ ids'[q] = ids[q]
    BY <1>1 DEF Crash, Die, Dead, files
  <1> QED BY <1>2 DEF Known, Busy, current, HasId

LEMMA KnownStep ==
    Typed /\ (Clean => Solid) /\ (Quiet => Known) /\ [Next]_vars => (Quiet => Known)'
  <1> SUFFICES ASSUME Typed, Solid, Known, [Next]_vars, Quiet' PROVE Known'
    BY CleanBefore DEF Clean, Quiet
  <1>1. CASE UNCHANGED vars
    BY <1>1 DEF vars, process, files, Known, Busy, current, HasId
  <1>2. CASE PowerCut
    BY <1>2 DEF PowerCut, Fault, Quiet
  <1>3. ASSUME NEW p \in Processes, Step(p) PROVE Known'
    <2>1. CASE WriteFails(p)
      BY <2>1 DEF WriteFails, Fault, Quiet
    <2> QED BY <1>3, <2>1, BeginKnown, EndsKnown, EditsKnown, WritesKnown, PublishesKnown, CrashKnown DEF Step
  <1> QED BY <1>1, <1>2, <1>3, StepsOf

\* Through any number of crashes and settings changes, reset included, every
\* process goes by one node id, the saved one (config.rs node_id), unless two
\* first runs raced or the id could not be saved.
THEOREM NodeIdLasts == Spec => []IdentityKept
  <1> DEFINE IInv == Typed /\ (Clean => Solid) /\ (Quiet => Known)
  <1>1. Init => IInv
    BY InitTyped, SolidStart, KnownStart
  <1>2. IInv /\ [Next]_vars => IInv'
    BY TypeStep, SolidStep, KnownStep
  <1>3. IInv => IdentityKept
    BY DEF Quiet, Known, IdentityKept, HasId
  <1> QED BY <1>1, <1>2, <1>3, PTL DEF Spec

----------------------------------------------------------------------------
(* One edit at a time.                                                     *)

\* A process whose settings are up to date holds what is in the file, or what
\* the edit it is saving makes of it.
Turn ==
    \A p \in Processes : ~stale[p] =>
        /\ pc[p] = "holds" => mem[p] = current
        /\ pc[p] \in {"opened", "wrote"} => mem[p] = Effect(current, doing[p]).s

LEMMA TurnStart == Init => Turn
  BY DEF Init, Turn

LEMMA BeginTurn ==
    ASSUME Typed, Turn, NEW p \in Processes, (\E program : Begin(p, program)) \/ Ends(p)
    PROVE  Turn'
  <1>1. /\ live' = live /\ doing' = doing
        /\ \/ pc'[p] = "holds" /\ mem'[p] = current
           \/ pc'[p] \in {"off", "free"}
        /\ \A q \in Processes \ {p} : pc'[q] = pc[q] /\ mem'[q] = mem[q] /\ stale'[q] = stale[q]
    BY DEF Begin, Ends, Rest, files, Typed, TypeOK, ProcessesOK, Shapes
  <1> QED BY <1>1 DEF Turn, current

LEMMA EditsTurn ==
    ASSUME Typed, Turn, NEW p \in Processes, Edits(p)
    PROVE  Turn'
  <1> DEFINE e == Named(Head(todo[p]))
             t == Effect(mem[p], e).s
  <1>1. /\ pc[p] = "holds" /\ live' = live /\ stale' = stale /\ mem'[p] = t
        /\ \/ pc'[p] = "opened" /\ doing'[p] = e
           \/ pc'[p] = "holds" /\ t = mem[p]
        /\ \A q \in Processes \ {p} : pc'[q] = pc[q] /\ mem'[q] = mem[q] /\ doing'[q] = doing[q]
    BY DEF Edits, Typed, TypeOK, ProcessesOK, Shapes
  <1>2. ~stale[p] => mem[p] = current
    BY <1>1 DEF Turn
  <1>3. ~stale[p] => t = Effect(current, e).s
    BY <1>2
  <1> HIDE DEF e, t
  <1> QED BY <1>1, <1>2, <1>3 DEF Turn, current

LEMMA WritesTurn ==
    ASSUME Typed, Solid, Turn, NEW p \in Processes, Writes(p)
    PROVE  Turn'
  <1>1. pc[p] = "opened" /\ live' = live /\ mem' = mem /\ doing' = doing /\ stale' = stale
    BY DEF Writes, Solid
  <1>2. \A q \in Processes : pc'[q] = IF q = p THEN "wrote" ELSE pc[q]
    BY DEF Writes, Typed, TypeOK, ProcessesOK
  <1> QED BY <1>1, <1>2 DEF Turn, current

LEMMA PublishesTurn ==
    ASSUME Typed, Solid, Turn, NEW p \in Processes, Publishes(p)
    PROVE  Turn' /\ pc[p] = "wrote" /\ pc'[p] = "holds"
           /\ (stale[p] \/ live'.s = Effect(current, doing[p]).s)
  <1>1. /\ pc[p] = "wrote" /\ live'.s = mem[p] /\ mem' = mem
        /\ \A q \in Processes : stale'[q] = (q # p /\ Busy(q))
        /\ \A q \in Processes : pc'[q] = IF q = p THEN "holds" ELSE pc[q]
    BY PublishesSolid DEF Publishes, Typed, TypeOK, ProcessesOK
  <1> QED BY <1>1 DEF Turn, current, Busy

LEMMA CrashTurn ==
    ASSUME Typed, Turn, NEW p \in Processes, Crash(p)
    PROVE  Turn'
  <1>1. PICK P : Die(P)
    BY DEF Crash
  <1>2. /\ live' = live
        /\ \A q \in Processes : \/ pc'[q] = "off"
                                \/ /\ pc'[q] = pc[q] /\ mem'[q] = mem[q]
                                   /\ doing'[q] = doing[q] /\ stale'[q] = stale[q]
    BY <1>1 DEF Crash, Die, Dead, files
  <1> QED BY <1>2 DEF Turn, current

LEMMA TurnStep ==
    Typed /\ (Clean => Solid) /\ (Quiet => Turn) /\ [Next]_vars => (Quiet => Turn)'
  <1> SUFFICES ASSUME Typed, Solid, Turn, [Next]_vars, Quiet' PROVE Turn'
    BY CleanBefore DEF Clean, Quiet
  <1>1. CASE UNCHANGED vars
    BY <1>1 DEF vars, process, files, Turn, current
  <1>2. CASE PowerCut
    BY <1>2 DEF PowerCut, Fault, Quiet
  <1>3. ASSUME NEW p \in Processes, Step(p) PROVE Turn'
    <2>1. CASE WriteFails(p)
      BY <2>1 DEF WriteFails, Fault, Quiet
    <2> QED BY <1>3, <2>1, BeginTurn, EditsTurn, WritesTurn, PublishesTurn, CrashTurn DEF Step
  <1> QED BY <1>1, <1>2, <1>3, StepsOf

\* Whatever changes in settings.json is one edit, made whole to what was there
\* (apply of cfg.rs and its like, then save_settings), except that a process
\* which read the file before another saved undoes the other's edit.
THEOREM EditsInTurn == Spec => EditsApplyInTurn
  <1> DEFINE IInv == Typed /\ (Clean => Solid) /\ (Quiet => Turn)
             OneEdit == mishaps' \subseteq {"crash"} /\ current' # current =>
                            \E p \in Processes : /\ Saving(p) /\ ~Saving(p)'
                                                 /\ stale[p] \/ current' = Effect(current, doing[p]).s
  <1>1. Init => IInv
    BY InitTyped, SolidStart, TurnStart
  <1>2. IInv /\ [Next]_vars => IInv'
    BY TypeStep, SolidStep, TurnStep
  <1>3. IInv /\ [Next]_vars => [OneEdit]_vars
    <2> SUFFICES ASSUME Typed, Clean => Solid, Quiet => Turn, [Next]_vars, Quiet', current' # current
                 PROVE  \E p \in Processes : /\ Saving(p) /\ ~Saving(p)'
                                             /\ stale[p] \/ current' = Effect(current, doing[p]).s
      BY DEF Quiet
    <2>1. Solid /\ Turn
      BY CleanBefore DEF Clean, Quiet
    <2>2. PICK p \in Processes : Publishes(p)
      <3>1. CASE UNCHANGED vars
        BY <3>1 DEF vars, files, current
      <3>2. CASE PowerCut
        BY <3>2 DEF PowerCut, Fault, Quiet
      <3>3. ASSUME NEW p \in Processes, Step(p), ~Publishes(p) PROVE FALSE
        <4>1. live' # live
          BY DEF current
        <4>2. ~Writes(p)
          BY <2>1, <4>1 DEF Writes, Solid
        <4>3. ~WriteFails(p)
          BY DEF WriteFails, Fault, Quiet
        <4> QED BY <3>3, <4>1, <4>2, <4>3 DEF Step, Begin, Ends, Edits, Crash, files
      <3> QED BY <3>1, <3>2, <3>3, StepsOf
    <2> QED BY <2>1, <2>2, PublishesTurn DEF Saving, current
  <1> QED BY <1>1, <1>2, <1>3, PTL DEF Spec, EditsApplyInTurn
=============================================================================
