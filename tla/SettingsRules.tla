---------------------------- MODULE SettingsRules ----------------------------
(***************************************************************************)
(* What settings.json means: the rules by which `config`, `quiet`, the     *)
(* menu and the node change it, the readers by which the node takes it,    *)
(* and the quiet hours it describes.                                       *)
(*                                                                         *)
(* A settings file is a function from the names in it to their values; a   *)
(* name that is not in it is unset, and so is one that is null.  What a    *)
(* person types is a word, a number, a size, or two times of day with the  *)
(* days they are for.  Sizes are whole megabytes, of less than 2^64 bytes. *)
(***************************************************************************)
EXTENDS Integers, Sequences

CONSTANTS
    DayMinutes,  \* minutes of a day; 1440 in the code
    DayHours,    \* the hours of sharing the menu offers, <<start, end>>
    Kilo, U32,   \* bytes of a KB, 1024, and the largest u32, 2^32 - 1
    AutoPeers,   \* peer limit for this machine's memory
    AutoWindow,  \* live window for this machine's memory
    Folders,     \* folders there are, and can be written to
    HoldsFiles   \* is there library content already?

ASSUME RulesAssumption ==
    /\ DayMinutes \in Nat \ {0}
    /\ AutoPeers \in 2..200 /\ AutoWindow \in Nat /\ HoldsFiles \in BOOLEAN
    /\ Kilo \in Nat \ {0} /\ U32 \in Nat

Days        == 0..6
Minutes     == 0..(DayMinutes - 1)
PortNumbers == 1..65535
GB          == 1024

ASSUME OffersAssumption == DayHours \subseteq Minutes \X Minutes /\ "" \notin Folders /\ "blank" \notin Folders

\* What a process is started with: SI_PUBLIC_PORT, SI_LISTEN_PORT and
\* SI_PUBLIC_IP, 0 and "" when there is none or it is no port.
Environment == [port : {0} \cup PortNumbers, listen : {0} \cup PortNumbers, ip : STRING]

Blank            == [n \in {} |-> 0]
Put(s, n, v)     == [x \in DOMAIN s \cup {n} |-> IF x = n THEN v ELSE s[x]]
Drop(s, N)       == [x \in DOMAIN s \ N |-> s[x]]
Get(s, n, unset) == IF n \in DOMAIN s THEN s[n] ELSE unset

AtLeast(low, n)     == IF n < low THEN low ELSE n
AtMost(high, n)     == IF n > high THEN high ELSE n
Clamp(n, low, high) == IF n > high THEN high ELSE AtLeast(low, n)
Trimmed(w)          == IF w = "blank" THEN "" ELSE w

\* What is typed.  Anything that is neither number nor times is a word; a
\* setting refuses the words it does not know.
Word(w)           == [word |-> w, num |-> 0, to |-> 0, days |-> {}]
Fraction(n, d)    == [word |-> "number", num |-> n, to |-> d, days |-> {}]
Number(n)         == Fraction(n, 1)
Sized(n, unit)    == [word |-> unit, num |-> n, to |-> 1, days |-> {}]
Times(a, b)       == [word |-> "times", num |-> a, to |-> b, days |-> {}]
Weekly(d, a, b)   == [word |-> "times", num |-> a, to |-> b, days |-> d]
IsNumber(v)       == v.word = "number"
Off(v)            == v.word = "off" \/ v = Number(0)

----------------------------------------------------------------------------
(* The readers of config.rs.  0 stands for no limit, no port.              *)

seed_scope(s)            == Get(s, "seed_scope", "picks")
seed_access_cached(s)    == Get(s, "seed_access_granted", FALSE)
downloads_dir(s)         ==
    LET dir == Get(s, "storage_dir", "") IN IF Trimmed(dir) = "" THEN "downloads" ELSE dir
dht_enabled(s)           == Get(s, "dht_enabled", TRUE)
natpmp_enabled(s)        == Get(s, "natpmp_enabled", TRUE)
p2p_enabled(s)           == Get(s, "p2p_enabled", TRUE)
content_mode(s)          == Get(s, "content_mode", "auto")
public_ip(s, env)        == IF env.ip # "" THEN env.ip ELSE Trimmed(Get(s, "public_ip", ""))
public_port(s, env)      == IF env.port # 0 THEN env.port ELSE Get(s, "public_port", 0)
listen_port(s, env)      == IF env.listen # 0 THEN env.listen ELSE Get(s, "listen_port", 0)
max_peers_per_torrent(s) == Get(s, "max_peers_per_torrent", 64)
active_torrents(s)       == Get(s, "active_torrents", AutoWindow)
rotate_minutes(s)        == AtLeast(1, Get(s, "rotate_minutes", 15))
keep_free_bytes(s)       == AtLeast(5 * GB, Get(s, "keep_free_gb", 10 * GB))
download_workers(s)      == Clamp(Get(s, "download_workers", 4), 1, 16)
archive_slots(s)         == Clamp(download_workers(s) \div 2, 1, 3)

\* (slip) The rate wraps round at 32 bits.
upload_limit_wraps(s) ==
    IF Get(s, "upload_limit_enabled", FALSE) THEN (Kilo * Get(s, "upload_limit_kbps", 0)) % (U32 + 1) ELSE 0

\* Bytes a second; the conversion to u32 stops at the largest there is.
upload_limit(s)  ==
    IF Get(s, "upload_limit_enabled", FALSE) THEN AtMost(U32, Kilo * Get(s, "upload_limit_kbps", 0)) ELSE 0
monthly_cap(s)   == IF Get(s, "monthly_cap_enabled", FALSE) THEN Get(s, "monthly_cap_gb", 0) ELSE 0
peer_limit_per_torrent(s) ==
    IF "peer_limit_per_torrent" \in DOMAIN s THEN Clamp(s["peer_limit_per_torrent"], 2, 200) ELSE AutoPeers

prefer_archive(s, scope) ==
    content_mode(s) = "archive" \/ (content_mode(s) = "auto" /\ scope # "full")

----------------------------------------------------------------------------
(* Quiet hours.  A window is its days, and its start and end in minutes    *)
(* since midnight; one whose end is before its start crosses midnight.     *)

QuietWindow == {w \in [days : SUBSET Days, start : Minutes, end : Minutes] : w.days # {} /\ w.start # w.end}

\* Entries that do not parse are passed over.
quiet_windows(s) ==
    LET hours == Get(s, "quiet_hours", <<>>)
    IN {w \in {hours[i] : i \in DOMAIN hours} : w \in QuietWindow}

\* The daily hours in which seeding is allowed, or none.
gui_active_window(s) ==
    IF Get(s, "seed_schedule_enabled", FALSE) /\ {"seed_start", "seed_end"} \subseteq DOMAIN s
    THEN {h \in {[start |-> s["seed_start"], end |-> s["seed_end"]]} :
              {h.start, h.end} \subseteq Minutes /\ h.start # h.end}
    ELSE {}

\* (slip) The part after midnight is taken to be of the same day.
in_quiet_window_same_day(w, dow, cur) ==
    IF w.start < w.end
    THEN dow \in w.days /\ cur >= w.start /\ cur < w.end
    ELSE dow \in w.days /\ (cur >= w.start \/ cur < w.end)

in_quiet_window(w, dow, cur) ==
    IF w.start < w.end
    THEN dow \in w.days /\ cur >= w.start /\ cur < w.end
    ELSE \/ dow \in w.days /\ cur >= w.start
         \/ (dow + 6) % 7 \in w.days /\ cur < w.end

quiet_now(s, dow, cur) ==
    \/ \E w \in quiet_windows(s) : in_quiet_window(w, dow, cur)
    \/ \E h \in gui_active_window(s) :
           ~ IF h.start < h.end THEN cur >= h.start /\ cur < h.end ELSE cur >= h.start \/ cur < h.end

----------------------------------------------------------------------------
(* The rules of `config` (cfg.rs apply): what may be typed for a setting,  *)
(* and what it does to the file.                                           *)

OK(s)      == [ok |-> TRUE, s |-> s]
Refused(s) == [ok |-> FALSE, s |-> s]
Accept(cond, s, then) == IF cond THEN OK(then) ELSE Refused(s)

\* parse_size_gb.  It takes `nan` and `inf`, which the file can only hold as null.
NotFinite == {"nan", "inf"}
SizeOf    == [mb |-> 1, gb |-> GB, tb |-> GB * GB, number |-> GB]

parse_size_gb(v)  == SizeOf[v.word] * v.num
SizeParses(v)     == v.word \in NotFinite \/ (v.word \in DOMAIN SizeOf /\ v.num > 0)
PutSize(s, n, v)  == IF v.word \in NotFinite THEN Drop(s, {n}) ELSE Put(s, n, parse_size_gb(v))

ApplyScope(s, v) == Accept(v.word \in {"audio", "full", "picks"}, s, Put(s, "seed_scope", v.word))
ApplyDir(s, v)   == Accept(v.word \in Folders, s, Put(s, "storage_dir", v.word))

ApplyUpload(s, v) ==
    IF Off(v) THEN OK(Put(Put(s, "upload_limit_enabled", FALSE), "upload_limit_kbps", 0))
    ELSE Accept(IsNumber(v), s, Put(Put(s, "upload_limit_enabled", TRUE), "upload_limit_kbps", v.num))

ApplyMonthlyCap(s, v) ==
    IF Off(v) THEN OK(Put(s, "monthly_cap_enabled", FALSE))
    ELSE Accept(SizeParses(v), s, PutSize(Put(s, "monthly_cap_enabled", TRUE), "monthly_cap_gb", v))

ApplySchedule(s, v) ==
    IF v.word = "off" THEN OK(Put(s, "seed_schedule_enabled", FALSE))
    ELSE Accept(v.word = "times" /\ {v.num, v.to} \subseteq Minutes, s,
                Put(Put(Put(s, "seed_schedule_enabled", TRUE), "seed_start", v.num), "seed_end", v.to))

ApplyPublicPort(s, v) ==
    IF Off(v) \/ v.word = "auto" THEN OK(Drop(s, {"public_port"}))
    ELSE Accept(IsNumber(v) /\ v.num \in PortNumbers, s, Put(s, "public_port", v.num))

ApplyPublicIp(s, v) ==
    IF v.word \in {"off", "auto", ""} THEN OK(Drop(s, {"public_ip"})) ELSE OK(Put(s, "public_ip", v.word))

ApplySwitch(s, name, v) == Accept(v.word \in {"on", "off"}, s, Put(s, name, v.word = "on"))
ApplySource(s, v)       == Accept(v.word \in {"auto", "cdn", "archive"}, s, Put(s, "content_mode", v.word))

\* downloads, peers, discovered and rotate take a number of a range.
ApplyNumber(s, name, range, v) == Accept(IsNumber(v) /\ v.num \in range, s, Put(s, name, v.num))

ApplyWindow(s, v) ==
    IF v.word = "auto" THEN OK(Drop(s, {"active_torrents"}))
    ELSE Accept(IsNumber(v) /\ v.num >= 100, s, Put(s, "active_torrents", v.num))

ApplyKeepFree(s, v) ==
    Accept(SizeParses(v) /\ (v.word \in NotFinite \/ parse_size_gb(v) >= 5 * GB), s, PutSize(s, "keep_free_gb", v))

Tuning == {"peer_limit_per_torrent", "max_peers_per_torrent", "active_torrents", "rotate_minutes", "dht_enabled"}

\* (slip) A reset is a fresh file.
ApplyResetAll(s) == OK(Blank)
ApplyReset(s)    == OK(Drop(s, Tuning))

----------------------------------------------------------------------------
(* The other edits.                                                        *)

\* `quiet add`, `quiet remove` and `quiet clear`; remove goes by the place in
\* the file, which is not the place in the list when an entry does not parse.
QuietAdd(s, v) ==
    LET w == [days |-> v.days, start |-> v.num, end |-> v.to]
    IN Accept(v.word = "times" /\ w \in QuietWindow, s,
              Put(s, "quiet_hours", Append(Get(s, "quiet_hours", <<>>), w)))

Without(seq, i) == SubSeq(seq, 1, i - 1) \o SubSeq(seq, i + 1, Len(seq))

QuietRemove(s, v) ==
    LET hours == Get(s, "quiet_hours", <<>>)
    IN Accept(v.num \in 1..Len(hours), s, Put(s, "quiet_hours", Without(hours, v.num)))

QuietClear(s) == OK(Put(s, "quiet_hours", <<>>))

\* settle_scope: what the service was installed with gives way to what is
\* saved; what a person types at a terminal does not.
settle_scope(s, v, interactive) ==
    IF "seed_scope" \in DOMAIN s
    THEN OK(IF v.word # "" /\ interactive THEN Put(s, "seed_scope", v.word) ELSE s)
    ELSE OK(Put(s, "seed_scope", IF v.word # "" THEN v.word ELSE IF HoldsFiles THEN "audio" ELSE "picks"))

\* --dir is not looked into; --port is.
DirOption(s, v)  == OK(Put(s, "storage_dir", v.word))
PortOption(s, v) == Accept(IsNumber(v) /\ v.num \in PortNumbers, s, Put(s, "listen_port", v.num))
NoPort(s)        == OK(Drop(s, {"listen_port"}))

node_id(s, n) == OK(IF "node_id" \in DOMAIN s THEN s ELSE Put(s, "node_id", n))

----------------------------------------------------------------------------
(* The menu's choices for a setting (SETTINGS), and which of them it shows *)
(* as the present one.                                                     *)

MenuKeys == {"upload", "schedule", "monthly-cap", "keep-free", "downloads", "source", "window"}

Presets(key) ==
    CASE key = "upload"      -> {Word("off")} \cup {Number(n) : n \in {125, 625, 1250, 3125}}
      [] key = "schedule"    -> {Word("off")} \cup {Times(h[1], h[2]) : h \in DayHours}
      [] key = "monthly-cap" -> {Word("off")} \cup {Number(n) : n \in {100, 250, 500, 1024, 2048}}
      [] key = "keep-free"   -> {Number(n) : n \in {5, 10, 25, 50, 100}}
      [] key = "downloads"   -> {Number(n) : n \in {1, 2, 4, 8}}
      [] key = "source"      -> {Word("auto"), Word("archive"), Word("cdn")}
      [] key = "window"      -> {Word("auto")} \cup {Number(n) : n \in {1000, 2000, 4000, 8000}}

\* Sizes are shown in gigabytes, free space to the tenth of one.
raw_value(s, key) ==
    CASE key = "upload"      -> IF Get(s, "upload_limit_enabled", FALSE) THEN Number(Get(s, "upload_limit_kbps", 0)) ELSE Word("off")
      [] key = "schedule"    -> IF Get(s, "seed_schedule_enabled", FALSE)
                                THEN Times(Get(s, "seed_start", ""), Get(s, "seed_end", "")) ELSE Word("off")
      [] key = "monthly-cap" -> IF Get(s, "monthly_cap_enabled", FALSE) THEN Fraction(Get(s, "monthly_cap_gb", 0), GB) ELSE Word("off")
      [] key = "keep-free"   -> Fraction((10 * keep_free_bytes(s) + GB \div 2) \div GB, 10)
      [] key = "dir"         -> Word(downloads_dir(s))
      [] key = "downloads"   -> Number(download_workers(s))
      [] key = "source"      -> Word(content_mode(s))
      [] key = "window"      -> IF "active_torrents" \in DOMAIN s THEN Number(s["active_torrents"]) ELSE Word("auto")

\* (slip) The choice is compared as it is spelt.
same_spelling(key, preset, cur) == preset = cur

\* Numbers are the same that differ by less than a hundredth.
same_value(key, preset, cur) ==
    IF key \notin {"schedule", "source"} /\ IsNumber(preset) /\ IsNumber(cur)
    THEN LET gap == preset.num * cur.to - cur.num IN 100 * gap < cur.to /\ -100 * gap < cur.to
    ELSE preset = cur

\* A custom upload speed is typed in Mbps and kept in KB/s.
to_config(key, v) ==
    IF key = "upload" /\ IsNumber(v) THEN (IF v.num = 0 THEN Word("off") ELSE Number(125 * v.num)) ELSE v
=============================================================================
