---------------------------- MODULE RulesProofs ----------------------------
(***************************************************************************)
(* Proofs about the rules of settings.json: that quiet hours are quiet     *)
(* when they are written to be, whatever the length of a day; that what is *)
(* accepted is read back; and that the menu marks the choice that was      *)
(* made.  They hold of every settings file, so in every state.             *)
(***************************************************************************)
EXTENDS SettingsProofs, SequenceTheorems

----------------------------------------------------------------------------
(* Quiet hours.                                                            *)

\* Minutes reckoned round a week.
LEMMA RoundUp ==
    ASSUME NEW m \in Nat \ {0}, NEW x \in Int
    PROVE  /\ 0 <= x /\ x < m => x % m = x
           /\ -m <= x /\ x < 0 => x % m = x + m
  OBVIOUS

Day  == DayMinutes
Week == 7 * DayMinutes

\* How long ago a window of a day began: today's less than a day ago if it did
\* begin, yesterday's within a day of now, and all others before that.
LEMMA Since ==
    ASSUME NEW day \in Days, NEW dow \in Days, NEW start \in Minutes, NEW cur \in Minutes
    PROVE  LET ago == ((dow - day) * DayMinutes + cur - start) % Week
           IN  /\ day = dow => ago = IF cur >= start THEN cur - start ELSE Week + cur - start
               /\ day = (dow + 6) % 7 => ago = Day + cur - start
               /\ day \notin {dow, (dow + 6) % 7} => ago >= Day
  <1> DEFINE k == dow - day
             x == k * DayMinutes + cur - start
  <1>1. /\ Day \in Nat \ {0} /\ Week \in Nat \ {0}
        /\ start \in Int /\ cur \in Int /\ 0 <= start /\ start < Day /\ 0 <= cur /\ cur < Day
    BY RulesAssumption DEF Day, Week, Minutes
  <1>2. k \in -6..6
    BY DEF Days
  <1>3. /\ day = dow <=> k = 0
        /\ day = (dow + 6) % 7 <=> k \in {1, -6}
    BY DEF Days
  <1>4. /\ k = 0 => x % Week = IF cur >= start THEN cur - start ELSE Week + cur - start
        /\ k \in {1, -6} => x % Week = Day + cur - start
        /\ k \in 2..6 \cup -5..-1 => x % Week >= Day
    <2> HIDE DEF k
    <2>1. CASE k \in 0..6
      <3>1. CASE k = 0
        <4>1. x = cur - start
          BY <1>1, <3>1 DEF Day
        <4> HIDE DEF x
        <4>2. x \in Int /\ -Week <= x /\ x < Week
          BY <1>1, <4>1 DEF Week, Day
        <4>3. (cur >= start => 0 <= x) /\ (~(cur >= start) => x < 0)
          BY <1>1, <4>1
        <4> HIDE DEF Week
        <4>4. (cur >= start => x % Week = x) /\ (~(cur >= start) => x % Week = x + Week)
          BY <1>1, <4>2, <4>3, RoundUp
        <4> QED BY <1>1, <3>1, <4>1, <4>4
      <3>2. CASE k \in 1..6
        <4>1. k * Day >= Day /\ k * Day <= 6 * Day /\ k * Day \in Int
          BY <1>1, <3>2
        <4>2. x = k * Day + cur - start
          BY DEF Day
        <4> HIDE DEF x
        <4>3. x \in Int /\ 0 <= x /\ x < Week
          BY <1>1, <4>1, <4>2 DEF Week, Day
        <4>4. x % Week = x
          BY <1>1, <4>3, RoundUp
        <4>5. k = 1 => x = Day + cur - start
          BY <1>1, <4>2
        <4>6. k \in 2..6 => x >= Day
          <5>1. k \in 2..6 => k * Day >= 2 * Day
            BY <1>1, <3>2
          <5> QED BY <1>1, <4>1, <4>2, <5>1
        <4> QED BY <3>2, <4>4, <4>5, <4>6
      <3> QED BY <2>1, <3>1, <3>2
    <2>2. CASE k \in -6..-1
      <3>1. \A j \in -6..-1 : k = j => x = j * Day + cur - start
        BY DEF Day
      <3>2. x \in Int /\ x < 0 /\ -Week <= x
        BY <1>1, <2>2, <3>1 DEF Week, Day
      <3> QED BY <1>1, <2>2, <3>1, <3>2, RoundUp DEF Week, Day
    <2> QED BY <1>2, <2>1, <2>2
  <1> QED BY <1>2, <1>3, <1>4

\* in_quiet_window (config.rs), by which day it is and what time, is being
\* within a window's length of its start.
LEMMA InWindowIsCovered ==
    ASSUME NEW w \in [days : SUBSET Days, start : Minutes, end : Minutes], w.start # w.end,
           NEW dow \in Days, NEW cur \in Minutes
    PROVE  in_quiet_window(w, dow, cur) <=> Covered(w, dow, cur)
  <1> DEFINE yesterday == (dow + 6) % 7
             length == (w.end - w.start) % DayMinutes
             Ago(day) == ((dow - day) * DayMinutes + cur - w.start) % Week
  <1>1. /\ Day \in Nat \ {0} /\ w.days \subseteq Days
        /\ w.start \in 0..(Day - 1) /\ w.end \in 0..(Day - 1) /\ cur \in 0..(Day - 1)
    BY RulesAssumption DEF Day, Minutes
  <1>2. length = IF w.start < w.end THEN w.end - w.start ELSE w.end - w.start + Day
    BY <1>1, RoundUp DEF Day
  <1>3. yesterday \in Days /\ yesterday # dow
    BY DEF Days
  <1>4. ASSUME NEW day \in Days
        PROVE  Ago(day) < length <=>
                   \/ day = dow /\ cur >= w.start /\ (w.start < w.end => cur < w.end)
                   \/ day = yesterday /\ w.end < w.start /\ cur < w.end
    <2> HIDE DEF length
    <2>1. /\ day = dow => Ago(day) = IF cur >= w.start THEN cur - w.start ELSE Week + cur - w.start
          /\ day = yesterday => Ago(day) = Day + cur - w.start
          /\ day \notin {dow, yesterday} => Ago(day) >= Day
      BY <1>4, Since
    <2> HIDE DEF Ago, yesterday
    <2>2. Week >= Day /\ length < Day /\ Week \in Nat
      BY <1>1, <1>2 DEF Week, Day
    <2>3. CASE day = dow
      BY <1>1, <1>2, <1>3, <2>1, <2>2, <2>3 DEF Week, Day
    <2>4. CASE day = yesterday
      BY <1>1, <1>2, <1>3, <2>1, <2>2, <2>4
    <2>5. CASE day \notin {dow, yesterday}
      <3>1. Ago(day) \in Int
        BY <1>1, <1>4, RulesAssumption DEF Week, Days, Ago, Day
      <3> QED BY <1>1, <1>2, <2>1, <2>2, <2>5, <3>1
    <2> QED BY <2>3, <2>4, <2>5
  <1>5. Covered(w, dow, cur) <=> \E day \in w.days : Ago(day) < length
    BY DEF Covered, Week
  <1> HIDE DEF Ago, length
  <1> QED BY <1>1, <1>3, <1>4, <1>5 DEF in_quiet_window

\* The daily hours of sharing are a window that is open every day.
LEMMA DailyIsCovered ==
    ASSUME NEW start \in Minutes, NEW end \in Minutes, start # end,
           NEW dow \in Days, NEW cur \in Minutes
    PROVE  (IF start < end THEN cur >= start /\ cur < end ELSE cur >= start \/ cur < end)
               <=> Covered([days |-> Days, start |-> start, end |-> end], dow, cur)
  <1> DEFINE w == [days |-> Days, start |-> start, end |-> end]
  <1>1. w \in [days : SUBSET Days, start : Minutes, end : Minutes] /\ w.start # w.end
    OBVIOUS
  <1>2. in_quiet_window(w, dow, cur) <=> Covered(w, dow, cur)
    BY <1>1, InWindowIsCovered
  <1>3. dow \in w.days /\ (dow + 6) % 7 \in w.days
    BY DEF Days
  <1>4. in_quiet_window(w, dow, cur) <=>
            IF start < end THEN cur >= start /\ cur < end ELSE cur >= start \/ cur < end
    BY <1>3 DEF in_quiet_window
  <1> QED BY <1>2, <1>4

\* What the node takes for quiet hours are windows in good order, and so is
\* what it takes for the hours of sharing, whatever the file says.
LEMMA ReadInOrder ==
    ASSUME NEW s
    PROVE  /\ quiet_windows(s) \subseteq [days : SUBSET Days, start : Minutes, end : Minutes]
           /\ \A w \in quiet_windows(s) : w.start # w.end
           /\ \A h \in gui_active_window(s) : h.start \in Minutes /\ h.end \in Minutes /\ h.start # h.end
  BY DEF quiet_windows, QuietWindow, gui_active_window

\* A node is quiet in the minutes for which it was told to be, and in no others:
\* for any settings file, any number of windows, across midnight and the end of
\* the week (config.rs quiet_now), for a day of any length.
THEOREM QuietIsAsWritten == Spec => []QuietAsWritten
  <1>1. QuietAsWritten
    <2> SUFFICES ASSUME NEW dow \in Days, NEW cur \in Minutes
                 PROVE  quiet_now(current, dow, cur) <=>
                            \/ \E w \in quiet_windows(current) : Covered(w, dow, cur)
                            \/ \E h \in gui_active_window(current) :
                                   ~Covered([days |-> Days, start |-> h.start, end |-> h.end], dow, cur)
      BY DEF QuietAsWritten
    <2>1. \A w \in quiet_windows(current) : in_quiet_window(w, dow, cur) <=> Covered(w, dow, cur)
      BY ReadInOrder, InWindowIsCovered
    <2>2. \A h \in gui_active_window(current) :
              (IF h.start < h.end THEN cur >= h.start /\ cur < h.end ELSE cur >= h.start \/ cur < h.end)
                  <=> Covered([days |-> Days, start |-> h.start, end |-> h.end], dow, cur)
      BY ReadInOrder, DailyIsCovered
    <2> QED BY <2>1, <2>2 DEF quiet_now
  <1> QED BY <1>1, PTL

----------------------------------------------------------------------------
(* The menu.                                                               *)

LEMMA PutGets ==
    ASSUME NEW s, NEW n, NEW v, NEW m, NEW unset
    PROVE  /\ n \in DOMAIN Put(s, n, v) /\ Put(s, n, v)[n] = v /\ Get(Put(s, n, v), n, unset) = v
           /\ m # n => Get(Put(s, n, v), m, unset) = Get(s, m, unset)
  BY DEF Put, Get

LEMMA DropGets ==
    ASSUME NEW s, NEW N, NEW n \in N, NEW unset
    PROVE  n \notin DOMAIN Drop(s, N) /\ Get(Drop(s, N), n, unset) = unset
  BY DEF Drop, Get

\* How the menu shows a choice that has been made: sizes in parts of a gigabyte.
Shown(key, v) ==
    CASE key = "monthly-cap" /\ IsNumber(v) -> Fraction(GB * v.num, GB)
      [] key = "keep-free"                  -> Fraction(10 * v.num, 10)
      [] OTHER                              -> v

\* A choice of the menu is taken as it is, and is what the menu then shows.
LEMMA ChoiceTaken ==
    ASSUME NEW s, NEW key \in MenuKeys, NEW v \in Presets(key)
    PROVE  Apply(s, key, v).ok /\ raw_value(Apply(s, key, v).s, key) = Shown(key, v)
  <1> DEFINE r == Apply(s, key, v)
  <1>0. \A n : /\ IsNumber(Number(n)) /\ Number(n).word = "number" /\ Number(n).num = n /\ Number(n).to = 1
               /\ Number(n) = Number(Number(n).num)
    BY DEF IsNumber, Number, Fraction
  <1>o. Off(Word("off")) /\ ~IsNumber(Word("off"))
    BY DEF Off, IsNumber, Word
  <1>1. CASE key = "upload"
    <2>1. CASE v = Word("off")
      <3>2. r = OK(Put(Put(s, "upload_limit_enabled", FALSE), "upload_limit_kbps", 0))
        BY <1>1, <1>o, <2>1 DEF Apply, ApplyUpload
      <3>3. Get(r.s, "upload_limit_enabled", FALSE) = FALSE
        BY <3>2 DEF OK, Put, Get
      <3> QED BY <1>1, <2>1, <3>2, <3>3 DEF raw_value, OK, Shown
    <2>2. CASE v \in {Number(n) : n \in {125, 625, 1250, 3125}}
      <3>1. ~Off(v) /\ IsNumber(v) /\ v = Number(v.num)
        BY <2>2 DEF Off, IsNumber, Number, Fraction
      <3>2. r = OK(Put(Put(s, "upload_limit_enabled", TRUE), "upload_limit_kbps", v.num))
        BY <1>1, <3>1 DEF Apply, ApplyUpload, Accept
      <3>3. Get(r.s, "upload_limit_enabled", FALSE) = TRUE /\ Get(r.s, "upload_limit_kbps", 0) = v.num
        BY <3>2 DEF OK, Put, Get
      <3> QED BY <1>1, <3>1, <3>2, <3>3 DEF raw_value, OK, Shown
    <2> QED BY <1>1, <2>1, <2>2 DEF Presets
  <1>2. CASE key = "monthly-cap"
    <2>1. CASE v = Word("off")
      <3>2. r = OK(Put(s, "monthly_cap_enabled", FALSE))
        BY <1>2, <1>o, <2>1 DEF Apply, ApplyMonthlyCap
      <3>3. Get(r.s, "monthly_cap_enabled", FALSE) = FALSE
        BY <3>2 DEF OK, Put, Get
      <3> QED BY <1>2, <1>o, <2>1, <3>2, <3>3 DEF raw_value, OK, Shown
    <2>2. CASE v \in {Number(n) : n \in {100, 250, 500, 1024, 2048}}
      <3>1. ~Off(v) /\ IsNumber(v) /\ v.word = "number" /\ v.num \in Nat \ {0}
        BY <2>2 DEF Off, IsNumber, Number, Fraction
      <3>2. SizeParses(v) /\ parse_size_gb(v) = GB * v.num /\ v.word \notin NotFinite
        BY <3>1 DEF SizeParses, parse_size_gb, SizeOf, NotFinite, GB
      <3>3. r = OK(Put(Put(s, "monthly_cap_enabled", TRUE), "monthly_cap_gb", GB * v.num))
        BY <1>2, <3>1, <3>2 DEF Apply, ApplyMonthlyCap, Accept, PutSize
      <3>4. Get(r.s, "monthly_cap_enabled", FALSE) = TRUE /\ Get(r.s, "monthly_cap_gb", 0) = GB * v.num
        BY <3>3 DEF OK, Put, Get
      <3> QED BY <1>2, <3>1, <3>3, <3>4 DEF raw_value, OK, Shown
    <2> QED BY <1>2, <2>1, <2>2 DEF Presets
  <1>3. CASE key = "keep-free"
    <2>1. v.word = "number" /\ v.num \in Nat /\ v.num >= 5
      BY <1>0, <1>3 DEF Presets
    <2>2. /\ SizeParses(v) /\ parse_size_gb(v) = GB * v.num /\ v.word \notin NotFinite
          /\ GB * v.num \in Int /\ GB * v.num >= 5 * GB
      BY <2>1 DEF SizeParses, parse_size_gb, SizeOf, NotFinite, GB
    <2>3. r = OK(Put(s, "keep_free_gb", GB * v.num))
      BY <1>3, <2>2 DEF Apply, ApplyKeepFree, Accept, PutSize
    <2>4. keep_free_bytes(r.s) = GB * v.num
      BY <2>2, <2>3, PutGets DEF OK, keep_free_bytes, AtLeast, GB
    <2>5. (10 * (GB * v.num) + GB \div 2) \div GB = 10 * v.num
      BY <2>1 DEF GB
    <2> QED BY <1>3, <2>3, <2>4, <2>5 DEF raw_value, OK, Shown
  <1>4. CASE key = "downloads"
    <2>1. IsNumber(v) /\ v = Number(v.num) /\ v.num \in 1..16
      BY <1>0, <1>4 DEF Presets
    <2>2. r = OK(Put(s, "download_workers", v.num))
      BY <1>4, <2>1 DEF Apply, ApplyNumber, Accept
    <2>3. download_workers(r.s) = v.num
      BY <2>1, <2>2, PutGets DEF OK, download_workers, Clamp, AtLeast
    <2> QED BY <1>4, <2>1, <2>2, <2>3 DEF raw_value, OK, Shown
  <1>5. CASE key = "source"
    <2>1. v = Word(v.word) /\ v.word \in {"auto", "archive", "cdn"}
      BY <1>5 DEF Presets, Word
    <2>2. r = OK(Put(s, "content_mode", v.word))
      BY <1>5, <2>1 DEF Apply, ApplySource, Accept
    <2>3. content_mode(r.s) = v.word
      BY <2>2, PutGets DEF OK, content_mode
    <2> QED BY <1>5, <2>1, <2>2, <2>3 DEF raw_value, OK, Shown
  <1>6. CASE key = "window"
    <2>1. CASE v = Word("auto")
      <3>1. r = OK(Drop(s, {"active_torrents"}))
        BY <1>6, <2>1 DEF Apply, ApplyWindow, Word
      <3>2. "active_torrents" \notin DOMAIN r.s
        BY <3>1, DropGets DEF OK
      <3> QED BY <1>6, <2>1, <3>1, <3>2 DEF raw_value, OK, Shown
    <2>2. CASE v \in {Number(n) : n \in {1000, 2000, 4000, 8000}}
      <3>1. v = Number(v.num) /\ v.word = "number" /\ v.num \in Nat /\ v.num >= 100
        BY <1>0, <2>2
      <3>2. r = OK(Put(s, "active_torrents", v.num))
        BY <1>6, <3>1 DEF Apply, ApplyWindow, Accept, IsNumber
      <3>3. "active_torrents" \in DOMAIN r.s /\ r.s["active_torrents"] = v.num
        BY <3>2 DEF OK, Put, Get
      <3> QED BY <1>6, <3>1, <3>2, <3>3 DEF raw_value, OK, Shown
    <2> QED BY <1>6, <2>1, <2>2 DEF Presets
  <1>7. CASE key = "schedule"
    <2>1. CASE v = Word("off")
      <3>1. r = OK(Put(s, "seed_schedule_enabled", FALSE))
        BY <1>7, <2>1 DEF Apply, ApplySchedule, Word
      <3>2. Get(r.s, "seed_schedule_enabled", FALSE) = FALSE
        BY <3>1 DEF OK, Put, Get
      <3> QED BY <1>7, <2>1, <3>1, <3>2 DEF raw_value, OK, Shown
    <2>2. CASE v \in {Times(h[1], h[2]) : h \in DayHours}
      <3>1. PICK h \in DayHours : v = Times(h[1], h[2])
        BY <2>2
      <3>2. h[1] \in Minutes /\ h[2] \in Minutes
        BY OffersAssumption
      <3>3. v.word = "times" /\ v.num = h[1] /\ v.to = h[2] /\ v = Times(v.num, v.to)
        BY <3>1 DEF Times
      <3>4. r = OK(Put(Put(Put(s, "seed_schedule_enabled", TRUE), "seed_start", v.num), "seed_end", v.to))
        BY <1>7, <3>2, <3>3 DEF Apply, ApplySchedule, Accept
      <3>5. /\ Get(r.s, "seed_schedule_enabled", FALSE) = TRUE
            /\ Get(r.s, "seed_start", "") = v.num /\ Get(r.s, "seed_end", "") = v.to
        BY <3>4 DEF OK, Put, Get
      <3>6. raw_value(r.s, key) = Times(v.num, v.to)
        <4> HIDE DEF r
        <4> QED BY <1>7, <3>5 DEF raw_value
      <3>7. Shown(key, v) = v /\ r.ok
        BY <1>7, <3>4 DEF Shown, OK
      <3> QED BY <3>3, <3>6, <3>7
    <2> QED BY <1>7, <2>1, <2>2 DEF Presets
  <1> QED BY <1>1, <1>2, <1>3, <1>4, <1>5, <1>6, <1>7 DEF MenuKeys

\* No two choices are within a hundredth of each other.
LEMMA ChoiceMarked ==
    ASSUME NEW key \in MenuKeys, NEW v \in Presets(key), NEW w \in Presets(key)
    PROVE  same_value(key, w, Shown(key, v)) <=> w = v
  <1>1. CASE key \in {"schedule", "source"}
    BY <1>1 DEF same_value, Shown
  <1> SUFFICES ASSUME key \notin {"schedule", "source"} PROVE same_value(key, w, Shown(key, v)) <=> w = v
    BY <1>1
  <1>2. ASSUME NEW u \in Presets(key)
        PROVE  /\ ~IsNumber(u) => u \in {Word("off"), Word("auto")}
               /\ IsNumber(u) => u = Number(u.num) /\ u.num \in Nat
    <2>1. u \in {Word("off"), Word("auto")} \/ \E n \in Nat : u = Number(n)
      BY DEF Presets, MenuKeys
    <2> QED BY <2>1 DEF IsNumber, Number, Fraction, Word
  <1>3. CASE ~IsNumber(v)
    <2>1. Shown(key, v) = v
      <3>1. key # "keep-free"
        BY <1>3 DEF Presets, IsNumber, Number, Fraction
      <3> QED BY <1>3, <3>1 DEF Shown
    <2> QED BY <1>3, <2>1 DEF same_value
  <1>4. CASE IsNumber(v)
    <2> DEFINE d == CASE key = "monthly-cap" -> GB [] key = "keep-free" -> 10 [] OTHER -> 1
    <2>1. /\ v = Number(v.num) /\ v.num \in Nat
          /\ IsNumber(w) => w = Number(w.num) /\ w.num \in Nat
      BY <1>2, <1>4
    <2>2. d \in {1, 10, 1024} /\ IsNumber(Shown(key, v)) /\ Shown(key, v).num = d * v.num /\ Shown(key, v).to = d
      BY <1>4, <2>1 DEF Shown, Fraction, Number, IsNumber, GB
    <2> HIDE DEF d
    <2>3. CASE IsNumber(w)
      <3> DEFINE gap == w.num * d - d * v.num
      <3>1. same_value(key, w, Shown(key, v)) <=> 100 * gap < d /\ -100 * gap < d
        BY <2>2, <2>3 DEF same_value
      <3>2. 100 * gap < d /\ -100 * gap < d <=> w.num = v.num
        <4>1. w.num \in Nat /\ v.num \in Nat
          BY <2>1, <2>3
        <4> HIDE DEF gap
        <4>2. CASE d = 1
          <5>1. gap = w.num - v.num
            BY <4>1, <4>2 DEF gap
          <5> QED BY <4>1, <4>2, <5>1
        <4>3. CASE d = 10
          <5>1. gap = 10 * (w.num - v.num)
            BY <4>1, <4>3 DEF gap
          <5> QED BY <4>1, <4>3, <5>1
        <4>4. CASE d = 1024
          <5>1. gap = 1024 * (w.num - v.num)
            BY <4>1, <4>4 DEF gap
          <5> QED BY <4>1, <4>4, <5>1
        <4> QED BY <2>2, <4>2, <4>3, <4>4
      <3>3. w.num = v.num <=> w = v
        BY <2>1, <2>3
      <3> QED BY <3>1, <3>2, <3>3
    <2>4. CASE ~IsNumber(w)
      <3>1. w # v /\ w # Shown(key, v)
        BY <1>4, <2>2, <2>4
      <3> QED BY <2>4, <3>1 DEF same_value
    <2> QED BY <2>3, <2>4
  <1> QED BY <1>3, <1>4

\* Whatever settings.json says, what is chosen in the menu for a setting is
\* accepted by `config` and is then the one choice marked as the present one
\* (menu.rs raw_value, same_value and SETTINGS, cfg.rs apply), and the folder
\* chosen is the one its box shows.
THEOREM MenuShowsTheChoice == Spec => []ChoiceIsShown
  <1>1. ChoiceIsShown
    <2>1. ASSUME NEW key \in MenuKeys, NEW v \in Presets(key)
          PROVE  /\ Apply(current, key, v).ok
                 /\ {w \in Presets(key) : same_value(key, w, raw_value(Apply(current, key, v).s, key))} = {v}
      BY ChoiceTaken, ChoiceMarked
    <2>2. ASSUME NEW f \in Folders PROVE raw_value(ApplyDir(current, Word(f)).s, "dir") = Word(f)
      <3>1. ApplyDir(current, Word(f)).s = Put(current, "storage_dir", f) /\ f \notin {"", "blank"}
        BY OffersAssumption DEF ApplyDir, Accept, OK, Word
      <3>2. downloads_dir(Put(current, "storage_dir", f)) = f
        <4>1. Get(Put(current, "storage_dir", f), "storage_dir", "") = f
          BY DEF Put, Get
        <4>2. Trimmed(f) = f /\ f # ""
          BY <3>1 DEF Trimmed
        <4> QED BY <4>1, <4>2 DEF downloads_dir
      <3> QED BY <3>1, <3>2 DEF raw_value
    <2> QED BY <2>1, <2>2 DEF ChoiceIsShown
  <1> QED BY <1>1, PTL

----------------------------------------------------------------------------
(* What is typed, and what is read of it.                                  *)

\* The quiet hours of a file are a list of windows in good order.
HoursListed(s) == "quiet_hours" \in DOMAIN s => s["quiet_hours"] \in Seq(QuietWindow)

\* What `config` accepts for a setting, the node's reader of it gives back.
LEMMA ConfigIsRead ==
    ASSUME NEW s, NEW e, e.key \in ConfigKeys, e.val.num \in Nat, NEW env, Effect(s, e).ok
    PROVE  ReadBack(Effect(s, e).s, e, env)
  <1>0. Effect(s, e) = Apply(s, e.key, e.val)
    BY DEF Effect, ConfigKeys
  <1> DEFINE r == Apply(s, e.key, e.val)
  <1>1. ASSUME e.key = "scope", r.ok PROVE ReadBack(r.s, e, env)
    BY <1>1 DEF Apply, ApplyScope, seed_scope, Accept, OK, Refused, Put, Drop, Get, ReadBack
  <1>2. ASSUME e.key = "dir", r.ok PROVE ReadBack(r.s, e, env)
    BY <1>2, OffersAssumption DEF Apply, ApplyDir, downloads_dir, Trimmed,
       Accept, OK, Refused, Put, Drop, Get, ReadBack
  <1>3. ASSUME e.key = "source", r.ok PROVE ReadBack(r.s, e, env)
    BY <1>3 DEF Apply, ApplySource, prefer_archive, content_mode, Accept, OK, Refused, Put, Drop, Get, ReadBack
  <1>4. ASSUME e.key = "natpmp", r.ok PROVE ReadBack(r.s, e, env)
    BY <1>4 DEF Apply, ApplySwitch, natpmp_enabled, Accept, OK, Refused, Put, Drop, Get, ReadBack
  <1>5. ASSUME e.key = "p2p", r.ok PROVE ReadBack(r.s, e, env)
    BY <1>5 DEF Apply, ApplySwitch, p2p_enabled, Accept, OK, Refused, Put, Drop, Get, ReadBack
  <1>6. ASSUME e.key = "dht", r.ok PROVE ReadBack(r.s, e, env)
    BY <1>6 DEF Apply, ApplySwitch, dht_enabled, Accept, OK, Refused, Put, Drop, Get, ReadBack
  <1>7. ASSUME e.key = "peers", r.ok PROVE ReadBack(r.s, e, env)
    BY <1>7 DEF Apply, ApplyNumber, peer_limit_per_torrent, Clamp, AtLeast,
       Accept, OK, Refused, Put, Drop, Get, ReadBack
  <1>8. ASSUME e.key = "discovered", r.ok PROVE ReadBack(r.s, e, env)
    BY <1>8 DEF Apply, ApplyNumber, max_peers_per_torrent, Accept, OK, Refused, Put, Drop, Get, ReadBack
  <1>9. ASSUME e.key = "rotate", r.ok PROVE ReadBack(r.s, e, env)
    BY <1>9 DEF Apply, ApplyNumber, rotate_minutes, AtLeast, Accept, OK, Refused, Put, Drop, Get, ReadBack
  <1>10. ASSUME e.key = "keep-free", r.ok PROVE ReadBack(r.s, e, env)
    <2> DEFINE v == e.val
    <2>1. r = Accept(SizeParses(v) /\ (v.word \in NotFinite \/ parse_size_gb(v) >= 5 * GB), s, PutSize(s, "keep_free_gb", v))
      BY <1>10 DEF Apply, ApplyKeepFree
    <2>2. CASE v.word \in NotFinite
      <3>1. r.s = Drop(s, {"keep_free_gb"})
        BY <1>10, <2>1, <2>2 DEF Accept, OK, Refused, PutSize
      <3>2. keep_free_bytes(r.s) = 10 * GB
        <4>1. Get(r.s, "keep_free_gb", 10 * GB) = 10 * GB
          BY <3>1 DEF Drop, Get
        <4> QED BY <4>1 DEF keep_free_bytes, AtLeast, GB
      <3> QED BY <1>10, <2>2, <3>2 DEF ReadBack
    <2>3. CASE v.word \notin NotFinite
      <3>1. /\ r.s = Put(s, "keep_free_gb", parse_size_gb(v))
            /\ parse_size_gb(v) \in Int /\ parse_size_gb(v) >= 5 * GB
        <4>1. SizeParses(v) /\ parse_size_gb(v) >= 5 * GB /\ r.s = PutSize(s, "keep_free_gb", v)
          BY <1>10, <2>1, <2>3 DEF Accept, OK, Refused
        <4>2. parse_size_gb(v) \in Int
          BY <2>3, <4>1 DEF SizeParses, parse_size_gb, SizeOf, GB
        <4> QED BY <2>3, <4>1, <4>2 DEF PutSize
      <3>2. keep_free_bytes(r.s) = parse_size_gb(v)
        <4> HIDE DEF r
        <4> QED BY <3>1, PutGets DEF keep_free_bytes, AtLeast, GB
      <3> QED BY <1>10, <2>3, <3>2 DEF ReadBack
    <2> QED BY <2>2, <2>3
  <1>11. ASSUME e.key = "window", r.ok PROVE ReadBack(r.s, e, env)
    BY <1>11 DEF Apply, ApplyWindow, IsNumber, active_torrents, Accept, OK, Refused, Put, Drop, Get, ReadBack
  <1>12. ASSUME e.key = "public-ip", r.ok PROVE ReadBack(r.s, e, env)
    BY <1>12 DEF Apply, ApplyPublicIp, public_ip, Trimmed, Accept, OK, Refused, Put, Drop, Get, ReadBack
  <1>13. ASSUME e.key = "public-port", r.ok PROVE ReadBack(r.s, e, env)
    BY <1>13 DEF Apply, ApplyPublicPort, public_port, Off, IsNumber, Number, Fraction,
       Accept, OK, Refused, Put, Drop, Get, ReadBack
  <1>14. ASSUME e.key = "upload", r.ok PROVE ReadBack(r.s, e, env)
    BY <1>14 DEF Apply, ApplyUpload, upload_limit, Accept, OK, Refused, Put, Drop, Get, ReadBack
  <1>15. ASSUME e.key = "monthly-cap", r.ok PROVE ReadBack(r.s, e, env)
    <2> DEFINE v == e.val
               on == Put(s, "monthly_cap_enabled", TRUE)
    <2>1. CASE Off(v)
      <3>1. r.s = Put(s, "monthly_cap_enabled", FALSE)
        BY <1>15, <2>1 DEF Apply, ApplyMonthlyCap, OK
      <3>2. monthly_cap(r.s) = 0
        BY <3>1 DEF monthly_cap, Put, Get
      <3> QED BY <1>15, <2>1, <3>2 DEF ReadBack
    <2>2. CASE ~Off(v)
      <3>1. r.s = PutSize(on, "monthly_cap_gb", v)
        BY <1>15, <2>2 DEF Apply, ApplyMonthlyCap, Accept, OK, Refused
      <3>2. Get(PutSize(on, "monthly_cap_gb", v), "monthly_cap_enabled", FALSE) = TRUE
        BY DEF PutSize, Put, Drop, Get
      <3>3. monthly_cap(r.s) = Get(PutSize(on, "monthly_cap_gb", v), "monthly_cap_gb", 0)
        BY <3>1, <3>2 DEF monthly_cap
      <3>4. monthly_cap(r.s) = IF v.word \in NotFinite THEN 0 ELSE parse_size_gb(v)
        BY <3>3 DEF PutSize, Put, Drop, Get
      <3> QED BY <1>15, <2>2, <3>4 DEF ReadBack
    <2> QED BY <2>1, <2>2
  <1>16. ASSUME e.key = "reset", r.ok PROVE ReadBack(r.s, e, env)
    BY <1>16 DEF Apply, ApplyReset, Tuning, dht_enabled, peer_limit_per_torrent, active_torrents,
       rotate_minutes, AtLeast, Accept, OK, Refused, Put, Drop, Get, ReadBack
  <1>17. ASSUME e.key = "schedule", r.ok PROVE ReadBack(r.s, e, env)
    <2> DEFINE v == e.val
    <2>1. CASE v.word = "off"
      <3>1. r.s = Put(s, "seed_schedule_enabled", FALSE)
        BY <1>17, <2>1 DEF Apply, ApplySchedule, OK
      <3>2. gui_active_window(r.s) = {}
        <4>1. Get(r.s, "seed_schedule_enabled", FALSE) = FALSE
          BY <3>1 DEF Put, Get
        <4> QED BY <4>1 DEF gui_active_window
      <3> QED BY <1>17, <2>1, <3>2 DEF ReadBack
    <2>2. CASE v.word # "off"
      <3>1. /\ r.s = Put(Put(Put(s, "seed_schedule_enabled", TRUE), "seed_start", v.num), "seed_end", v.to)
            /\ v.num \in Minutes /\ v.to \in Minutes
        BY <1>17, <2>2 DEF Apply, ApplySchedule, Accept, OK, Refused
      <3>2. /\ {"seed_start", "seed_end"} \subseteq DOMAIN r.s /\ r.s["seed_start"] = v.num /\ r.s["seed_end"] = v.to
            /\ Get(r.s, "seed_schedule_enabled", FALSE) = TRUE
        BY <3>1 DEF Put, Get
      <3> HIDE DEF r
      <3>3. gui_active_window(r.s) = {h \in {[start |-> v.num, end |-> v.to]} :
                                         {h.start, h.end} \subseteq Minutes /\ h.start # h.end}
        BY <3>2 DEF gui_active_window
      <3>4. gui_active_window(r.s) = IF v.num = v.to THEN {} ELSE {[start |-> v.num, end |-> v.to]}
        <4> DEFINE hours == [start |-> v.num, end |-> v.to]
        <4>1. hours.start = v.num /\ hours.end = v.to
          OBVIOUS
        <4>2. CASE v.num = v.to
          BY <3>3, <4>1, <4>2
        <4>3. CASE v.num # v.to
          <5>1. {hours.start, hours.end} \subseteq Minutes /\ hours.start # hours.end
            BY <3>1, <4>1, <4>3
          <5> HIDE DEF hours
          <5>2. {h \in {hours} : {h.start, h.end} \subseteq Minutes /\ h.start # h.end} = {hours}
            BY <5>1
          <5> QED BY <3>3, <4>3, <5>2 DEF hours
        <4> QED BY <4>2, <4>3
      <3> HIDE DEF v
      <3> QED BY <1>17, <2>2, <3>4 DEF ReadBack, v
    <2> QED BY <2>1, <2>2
  <1>18. ASSUME e.key = "downloads", r.ok PROVE ReadBack(r.s, e, env)
    <2>1. e.val.num \in 1..16 /\ r.s = Put(s, "download_workers", e.val.num)
      BY <1>18 DEF Apply, ApplyNumber, Accept, OK, Refused
    <2>2. download_workers(r.s) = e.val.num
      BY <2>1, PutGets DEF download_workers, Clamp, AtLeast
    <2>3. archive_slots(r.s) \in 1..e.val.num
      BY <2>1, <2>2 DEF archive_slots, Clamp, AtLeast
    <2> QED BY <1>18, <2>2, <2>3 DEF ReadBack
  <1> QED BY <1>0, <1>1, <1>2, <1>3, <1>4, <1>5, <1>6, <1>7, <1>8, <1>9, <1>10, <1>11, <1>12,
             <1>13, <1>14, <1>15, <1>16, <1>17, <1>18 DEF ConfigKeys

\* `quiet add` and `quiet remove` leave a list of windows in good order.
LEMMA QuietListed ==
    ASSUME NEW s, HoursListed(s), NEW v
    PROVE  /\ HoursListed(QuietAdd(s, v).s) /\ HoursListed(QuietRemove(s, v).s)
           /\ HoursListed(QuietClear(s).s) /\ quiet_windows(QuietClear(s).s) = {}
           /\ QuietAdd(s, v).ok =>
                  [days |-> v.days, start |-> v.num, end |-> v.to] \in quiet_windows(QuietAdd(s, v).s)
  <1> DEFINE hours == Get(s, "quiet_hours", <<>>)
             w == [days |-> v.days, start |-> v.num, end |-> v.to]
  <1>1. hours \in Seq(QuietWindow)
    <2>1. <<>> \in Seq(QuietWindow)
      OBVIOUS
    <2> QED BY <2>1 DEF HoursListed, Get
  <1>2. ASSUME NEW h \in Seq(QuietWindow)
        PROVE  HoursListed(Put(s, "quiet_hours", h)) /\ Get(Put(s, "quiet_hours", h), "quiet_hours", <<>>) = h
    BY <1>2 DEF HoursListed, Put, Get
  <1>2a. QuietAdd(s, v) = Accept(v.word = "times" /\ w \in QuietWindow, s,
                              Put(s, "quiet_hours", Append(hours, w)))
    BY Zenon DEF QuietAdd
  <1> HIDE DEF hours, w
  <1>3. ASSUME v.word = "times" /\ w \in QuietWindow
        PROVE  HoursListed(QuietAdd(s, v).s) /\ w \in quiet_windows(QuietAdd(s, v).s)
    <2> DEFINE after == Append(hours, w)
    <2>1. after \in Seq(QuietWindow) /\ Len(after) = Len(hours) + 1 /\ after[Len(hours) + 1] = w
      BY <1>1, <1>3, AppendProperties
    <2>2. Len(hours) + 1 \in DOMAIN after
      BY <1>1, <2>1
    <2>3. Get(Put(s, "quiet_hours", after), "quiet_hours", <<>>) = after /\ HoursListed(Put(s, "quiet_hours", after))
      BY <1>2, <2>1
    <2> HIDE DEF after
    <2>4. w \in quiet_windows(Put(s, "quiet_hours", after))
      BY <1>3, <2>1, <2>2, <2>3, Zenon DEF quiet_windows
    <2>5. QuietAdd(s, v).s = Put(s, "quiet_hours", after)
      BY <1>3, <1>2a DEF Accept, OK, after
    <2> QED BY <2>3, <2>4, <2>5
  <1>4. ASSUME ~(v.word = "times" /\ w \in QuietWindow)
        PROVE  QuietAdd(s, v).s = s /\ ~QuietAdd(s, v).ok
    BY <1>4, <1>2a DEF Accept, Refused
  <1>5. /\ HoursListed(QuietAdd(s, v).s)
        /\ QuietAdd(s, v).ok => w \in quiet_windows(QuietAdd(s, v).s)
    BY <1>3, <1>4
  <1>6. HoursListed(QuietRemove(s, v).s)
    <2>1. CASE v.num \in 1..Len(hours)
      <3>1. Len(hours) \in Nat /\ \A i \in 1..Len(hours) : hours[i] \in QuietWindow
        BY <1>1
      <3>2. /\ SubSeq(hours, 1, v.num - 1) \in Seq(QuietWindow)
            /\ SubSeq(hours, v.num + 1, Len(hours)) \in Seq(QuietWindow)
        <4>1. v.num - 1 \in Int /\ v.num + 1 \in Int /\ Len(hours) \in Int
          BY <2>1, <3>1
        <4>2. \A i \in 1..(v.num - 1) : hours[i] \in QuietWindow
          BY <2>1, <3>1
        <4>3. \A i \in (v.num + 1)..Len(hours) : hours[i] \in QuietWindow
          BY <2>1, <3>1
        <4> QED BY <4>1, <4>2, <4>3, SubSeqProperties
      <3>3. Without(hours, v.num) \in Seq(QuietWindow)
        BY <3>2, ConcatProperties DEF Without
      <3> QED BY <1>2, <2>1, <3>3 DEF QuietRemove, Accept, OK, hours
    <2>2. CASE v.num \notin 1..Len(hours)
      BY <2>2 DEF QuietRemove, Accept, Refused, hours
    <2> QED BY <2>1, <2>2
  <1>7. HoursListed(QuietClear(s).s) /\ quiet_windows(QuietClear(s).s) = {}
    <2>1. <<>> \in Seq(QuietWindow) /\ DOMAIN <<>> = {}
      OBVIOUS
    <2> QED BY <1>2, <2>1 DEF QuietClear, OK, quiet_windows
  <1> QED BY <1>5, <1>6, <1>7 DEF w

\* No edit leaves the quiet hours in any other shape.
LEMMA EffectLists ==
    ASSUME NEW s, HoursListed(s), NEW e
    PROVE  HoursListed(Effect(s, e).s)
  <1> DEFINE t == Effect(s, e).s
  <1>1. Keeps("quiet_hours", s, t) => HoursListed(t)
    BY DEF Keeps, HoursListed
  <1>2. CASE e.key \in ConfigKeys
    BY <1>1, <1>2, ApplyKeeps DEF Effect, ConfigKeys, Apart
  <1>3. CASE e.key \in QuietKeys
    BY <1>3, QuietListed DEF Effect, ConfigKeys, QuietKeys
  <1>4. CASE e.key \notin ConfigKeys \cup QuietKeys
    <2>1. ASSUME NEW n, n # "quiet_hours", NEW x PROVE Keeps("quiet_hours", s, Put(s, n, x))
      BY <2>1, PutKeeps
    <2>2. Keeps("quiet_hours", s, Drop(s, {"listen_port"})) /\ Keeps("quiet_hours", s, s)
      BY DropKeeps, SameKeeps
    <2>3. CASE e.key = "settle"
      BY <1>1, <2>1, <2>2, <2>3 DEF Effect, ConfigKeys, settle_scope, OK
    <2>4. CASE e.key = "port"
      <3>1. Effect(s, e) = PortOption(s, e.val)
        BY <2>4 DEF Effect, ConfigKeys
      <3>2. \/ PortOption(s, e.val) = OK(Put(s, "listen_port", e.val.num))
            \/ PortOption(s, e.val) = Refused(s)
        BY Zenon DEF PortOption, Accept
      <3>3. Keeps("quiet_hours", s, Put(s, "listen_port", e.val.num))
        BY <2>1
      <3> QED BY <1>1, <2>2, <3>1, <3>2, <3>3 DEF OK, Refused
    <2>5. CASE e.key = "id"
      BY <1>1, <2>1, <2>2, <2>5 DEF Effect, ConfigKeys, OK, node_id
    <2>6. CASE e.key \in {"dir-option", "no-port"}
      BY <1>1, <2>1, <2>2, <2>6 DEF Effect, ConfigKeys, OK, DirOption, NoPort
    <2>7. CASE e.key \notin {"settle", "port", "id", "dir-option", "no-port"}
      BY <1>1, <1>4, <2>1, <2>7 DEF Effect, QuietKeys, OK, SaveAnswer
    <2> QED BY <2>3, <2>4, <2>5, <2>6, <2>7
  <1> QED BY <1>2, <1>3, <1>4

\* So it is with what is typed for everything else.
LEMMA AcceptedIsRead ==
    ASSUME NEW s, HoursListed(s), NEW e, e.val.num \in Nat, NEW env, Effect(s, e).ok
    PROVE  ReadBack(Effect(s, e).s, e, env)
  <1> DEFINE r == Effect(s, e)
  <1>1. CASE e.key \in ConfigKeys
    BY <1>1, ConfigIsRead
  <1>2. CASE e.key = "quiet-add"
    BY <1>2, QuietListed DEF Effect, ConfigKeys, ReadBack
  <1>3. CASE e.key = "quiet-clear"
    BY <1>3, QuietListed DEF Effect, ConfigKeys, ReadBack
  <1>4. CASE e.key = "port"
    <2>1. r = PortOption(s, e.val)
      BY <1>4 DEF Effect, ConfigKeys
    <2>2. r.s = Put(s, "listen_port", e.val.num)
      BY <2>1 DEF PortOption, Accept, OK, Refused
    <2> QED BY <1>4, <2>2, PutGets DEF ReadBack, listen_port
  <1>5. CASE e.key = "told"
    <2>1. r.s = Put(s, "seed_access_granted", e.val.word = "yes")
      BY <1>5 DEF Effect, ConfigKeys, OK, SaveAnswer
    <2>2. seed_access_cached(r.s) = (e.val.word = "yes")
      BY <2>1 DEF seed_access_cached, Put, Get
    <2> QED BY <1>5, <2>2 DEF ReadBack
  <1>6. CASE e.key = "no-port"
    <2>1. r.s = Drop(s, {"listen_port"})
      BY <1>6 DEF Effect, ConfigKeys, OK, NoPort
    <2>2. Get(r.s, "listen_port", 0) = 0
      BY <2>1 DEF Drop, Get
    <2>3. listen_port(r.s, env) = env.listen
      <3> HIDE DEF r
      <3> QED BY <2>2 DEF listen_port
    <2> QED BY <1>6, <2>3 DEF ReadBack
  <1>7. CASE e.key = "dir-option"
    <2>1. r.s = Put(s, "storage_dir", e.val.word)
      BY <1>7 DEF Effect, ConfigKeys, OK, DirOption
    <2>2. Get(r.s, "storage_dir", "") = e.val.word
      BY <2>1 DEF Put, Get
    <2>3. downloads_dir(r.s) = IF Trimmed(e.val.word) = "" THEN "downloads" ELSE e.val.word
      <3> HIDE DEF r
      <3> QED BY <2>2 DEF downloads_dir
    <2> QED BY <1>7, <2>3 DEF ReadBack
  <1>8. CASE e.key \notin ConfigKeys \cup {"quiet-add", "quiet-clear", "port", "told", "no-port", "dir-option"}
    BY <1>8 DEF ReadBack, ConfigKeys
  <1> QED BY <1>1, <1>2, <1>3, <1>4, <1>5, <1>6, <1>7, <1>8

\* So are they in both files and in what every process holds.
Listed == HoursListed(live.s) /\ HoursListed(part.s) /\ \A p \in Processes : HoursListed(mem[p])

LEMMA BlankListed == HoursListed(Blank)
  BY DEF HoursListed, Blank

LEMMA ListedStart == Init => Listed
  BY BlankListed DEF Init, Listed, NoFile

\* A file comes to hold what it or the other held, what a process held, or
\* nothing; a process, what it held, what the file does, nothing, or an edit's
\* outcome.
LEMMA ListedStep == Typed /\ Listed /\ [Next]_vars => Listed'
  <1> SUFFICES ASSUME Typed, Listed, [Next]_vars PROVE Listed'
    OBVIOUS
  <1>1. CASE UNCHANGED vars
    BY <1>1 DEF vars, files, process, Listed, HoursListed
  <1>2. CASE PowerCut \/ \E p \in Processes : Crash(p)
    <2>1. PICK P : Die(P)
      BY <1>2 DEF PowerCut, Crash
    <2>2. part' \in {part, NoFile} /\ live' \in {live, Empty}
      BY <1>2 DEF PowerCut, Crash, files
    <2>3. \A q \in Processes : mem'[q] \in {Blank, mem[q]}
      BY <2>1 DEF Die, Dead
    <2> QED BY <2>2, <2>3, BlankListed DEF Listed, HoursListed, NoFile, Empty
  <1>3. ASSUME NEW p \in Processes, (\E program : Begin(p, program)) \/ Ends(p) PROVE Listed'
    <2>1. live' = live /\ part' = part
      BY <1>3 DEF Begin, Ends, files
    <2>2. \A q \in Processes : mem'[q] \in {Blank, current, mem[q]}
      BY <1>3 DEF Begin, Ends, Typed, Shapes
    <2> QED BY <2>1, <2>2, BlankListed DEF Listed, HoursListed, current
  <1>4. ASSUME NEW p \in Processes, Edits(p) PROVE Listed'
    <2> DEFINE t == Effect(mem[p], Named(Head(todo[p]))).s
    <2>1. HoursListed(t)
      BY EffectLists DEF Listed
    <2>2. live' = live /\ part' \in {part, Empty} /\ mem' = [mem EXCEPT ![p] = t]
      BY <1>4 DEF Edits
    <2> HIDE DEF t
    <2>3. \A q \in Processes : mem'[q] \in {t, mem[q]}
      BY <2>2 DEF Typed, Shapes
    <2> QED BY <2>1, <2>2, <2>3, BlankListed DEF Listed, HoursListed, Empty
  <1>5. ASSUME NEW p \in Processes, Writes(p) \/ WriteFails(p) PROVE Listed'
    <2>1. mem' = mem /\ part' \in {part, Garbled, Whole(mem[p])} /\ live' \in {live, Garbled, Whole(mem[p])}
      BY <1>5 DEF Writes, WriteFails, Written
    <2>2. Garbled.s = Blank /\ Whole(mem[p]).s = mem[p]
      BY DEF Garbled, Whole
    <2> QED BY <2>1, <2>2, BlankListed DEF Listed, HoursListed
  <1>6. ASSUME NEW p \in Processes, Publishes(p) PROVE Listed'
    <2>1. mem' = mem /\ live' \in {live, part} /\ part' \in {part, NoFile}
      BY <1>6 DEF Publishes, files
    <2> QED BY <2>1, BlankListed DEF Listed, HoursListed, NoFile
  <1> QED BY <1>1, <1>2, <1>3, <1>4, <1>5, <1>6, StepsOf DEF Step

\* At any time, what `config`, `quiet` and the node itself accept for a setting
\* is what the node will read for it, in any environment that does not override
\* it: no bound or unit on the way in differs from that on the way out, and no
\* upload rate is too large for its 32 bits (cfg.rs apply, the readers of
\* config.rs).
THEOREM AcceptedIsInForce == Spec => []AcceptedIsReadBack
  <1>1. Init => Typed /\ Listed
    BY InitTyped, ListedStart
  <1>2. Typed /\ Listed /\ [Next]_vars => (Typed /\ Listed)'
    BY TypeStep, ListedStep
  <1>3. Listed => AcceptedIsReadBack
    <2> SUFFICES ASSUME Listed, NEW e \in Typable, NEW env \in Envs, Effect(current, e).ok
                 PROVE  ReadBack(Effect(current, e).s, e, env)
      BY DEF AcceptedIsReadBack
    <2> QED BY AcceptedIsRead, SettingsAssumption DEF Listed, current
  <1> QED BY <1>1, <1>2, <1>3, PTL DEF Spec
=============================================================================
