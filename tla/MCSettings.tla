----------------------------- MODULE MCSettings -----------------------------
(* A small instance of Settings: a day of four minutes; a few edits for each *)
(* process to race with, and for each setting what is typed at its bounds    *)
(* and beyond them.                                                          *)
EXTENDS Settings

By(who, key, vals) == {[by |-> who, key |-> key, val |-> v] : v \in vals}
Words(W)   == {Word(w) : w \in W}
Numbers(N) == {Number(n) : n \in N}
Sizes      == {Sized(0, "gb"), Sized(500, "mb"), Sized(5119, "mb"), Sized(5120, "mb"), Sized(2, "tb")}

Hours == {<<3, 1>>, <<2, 1>>, <<1, 2>>}

Environments ==
    {[port |-> 0, listen |-> 0, ip |-> ""], [port |-> 7, listen |-> 0, ip |-> "exit"],
     [port |-> 0, listen |-> 9, ip |-> ""]}

Racing ==
    UNION {
        By(Commands, "reset", Words({""})), By(Commands, "quiet-remove", Numbers({1})),
        By(Commands, "quiet-add", {Weekly({0, 3}, 3, 1)}), By(Commands, "schedule", {Times(3, 1)}),
        By(Commands, "told", Words({"no"})),
        By({"menu"}, "window", Numbers({99, 100})),
        By({"node"}, "settle", {[Word("full") EXCEPT !.num = 1]}),
        By({"node"}, "port", Numbers({0})),
        By({"node"}, "gate", Words({"yes"})), By({"node"}, "approved", Words({"yes"})),
        By({"beat"}, "mode", Words({"p2p"})) }

Typing ==
    {[key |-> i.key, val |-> i.val] : i \in UNION {
        By({}, "scope", Words({"audio", "full", "picks", "everything"})),
        By({}, "dir", Words({"disk", "gone"})),
        By({}, "dir-option", Words({"disk", "gone", "blank", ""})),
        By({}, "upload", Numbers({0, 1, 3, 4, 5}) \cup Words({"off", "fast"})),
        By({}, "monthly-cap", Numbers({0, 7}) \cup Words({"off", "nan", "lots"}) \cup Sizes),
        By({}, "schedule", {Times(a, b) : a, b \in 0..4} \cup Words({"off", "never"})),
        By({}, "public-port", Numbers({0, 1, 65535, 65536})),
        By({}, "natpmp", Words({"on", "off", "perhaps"})), By({}, "p2p", Words({"on", "off"})),
        By({}, "dht", Words({"on", "off"})), By({}, "public-ip", Words({"auto", "address", "blank"})),
        By({}, "port", Numbers({0, 1, 65535, 65536}) \cup Words({"own"})), By({}, "no-port", Words({""})), By({}, "told", Words({"yes", "no"})),
        By({}, "source", Words({"auto", "cdn", "archive", "tape"})),
        By({}, "downloads", Numbers({0, 1, 2, 16, 17})), By({}, "peers", Numbers({1, 2, 200, 201})),
        By({}, "discovered", Numbers({0, 64})), By({}, "rotate", Numbers({0, 1})),
        By({}, "window", Numbers({0, 99, 100}) \cup Words({"auto"})),
        By({}, "quiet-add", {Weekly(d, a, b) : d \in {{}, {0, 6}}, a, b \in {0, 3, 4}}),
        By({}, "quiet-clear", Words({""})), By({}, "quiet-remove", Numbers({0, 1})),
        By({}, "keep-free", Numbers({0, 4, 5, 6}) \cup Words({"inf"}) \cup Sizes), By({}, "reset", Words({""})) }}
=============================================================================
