----------------------------- MODULE MCStartup -----------------------------
(* Small inputs of Startup for TLC. *)
EXTENDS StartupRef, TLC

CONSTANTS f1, f2, f3

-----------------------------------------------------------------------------
\* Texts: two URLs that are fine, five that are not, and no UTF-8.
ParsedUrl(text) ==
    LET domain(scheme, labels) ==
            [ok |-> TRUE, host |-> TRUE, scheme |-> scheme, domain |-> labels]
    IN  CASE text = <<"u">> -> domain("udp", <<"tracker", "org">>)
          [] text = <<"v">> -> domain("https", <<>>)
          [] text = <<"s">> -> domain("http", <<"localhost">>)
          [] text = <<"w">> -> domain("wss", <<"tracker", "org">>)
          [] text = <<"m">> -> domain("http", <<"nas", "local">>)
          [] text = <<"h">> -> [domain("udp", <<>>) EXCEPT !.host = FALSE]
          [] OTHER -> [domain("", <<>>) EXCEPT !.ok = FALSE]

NoUtf8 == {<<"?">>}

\* The bytes of the inputs; a digest that no two texts share.
AllBytes ==
    <<"+", "-", "0", "1", "2", "3", "4", "5", "6", "7", "8", "9", ":", "?", "announce",
      "announce-list", "d", "e", "encoding", "files", "h", "i", "info", "l", "length", "m", "n",
      "name", "private", "s", "u", "v", "w", "x">>

Same(bytes) == bytes

-----------------------------------------------------------------------------
\* A file of some bytes, and the start with one file and no configuration.
Bytes(s) == [in |-> ".", torrent |-> TRUE, readable |-> TRUE, data |-> s]
Other    == [in |-> ".", torrent |-> FALSE, readable |-> TRUE, data |-> <<>>]
Lost     == [in |-> ".", torrent |-> TRUE, readable |-> FALSE, data |-> <<>>]
Away(s)  == [Bytes(s) EXCEPT !.in = "d"]

Missing == [kind |-> "missing", table |-> <<>>]
Garbled == [kind |-> "garbled", table |-> <<>>]
Toml(t) == [kind |-> "table", table |-> t]

Start(fs) ==
    [args |-> <<>>, contents |-> [p \in {"xdg"} |-> Missing], files |-> fs, creatable |-> TRUE]

One(x)    == f1 :> x
Two(x, y) == f1 :> x @@ f2 :> y

-----------------------------------------------------------------------------
\* All short strings, and loops over the pieces of values.
Short == UNION {[1 .. n -> {"i", "e", "l", "d", ":", "0", "1", "+", "-"}] : n \in 0 .. 4}

Pieces ==
    {<<"0", ":">>, <<"1", ":", "0">>, <<"i", "1", "e">>, <<"l", "e">>, <<"d">>, <<"e">>}

Pieced ==
    {<<c>> \o p \o q \o r \o s \o <<"e">> :
        c \in {"d", "l"}, p, q, r, s \in Pieces \cup {<<>>}}

Strings == Short \cup Pieced \cup {<<"d", "+", "0", ":", "0", ":", "e">>}

-----------------------------------------------------------------------------
Digit1(n) == <<Digits[n + 1]>>
Str(c)    == <<"1", ":", c>>
Num(n)    == <<"i">> \o (IF n < 0 THEN <<"-">> \o Digit1(-n) ELSE Digit1(n)) \o <<"e">>
Loop(c, s) == <<c>> \o s \o <<"e">>

Announce(c)  == Str("announce") \o Str(c)
Tiers1(s)    == Str("announce-list") \o Loop("l", s)
InfoOf(s)    == Str("info") \o Loop("d", s)
Name         == Str("name") \o Str("n")
Length(n)    == Str("length") \o Num(n)
Sizes(s)     == Str("files") \o Loop("l", s)
Size(n)      == Loop("d", Length(n))
Plain(c)     == Loop("d", Announce(c) \o InfoOf(Name))

GoodFiles ==
    {Plain("u"), Plain("v"), Plain("s"),
     Loop("d", Announce("u") \o InfoOf(Length(2) \o Name \o Str("private") \o Num(1))),
     Loop("d", Announce("u") \o InfoOf(Name \o Length(2))),
     Loop("d", InfoOf(Name) \o Announce("v")) \o <<"e">>,
     Loop("d", Announce("w") \o Tiers1(Loop("l", Str("u") \o Str("v") \o Str("u")) \o Num(1)
                  \o Loop("l", Num(1) \o Str("m"))) \o InfoOf(Name)),
     Loop("d", Announce("u") \o Str("encoding") \o Str("e")
                  \o InfoOf(Sizes(Size(7) \o Size(7) \o Size(3)) \o Length(1) \o Name)),
     Loop("d", Announce("u") \o InfoOf(Sizes(<<>>) \o Length(1) \o Name))}

BadFiles ==
    {Plain("w"), Plain("m"), Plain("h"), Plain("x"), Plain("?"),
     Loop("d", InfoOf(Name)), Loop("d", Announce("u")), Loop("l", <<>>),
     Loop("d", Announce("u") \o Str("info") \o Str("n")),
     Loop("d", Announce("u") \o InfoOf(Length(1))),
     Loop("d", Announce("u") \o InfoOf(Str("name") \o Num(1))),
     Loop("d", Announce("u") \o InfoOf(Str("name") \o Str("?"))),
     Loop("d", Announce("u") \o InfoOf(Length(-1) \o Name)),
     Loop("d", Announce("u") \o InfoOf(Sizes(Size(1) \o Size(-1)) \o Name)),
     Loop("d", Announce("u") \o InfoOf(Sizes(Num(1)) \o Name)),
     Loop("d", Announce("u") \o InfoOf(Sizes(Loop("d", <<>>)) \o Name)),
     Loop("d", Announce("u") \o Str("encoding") \o Str("?") \o InfoOf(Name)),
     <<"6", "3", ":">>, <<"l", "l", "l", "l", "l">>}

Entries == {Bytes(s) : s \in GoodFiles \cup BadFiles} \cup {Other, Lost, Away(Plain("u"))}

-----------------------------------------------------------------------------
\* Configurations: per key nothing, a value that fits, and some that do not.
Tables ==
    LET str(s) == [str |-> s]
        int(n) == [int |-> n]
        some(k) == CASE k = "use_pid_file" -> {[bool |-> TRUE], str("yes")}
                     [] k \in Rate -> {int(1), int(5), int(-1), str("1")}
                     [] k = "port" -> {int(0), str("1")}
                     [] k = "numwant" -> {int(3)}
                     [] k = "torrent_dir" -> {str("d"), int(1)}
                     [] OTHER -> {str("x")}
        opt(k) == {<<>>} \cup {[j \in {k} |-> v] : v \in some(k)}
        with(s, t) == {[k \in DOMAIN x \cup DOMAIN y |-> IF k \in DOMAIN x THEN x[k] ELSE y[k]] :
                          x \in s, y \in t}
    IN  with(with(with(opt("port"), opt("use_pid_file")),
                  with(opt("min_upload_rate"), opt("max_upload_rate"))),
             with(opt("numwant"), opt("torrent_dir")))

Configured(c, a, x) ==
    [args |-> a, contents |-> [p \in {"xdg", "p"} |-> IF p = "p" THEN c ELSE Garbled],
     files |-> One(x), creatable |-> FALSE]

Titled(c) == Bytes(Loop("d", Announce("u") \o InfoOf(Str("name") \o Str(c))))

SomeInputs ==
    {Start(One(Bytes(s))) : s \in Strings}
    \cup {Start(<<>>), Start(Two(Titled("1"), Titled("2")) @@ f3 :> Titled("0"))}
    \cup {Start(Two(x, y)) : x \in Entries,
                             y \in {Bytes(Plain("u")), Bytes(Plain("x")), Titled("1"), Other, Lost}}
    \cup {Configured(Toml(t), <<"x", "--config", "p">>, Other) : t \in Tables}
    \cup {Configured(c, a, x) : c \in {Missing, Garbled, Toml([k \in {"torrent_dir"} |-> [str |-> "d"]])},
                               a \in {<<>>, <<"-c">>, <<"-c", "p", "-c", "xdg">>},
                               x \in {Bytes(Plain("u")), Away(Plain("v")), Other}}
=============================================================================
