----------------------------- MODULE StartupRef -----------------------------
(***************************************************************************)
(* What a start must come to, said of its input alone: which value a file   *)
(* stands for (Grammar), which torrent that value describes, which torrents *)
(* a directory holds.                                                       *)
(***************************************************************************)
EXTENDS Startup, Grammar

\* The decoder takes the one prefix of its bytes that stands for a value, and
\* that value; it fails when no prefix does.  What follows is not looked at.  Of a
\* nesting too deep for the stack nothing is said: the process is no more.
DecodesTheGrammar ==
    /\ parse = "decode" /\ decoded = "ok" =>
          /\ Values(Slice(0, position), FALSE) = {value}
          /\ \A n \in 0 .. Len(data) : n # position => Values(Slice(0, n), FALSE) = {}
    /\ decoded \in {"error", "panic"} =>
          \A n \in 0 .. Len(data) : Values(Slice(0, n), FALSE) = {}

TextsOf(values) == {v.str : v \in {v \in values : "str" \in DOMAIN v}}

Items(v, name) ==
    IF Has(v, name, "list") THEN {Field(v, name).list[i] : i \in DOMAIN Field(v, name).list}
    ELSE {}

\* The URLs that a torrent names, in any place.
Named(v) ==
    TextsOf(UNION {{tier.list[i] : i \in DOMAIN tier.list} :
                     tier \in {t \in Items(v, "announce-list") : "list" \in DOMAIN t}})
    \cup (IF Has(v, "announce", "str") THEN {Field(v, "announce").str} ELSE {})

WellFormed(v) ==
    /\ "dict" \in DOMAIN v
    /\ \A text \in Named(v) : Utf8(text)
    /\ \E text \in Named(v) : IsSupportedUrl(text)
    /\ Has(v, "info", "dict")
    /\ LET info == Field(v, "info")
       IN  /\ Has(info, "name", "str") /\ Utf8(Field(info, "name").str)
           /\ Has(info, "length", "int") => Field(info, "length").int >= 0
           /\ \A file \in Items(info, "files") : HasLength(file)
    /\ Has(v, "encoding", "str") => Utf8(Field(v, "encoding").str)

\* The length of the first n files, for each n.
Sums(files_) ==
    LET upTo[n \in 0 .. Len(files_)] ==
            IF n = 0 THEN 0 ELSE upTo[n - 1] + Field(files_[n], "length").int
    IN  upTo

\* The length of a torrent: of its files, or of the one file.
LengthOf(info) ==
    IF Has(info, "files", "list")
    THEN LET files_ == Field(info, "files").list IN Sums(files_)[Len(files_)]
    ELSE IF Has(info, "length", "int") THEN Field(info, "length").int ELSE 0

\* A torrent is taken from exactly the values that describe one, with all the
\* trackers the program can talk to and with the length of all its files, up
\* to the width of a u64.
ParsedAsDescribed ==
    /\ parse = "error" /\ decoded = "ok" => ~WellFormed(value)
    /\ parse = "ok" =>
          /\ WellFormed(value)
          /\ {torrent.urls[i] : i \in DOMAIN torrent.urls} =
                {text \in Named(value) : IsSupportedUrl(text)}
          /\ torrent.length = LengthOf(Info) % U64

\* "This is needed because our simple decoder doesn't give us the raw byte range
\* of the 'info' dict" (bencode.rs:156): for a file in the form that encoders
\* write, what is hashed are the bytes of the info dictionary in the file.
HashIsOfTheFile ==
    parse = "ok" /\ Values(Slice(0, position), TRUE) # {} =>
        \E i \in 4 .. Len(data), j \in 1 .. Len(data) :
            /\ Cut(data, i - 3, i - 1) = <<"1", ":", "info">>
            /\ Info \in Values(Cut(data, i, j), TRUE)
            /\ torrent.hash = Sha1(Cut(data, i, j))

\* The hashes of the torrents that some bytes begin with: at most one.
HashesIn(bytes) ==
    {InfoHash(Field(v, "info")) : v \in {v \in
        UNION {Values(Cut(bytes, 1, n), FALSE) : n \in DOMAIN bytes} : WellFormed(v)}}

\* The torrents that the files of the directory describe.
Described == UNION {HashesIn(files[f].data) : f \in {f \in Folder : files[f].torrent}}

\* When the start goes on, or gives up for want of a torrent, the list holds the
\* torrents of the configured directory, each once; one bad file costs no other
\* its place.  This is what LoadTorrents of RatioUp takes for granted.  Were
\* there as many as a u16 counts, the start would end as if there were none.
ListsTheDirectory ==
    boot \in {"pid", "announce", "no torrent"} =>
        /\ {list[i].hash : i \in DOMAIN list} = Described
        /\ boot = "no torrent" <=> Cardinality(Described) % U16 = 0

\* Any start comes to an end: torrents to announce, none, or a panic.
StartEnds == <>(boot \in {"announce", "no torrent", "panicked"})
=============================================================================
