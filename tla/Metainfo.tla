------------------------------ MODULE Metainfo ------------------------------
(***************************************************************************)
(* Torrent::from_bencode_bytes (torrent.rs) and is_supported_url            *)
(* (tracker.rs): a torrent is taken out of the decoded value, or an error   *)
(* ends it.  Text is UTF-8 or not; what is in a URL is the url crate's.     *)
(***************************************************************************)
EXTENDS Encoder

CONSTANTS
    U64,            \* number of values of a u64
    Garbage,        \* texts that are no UTF-8
    Parsed(_),      \* Url::parse: [ok, scheme, host, domain] of a text
    Sha1(_)         \* the digest of some bytes

\* A length is an i64, and a u64 holds what is not negative of it.
ASSUME TotalAssumption == U64 \in Nat \ {0} /\ I64 <= U64

VARIABLES
    parse,     \* "no", "decode", "urls", "info", "files", "ok" or "error"
    todo,      \* the tiers of URLs or the files that are still to be read
    torrent    \* the fields read so far

parseVars == <<decoderVars, parse, todo, torrent>>

\* The value has the field, of this kind.
Has(v, name, kind) == <<name>> \in DOMAIN v.dict /\ kind \in DOMAIN v.dict[<<name>>]
Field(v, name) == v.dict[<<name>>]

Utf8(text) == text \notin Garbage

InfoHash(info) == Sha1(Encode(info))

\* url.domain is the sequence of the labels of the host, empty for an IP
\* address; the branch for a domain without a dot is never taken.
IsSupportedUrl(text) ==
    LET url == Parsed(text)
    IN  /\ url.ok /\ url.host
        /\ url.scheme \in {"http", "https", "udp"}
        /\ url.domain = <<>> \/ url.domain[Len(url.domain)] # "local"

NoTorrent == [urls |-> <<>>, hash |-> <<>>, name |-> <<>>, length |-> 0, private |-> FALSE]

-----------------------------------------------------------------------------
ParseFails ==
    /\ parse' = "error"
    /\ UNCHANGED <<decoderVars, todo, torrent>>

\* `decoder.decode()?`; a panic or an overflow ends more than this.
Decode ==
    /\ parse = "decode"
    /\ DecodeStep
    /\ parse' = IF decoded' = "error" THEN "error" ELSE parse
    /\ UNCHANGED <<todo, torrent>>

\* announce-list, and then announce as if it were a last tier.
Tiers ==
    (IF Has(value, "announce-list", "list") THEN Field(value, "announce-list").list ELSE <<>>)
    \o (IF Has(value, "announce", "str")
        THEN <<[list |-> <<Field(value, "announce")>>]>> ELSE <<>>)

TopLevel ==
    /\ parse = "decode" /\ decoded = "ok"
    /\ \/ "dict" \notin DOMAIN value /\ ParseFails
       \/ /\ "dict" \in DOMAIN value
          /\ todo' = Tiers
          /\ torrent' = NoTorrent
          /\ parse' = "urls"
          /\ UNCHANGED decoderVars

InTier == todo # <<>> /\ "list" \in DOMAIN todo[1] /\ todo[1].list # <<>>
Entry == todo[1].list[1]

\* Mutant: a URL is compared with the one before it only.
KnownUrlLast(text) == torrent.urls # <<>> /\ torrent.urls[Len(torrent.urls)] = text

KnownUrl(text) == \E i \in DOMAIN torrent.urls : torrent.urls[i] = text

TakeUrl ==
    /\ parse = "urls" /\ InTier
    /\ \/ /\ "str" \in DOMAIN Entry /\ ~Utf8(Entry.str)
          /\ ParseFails
       \/ /\ "str" \in DOMAIN Entry => Utf8(Entry.str)
          /\ todo' = <<[list |-> Tail(todo[1].list)]>> \o Tail(todo)
          /\ torrent' =
                IF "str" \in DOMAIN Entry /\ ~KnownUrl(Entry.str) /\ IsSupportedUrl(Entry.str)
                THEN [torrent EXCEPT !.urls = Append(@, Entry.str)] ELSE torrent
          /\ UNCHANGED <<decoderVars, parse>>

NextTier ==
    /\ parse = "urls" /\ todo # <<>> /\ ~InTier
    /\ todo' = Tail(todo)
    /\ UNCHANGED <<decoderVars, parse, torrent>>

UrlsEnd ==
    /\ parse = "urls" /\ todo = <<>>
    /\ parse' = IF torrent.urls = <<>> THEN "error" ELSE "info"
    /\ UNCHANGED <<decoderVars, todo, torrent>>

-----------------------------------------------------------------------------
Info == Field(value, "info")

HasInfo ==
    /\ Has(value, "info", "dict")
    /\ Has(Info, "name", "str")
    /\ Utf8(Field(Info, "name").str)
    /\ Has(Info, "length", "int") => Field(Info, "length").int >= 0

\* The hash, the name and the length of a single file; `files` is summed up
\* from 0 instead, even when there are none.
TakeInfo ==
    /\ parse = "info"
    /\ \/ ~HasInfo /\ ParseFails
       \/ /\ HasInfo
          /\ torrent' = [torrent EXCEPT
                !.hash = InfoHash(Info),
                !.name = Field(Info, "name").str,
                !.length = IF Has(Info, "files", "list") \/ ~Has(Info, "length", "int")
                           THEN 0 ELSE Field(Info, "length").int]
          /\ todo' = IF Has(Info, "files", "list") THEN Field(Info, "files").list ELSE <<>>
          /\ parse' = "files"
          /\ UNCHANGED decoderVars

HasLength(file) ==
    "dict" \in DOMAIN file /\ Has(file, "length", "int") /\ Field(file, "length").int >= 0

\* Mutant: a file counts once for all files of its length.
TakeFileOnce ==
    /\ parse = "files" /\ todo # <<>>
    /\ \/ ~HasLength(todo[1]) /\ ParseFails
       \/ /\ HasLength(todo[1])
          /\ torrent' = [torrent EXCEPT !.length = Field(todo[1], "length").int]
          /\ todo' = Tail(todo)
          /\ UNCHANGED <<decoderVars, parse>>

\* The release build wraps.
TakeFile ==
    /\ parse = "files" /\ todo # <<>>
    /\ \/ ~HasLength(todo[1]) /\ ParseFails
       \/ /\ HasLength(todo[1])
          /\ torrent' = [torrent EXCEPT
                !.length = (@ + Field(todo[1], "length").int) % U64]
          /\ todo' = Tail(todo)
          /\ UNCHANGED <<decoderVars, parse>>

FinishParse ==
    /\ parse = "files" /\ todo = <<>>
    /\ \/ /\ Has(value, "encoding", "str") /\ ~Utf8(Field(value, "encoding").str)
          /\ ParseFails
       \/ /\ Has(value, "encoding", "str") => Utf8(Field(value, "encoding").str)
          /\ torrent' = [torrent EXCEPT !.private =
                Has(Info, "private", "int") /\ Field(Info, "private").int = 1]
          /\ parse' = "ok"
          /\ UNCHANGED <<decoderVars, todo>>

ParseStep ==
    \/ Decode \/ TopLevel
    \/ TakeUrl \/ NextTier \/ UrlsEnd
    \/ TakeInfo \/ TakeFile \/ FinishParse

-----------------------------------------------------------------------------
\* The announces of a torrent go to each of its trackers once, and to none that
\* is no tracker the program can talk to; a torrent without one is refused.
UrlsClean ==
    /\ \A i, j \in DOMAIN torrent.urls : torrent.urls[i] = torrent.urls[j] => i = j
    /\ \A i \in DOMAIN torrent.urls :
          IsSupportedUrl(torrent.urls[i]) /\ Utf8(torrent.urls[i])
    /\ parse \in {"info", "files", "ok"} => torrent.urls # <<>>
=============================================================================
