------------------------------ MODULE Encoder ------------------------------
(***************************************************************************)
(* encode_bencode_value (bencode.rs): the bytes that are hashed to name a   *)
(* torrent.  The recursion is over what is inside a value, level by level.  *)
(***************************************************************************)
EXTENDS Bencode, FiniteSets

CONSTANT ByteOrder    \* the bytes, in their order

ASSUME OrderAssumption ==
    /\ ByteOrder \in Seq(STRING)
    /\ \A i, j \in DOMAIN ByteOrder : ByteOrder[i] = ByteOrder[j] => i = j

Below(a, b) == \E i, j \in DOMAIN ByteOrder : i < j /\ ByteOrder[i] = a /\ ByteOrder[j] = b

\* The order of keys: by the first byte that differs, a prefix first.
Before(s, t) ==
    \E n \in 0 .. Len(s) :
        /\ n <= Len(t) /\ \A i \in 1 .. n : s[i] = t[i]
        /\ IF n < Len(s) /\ n < Len(t) THEN Below(s[n + 1], t[n + 1])
           ELSE n = Len(s) /\ n < Len(t)

\* Mutant: a walk from the last key to the first.
KeysReversed(d) ==
    CHOOSE keys \in [1 .. Cardinality(DOMAIN d) -> DOMAIN d] :
        \A i, j \in DOMAIN keys : i < j => Before(keys[j], keys[i])

\* A BTreeMap is walked in the order of its keys.
KeysOf(d) ==
    CHOOSE keys \in [1 .. Cardinality(DOMAIN d) -> DOMAIN d] :
        \A i, j \in DOMAIN keys : i < j => Before(keys[i], keys[j])

\* to_string() of what is not negative.
Numeral(n) ==
    LET upTo[m \in 0 .. n] ==
            (IF m < 10 THEN <<>> ELSE upTo[m \div 10]) \o <<Digits[(m % 10) + 1]>>
    IN  upTo[n]

EncodeText(s) == Numeral(Len(s)) \o <<":">> \o s

\* What a value has inside, in the order of the walk.
Inside(v) ==
    CASE "list" \in DOMAIN v -> v.list
      [] "dict" \in DOMAIN v ->
            LET keys == KeysOf(v.dict) IN [i \in DOMAIN keys |-> v.dict[keys[i]]]
      [] OTHER -> <<>>

\* The first n texts, one after the other.
Joined(texts, n) ==
    LET upTo[m \in 0 .. n] == IF m = 0 THEN <<>> ELSE upTo[m - 1] \o texts[m]
    IN  upTo[n]

\* A value as bytes, when what is inside it has become the texts.
Written(v, texts) ==
    CASE "int"  \in DOMAIN v -> <<"i">> \o (IF v.int < 0 THEN <<"-">> \o Numeral(-v.int)
                                          ELSE Numeral(v.int)) \o <<"e">>
      [] "str"  \in DOMAIN v -> EncodeText(v.str)
      [] "list" \in DOMAIN v -> <<"l">> \o Joined(texts, Len(v.list)) \o <<"e">>
      [] "dict" \in DOMAIN v ->
            LET keys == KeysOf(v.dict)
            IN  <<"d">> \o Joined([i \in DOMAIN keys |-> EncodeText(keys[i]) \o texts[i]], Len(keys))
                        \o <<"e">>

\* The values at each depth of v.
Levels(v) ==
    LET level[n \in Nat] ==
            IF n = 0 THEN {v}
            ELSE UNION {LET parts == Inside(u) IN {parts[i] : i \in DOMAIN parts} : u \in level[n - 1]}
    IN  level

\* encode_bencode_value
Encode(v) ==
    LET text[n \in Nat] ==
            [u \in Levels(v)[n] |->
                LET parts == Inside(u)
                IN  Written(u, [i \in DOMAIN parts |-> text[n + 1][parts[i]]])]
    IN  text[0][v]
=============================================================================
