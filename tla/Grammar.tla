------------------------------ MODULE Grammar ------------------------------
(***************************************************************************)
(* Bencode as a language: which values a string of bytes stands for, said   *)
(* without a decoder.                                                       *)
(***************************************************************************)
EXTENDS Encoder

Cut(s, m, n) == SubSeq(s, m, n)

\* Written the one way an encoder writes it: no plus sign, no leading zero.
Canonical(numeral) ==
    LET t == Unsigned(numeral, {"-"})
    IN  IsNumeral(t) /\ (t[1] = "0" => numeral = <<"0">>)

\* The texts that s stands for as a byte string with its length.
Texts(s, strict) ==
    {Cut(s, i + 1, Len(s)) : i \in {i \in 2 .. Len(s) :
        /\ s[i] = ":" /\ \A j \in 1 .. (i - 1) : s[j] # ":"
        /\ (Len(s) - i) \in ParseUsize(Cut(s, 1, i - 1))
        /\ strict => Canonical(Cut(s, 1, i - 1))}}

\* The bytes s stand for a value, for what is in a list or for what is in a
\* dictionary; M is what shorter ones stand for.
ValueOf(M, s, strict) ==
    IF Len(s) < 2 THEN {}
    ELSE LET inner == Cut(s, 2, Len(s) - 1)
             ends  == s[Len(s)] = "e"
         IN  CASE s[1] \in Digit -> {[str |-> t] : t \in Texts(s, strict)}
               [] s[1] = "i" /\ ends /\ (\A j \in DOMAIN inner : inner[j] # "e") ->
                     {[int |-> n] : n \in {n \in ParseI64(inner) : strict => Canonical(inner)}}
               [] s[1] = "l" /\ ends -> {[list |-> l] : l \in M[<<"list", inner, strict>>]}
               [] s[1] = "d" /\ ends -> {[dict |-> d] : d \in M[<<"dict", inner, strict>>]}
               [] OTHER -> {}

\* A value, and the rest of the list.
ListOf(M, s, strict) ==
    IF s = <<>> THEN {<<>>}
    ELSE UNION {UNION {{<<v>> \o l : l \in M[<<"list", Cut(s, i + 1, Len(s)), strict>>]} :
                          v \in M[<<"value", Cut(s, 1, i), strict>>]} : i \in DOMAIN s}

\* d with a value for k, which counts unless d has one.
Under(d, k, v) == [x \in DOMAIN d \cup {k} |-> IF x \in DOMAIN d THEN d[x] ELSE v]

\* A key, a value and the rest of the dictionary: of two equal keys the later
\* one counts.
DictOf(M, s, strict) ==
    IF s = <<>> THEN {<<>>}
    ELSE UNION {UNION {UNION {{Under(d, k, v) :
                                  d \in {d \in M[<<"dict", Cut(s, j + 1, Len(s)), strict>>] :
                                            strict => \A x \in DOMAIN d : Before(k, x)}} :
                                 v \in M[<<"value", Cut(s, i + 1, j), strict>>]} :
                          k \in Texts(Cut(s, 1, i), strict), j \in (i + 1) .. Len(s)} :
                   i \in DOMAIN s}

Word == {"value", "list", "dict"} \X Seq(STRING) \X BOOLEAN

Meaning[w \in Word] ==
    CASE w[1] = "value" -> ValueOf(Meaning, w[2], w[3])
      [] w[1] = "list"  -> ListOf(Meaning, w[2], w[3])
      [] w[1] = "dict"  -> DictOf(Meaning, w[2], w[3])

\* The values that s stands for; strict: in the form that the encoder gives them.
Values(s, strict) == Meaning[<<"value", s, strict>>]
=============================================================================
