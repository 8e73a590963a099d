------------------------------- MODULE Config -------------------------------
(***************************************************************************)
(* Config::load_from_file (config.rs): the keys of the file are read one    *)
(* after the other into a default configuration.  Some values that do not   *)
(* fit are ignored, others end the loading there and then.                  *)
(*                                                                         *)
(* A TOML value is a record with the field int, bool or str, see TomlValue. *)
(***************************************************************************)
EXTENDS Integers, Sequences

CONSTANTS
    U32,                    \* number of values of a u32
    U16,                    \* number of values of a u16
    DefaultMin, DefaultMax  \* 8192 and 2097152

ASSUME ConfigAssumption ==
    /\ U32 \in Nat \ {0} /\ U16 \in Nat \ {0}
    /\ DefaultMin \in 0 .. (U32 - 1) /\ DefaultMax \in DefaultMin .. (U32 - 1)

TomlValue == [int : Int] \cup [bool : BOOLEAN] \cup [str : STRING]

VARIABLES
    content,  \* what is at the path: its kind and, if it is TOML, its table
    config,   \* the configuration: a value per key
    key,      \* the number of the key to be read
    load      \* "before", "keys" or "done"

configVars == <<content, config, key, load>>

KeyOrder == <<"client", "port", "numwant", "use_pid_file", "min_upload_rate",
              "max_upload_rate", "torrent_dir", "output_stats">>

Key == {KeyOrder[i] : i \in DOMAIN KeyOrder}

\* Config::default(); the port 0 stands for one drawn at random, the numwant 0
\* and the output_stats "" for None.
Default ==
    [k \in Key |-> CASE k = "use_pid_file"    -> FALSE
                     [] k = "min_upload_rate" -> DefaultMin
                     [] k = "max_upload_rate" -> DefaultMax
                     [] k = "torrent_dir"     -> "."
                     [] k = "client"          -> "Transmission_3_00"
                     [] k = "output_stats"    -> ""
                     [] OTHER                 -> 0]

Rate == {"min_upload_rate", "max_upload_rate"}

\* A value of these keys that does not fit ends the loading.
Strict == Rate \cup {"use_pid_file"}

Fits(k, v) ==
    \/ k \in {"client", "torrent_dir", "output_stats"} /\ "str" \in DOMAIN v
    \/ k \in {"port", "numwant"} /\ "int" \in DOMAIN v /\ v.int \in 1 .. (U16 - 1)
    \/ k = "use_pid_file" /\ "bool" \in DOMAIN v
    \/ k \in Rate /\ "int" \in DOMAIN v

\* Mutant: a rate keeps its width.
TakenWide(k, v) ==
    IF "int" \in DOMAIN v THEN v.int
    ELSE IF "str" \in DOMAIN v THEN v.str ELSE v.bool

\* `value as u32` cuts a rate to its width.
Taken(k, v) ==
    IF k \in Rate THEN v.int % U32
    ELSE IF "int" \in DOMAIN v THEN v.int
    ELSE IF "str" \in DOMAIN v THEN v.str ELSE v.bool

SpeedsOk(c) == c["min_upload_rate"] <= c["max_upload_rate"]

-----------------------------------------------------------------------------
\* The rates in order: the swap at the end of load_from_file.
Ordered(c) ==
    IF SpeedsOk(c) THEN c
    ELSE [c EXCEPT !["min_upload_rate"] = c["max_upload_rate"],
                   !["max_upload_rate"] = c["min_upload_rate"]]

\* No file that can be read: the default, through the swap; no TOML: without.
OpenConfig ==
    /\ load = "before"
    /\ config' = Default
    /\ load' = IF content.kind = "table" THEN "keys" ELSE "done"
    /\ key' = 1
    /\ UNCHANGED content

CurrentKey == KeyOrder[key]
Given == CurrentKey \in DOMAIN content.table
Value == content.table[CurrentKey]

NextKey ==
    /\ load = "keys" /\ key \in DOMAIN KeyOrder
    /\ key' = key + 1
    /\ UNCHANGED <<content, load>>

TakeKey ==
    /\ NextKey /\ Given /\ Fits(CurrentKey, Value)
    /\ config' = [config EXCEPT ![CurrentKey] = Taken(CurrentKey, Value)]

SkipKey ==
    /\ NextKey
    /\ Given => ~Fits(CurrentKey, Value) /\ CurrentKey \notin Strict
    /\ UNCHANGED config

\* Mutant: an early return that orders the rates would be none.
GiveUpSkips ==
    /\ NextKey /\ Given /\ ~Fits(CurrentKey, Value) /\ CurrentKey \in Strict
    /\ UNCHANGED config

\* `return config`: what was read so far, the rates in any order.
GiveUp ==
    /\ load = "keys" /\ key \in DOMAIN KeyOrder
    /\ Given /\ ~Fits(CurrentKey, Value) /\ CurrentKey \in Strict
    /\ load' = "done"
    /\ UNCHANGED <<content, config, key>>

\* Mutant: the rates are left as they are.
OrderRatesNot ==
    /\ load = "keys" /\ key \notin DOMAIN KeyOrder
    /\ load' = "done"
    /\ UNCHANGED <<content, config, key>>

OrderRates ==
    /\ load = "keys" /\ key \notin DOMAIN KeyOrder
    /\ config' = Ordered(config)
    /\ load' = "done"
    /\ UNCHANGED <<content, key>>

LoadConfig == OpenConfig \/ TakeKey \/ SkipKey \/ GiveUp \/ OrderRates

-----------------------------------------------------------------------------
Bad(k) == k \in DOMAIN content.table /\ ~Fits(k, content.table[k])

\* The rates come out of order in one case only: the minimum was read and the
\* maximum is no number, so that the loading ended before the swap
\* (config.rs:124).  Torrent::uploaded then never draws a speed.
DisorderNeedsBadMax ==
    load = "done" /\ ~SpeedsOk(config)
        => /\ Bad("max_upload_rate") /\ ~Bad("use_pid_file")
           /\ config["max_upload_rate"] = DefaultMax

\* The keys before the first strict one that does not fit.
Reached ==
    {k \in Key : \E n \in DOMAIN KeyOrder :
        KeyOrder[n] = k /\ \A m \in 1 .. n : ~(KeyOrder[m] \in Strict /\ Bad(KeyOrder[m]))}

\* What is loaded is the file's value for every key that is reached and fits,
\* and the default of the code for the others, also for keys that come after a bad
\* one; only the two rates may be exchanged.  The default of torrent_dir is the
\* working directory in the code (config.rs:42), where README.md:68 says that
\* "Will load torrent from `XDG_CONFIG_DIR` by default".
LoadedAsWritten ==
    load = "done" /\ content.kind = "table" =>
        LET written == [k \in Key |-> IF k \in Reached /\ k \in DOMAIN content.table /\ ~Bad(k)
                                      THEN Taken(k, content.table[k]) ELSE Default[k]]
        IN  config = IF Reached = Key THEN Ordered(written) ELSE written
=============================================================================
