--------------------------- MODULE StartupProofs ---------------------------
(***************************************************************************)
(* What a start guarantees whatever it reads: for any file, any command     *)
(* line, any configuration and any width of the integers.                   *)
(*                                                                         *)
(* The configuration is proved from how far its loading has come (Loading), *)
(* the decoder and the encoder in BencodeProofs.  The parser has sorted the *)
(* URLs that the value names into taken and left ones (Sorting) and added   *)
(* up the files it has gone past (Adding); the list has the torrents of the *)
(* files that have been dealt with (ListInv).                               *)
(***************************************************************************)
EXTENDS StartupRef, BencodeProofs

\* What is read never changes, and is what it may be.
WorldOK ==
    /\ {"xdg"} \cup CliPath(args) \subseteq DOMAIN contents
    /\ \A p \in DOMAIN contents :
          contents[p].kind = "table" =>
              \A k \in DOMAIN contents[p].table : contents[p].table[k] \in TomlValue
    /\ DOMAIN files \subseteq File
    /\ \A f \in DOMAIN files : files[f].data \in Seq(STRING) /\ Len(files[f].data) < USize

LEMMA WorldInit == Init => WorldOK
BY InputsAssumption DEF Init, WorldOK

LEMMA WorldNext == WorldOK /\ [Next \/ Over]_vars => WorldOK'
<1> SUFFICES ASSUME WorldOK, [Next \/ Over]_vars PROVE WorldOK'
  OBVIOUS
<1>1. UNCHANGED world
  BY DEF Next, Over, vars, ChooseConfig, ReadConfig, OpenFolder, End, NextFile, ParseFile,
         ListTorrent, FileDone, RejectFile, LoadEnds, WritePidFile
<1> QED BY <1>1 DEF WorldOK, world, CliPath, Flags

-----------------------------------------------------------------------------
(* The configuration. *)

LEMMA Keys ==
    /\ DOMAIN KeyOrder = 1 .. 8
    /\ \A m, n \in 1 .. 8 : KeyOrder[m] = KeyOrder[n] => m = n
    /\ KeyOrder[4] = "use_pid_file" /\ KeyOrder[5] = "min_upload_rate"
    /\ KeyOrder[6] = "max_upload_rate" /\ KeyOrder[2] = "port" /\ KeyOrder[3] = "numwant"
    /\ Key = {KeyOrder[m] : m \in 1 .. 8}
    /\ "use_pid_file" \in Key /\ "port" \in Key /\ "numwant" \in Key
    /\ "min_upload_rate" \in Key /\ "max_upload_rate" \in Key
<1>1. DOMAIN KeyOrder = 1 .. 8
  BY DEF KeyOrder
<1>2. \A m, n \in 1 .. 8 : KeyOrder[m] = KeyOrder[n] => m = n
  BY DEF KeyOrder
<1>3. /\ KeyOrder[4] = "use_pid_file" /\ KeyOrder[5] = "min_upload_rate"
      /\ KeyOrder[6] = "max_upload_rate" /\ KeyOrder[2] = "port" /\ KeyOrder[3] = "numwant"
  BY DEF KeyOrder
<1>4. Key = {KeyOrder[m] : m \in 1 .. 8}
  BY <1>1 DEF Key
<1> QED BY <1>1, <1>2, <1>3, <1>4

\* The value of a key once the first n - 1 of them are read.
Read(n, m) ==
    LET k == KeyOrder[m]
    IN  IF m < n /\ k \in DOMAIN content.table /\ ~Bad(k)
        THEN Taken(k, content.table[k]) ELSE Default[k]

Loading ==
    /\ content.kind = "table"
    /\ key \in 1 .. 9
    /\ \A m \in 1 .. 8 : m < key => ~(KeyOrder[m] \in Strict /\ Bad(KeyOrder[m]))
    /\ \A m \in 1 .. 8 : config[KeyOrder[m]] = Read(key, m)

ConfigInv ==
    /\ content.kind = "table" => \A k \in DOMAIN content.table : content.table[k] \in TomlValue
    /\ load \in {"before", "keys", "done"}
    /\ config = [k \in Key |-> config[k]]
    /\ boot = "args" => load = "before" /\ content.kind # "table"
    /\ load = "before" => config = Default
    /\ load = "keys" => Loading
    /\ load = "done" /\ content.kind # "table" => config = Default
    /\ DisorderNeedsBadMax
    /\ LoadedAsWritten

LEMMA DefaultFacts ==
    /\ Default = [k \in Key |-> Default[k]]
    /\ Default["min_upload_rate"] = DefaultMin /\ Default["max_upload_rate"] = DefaultMax
    /\ Default["use_pid_file"] = FALSE /\ Default["port"] = 0 /\ Default["numwant"] = 0
    /\ SpeedsOk(Default)
<1>1. Default = [k \in Key |-> Default[k]]
  BY DEF Default
<1>2. Default["use_pid_file"] = FALSE
  BY Keys DEF Default
<1>3. Default["min_upload_rate"] = DefaultMin
  BY Keys DEF Default
<1>4. Default["max_upload_rate"] = DefaultMax
  BY Keys DEF Default
<1>5. Default["port"] = 0 /\ Default["numwant"] = 0
  BY Keys DEF Default
<1>6. SpeedsOk(Default)
  BY <1>3, <1>4, ConfigAssumption DEF SpeedsOk
<1> QED BY <1>1, <1>2, <1>3, <1>4, <1>5, <1>6

LEMMA TomlFields ==
    ASSUME NEW v \in TomlValue
    PROVE  /\ "int" \in DOMAIN v => v.int \in Int
           /\ "bool" \in DOMAIN v => v.bool \in BOOLEAN /\ "int" \notin DOMAIN v /\ "str" \notin DOMAIN v
<1>1. CASE v \in [int : Int]
  BY <1>1
<1>2. CASE v \in [bool : BOOLEAN]
  BY <1>2
<1>3. CASE v \in [str : STRING]
  BY <1>3
<1> QED BY <1>1, <1>2, <1>3 DEF TomlValue

\* What each key may hold.
ConfigType(c) ==
    /\ c = [k \in Key |-> c[k]]
    /\ c["use_pid_file"] \in BOOLEAN
    /\ c["port"] \in 0 .. (U16 - 1) /\ c["numwant"] \in 0 .. (U16 - 1)
    /\ c["min_upload_rate"] \in 0 .. (U32 - 1) /\ c["max_upload_rate"] \in 0 .. (U32 - 1)

LEMMA TakenType ==
    ASSUME NEW k \in Key, NEW v \in TomlValue, Fits(k, v)
    PROVE  /\ k = "use_pid_file" => Taken(k, v) \in BOOLEAN
           /\ k \in {"port", "numwant"} => Taken(k, v) \in 0 .. (U16 - 1)
           /\ k \in Rate => Taken(k, v) \in 0 .. (U32 - 1)
<1>1. CASE k = "use_pid_file"
  BY <1>1, TomlFields DEF Fits, Taken, Rate
<1>2. CASE k \in {"port", "numwant"}
  BY <1>2, TomlFields, ConfigAssumption DEF Fits, Taken, Rate
<1>3. CASE k \in Rate
  BY <1>3, TomlFields, ConfigAssumption DEF Fits, Taken, Rate
<1> QED BY <1>1, <1>2, <1>3 DEF Rate

LEMMA DefaultType == ConfigType(Default)
<1>1. 0 \in 0 .. (U16 - 1) /\ DefaultMin \in 0 .. (U32 - 1) /\ DefaultMax \in 0 .. (U32 - 1)
  BY ConfigAssumption
<1>2. FALSE \in BOOLEAN
  OBVIOUS
<1> QED BY <1>1, <1>2, DefaultFacts, Zenon DEF ConfigType

LEMMA OrderedType ==
    ASSUME NEW c, ConfigType(c)
    PROVE  ConfigType(Ordered(c)) /\ SpeedsOk(Ordered(c))
<1>1. CASE SpeedsOk(c)
  BY <1>1 DEF Ordered
<1>2. CASE ~SpeedsOk(c)
  <2> DEFINE d == [c EXCEPT !["min_upload_rate"] = c["max_upload_rate"],
                            !["max_upload_rate"] = c["min_upload_rate"]]
  <2>1. Ordered(c) = d
    BY <1>2 DEF Ordered
  <2>2. /\ d = [k \in Key |-> d[k]]
        /\ d["min_upload_rate"] = c["max_upload_rate"]
        /\ d["max_upload_rate"] = c["min_upload_rate"]
        /\ d["use_pid_file"] = c["use_pid_file"]
        /\ d["port"] = c["port"] /\ d["numwant"] = c["numwant"]
    BY Keys DEF ConfigType
  <2> HIDE DEF d
  <2>3. ConfigType(d)
    BY <2>2 DEF ConfigType
  <2>4. SpeedsOk(d)
    BY <1>2, <2>2, ConfigAssumption DEF SpeedsOk, ConfigType
  <2> QED BY <2>1, <2>3, <2>4
<1> QED BY <1>1, <1>2

-----------------------------------------------------------------------------
(* One step of the loading. *)

ContentOK ==
    content.kind = "table" => \A k \in DOMAIN content.table : content.table[k] \in TomlValue

LEMMA OpenConfigInv ==
    ASSUME ConfigInv, OpenConfig
    PROVE  (load' = "keys" => Loading') /\ config' = Default /\ load' \in {"keys", "done"}
<1>1. /\ config' = Default /\ key' = 1 /\ content' = content
      /\ load' \in {"keys", "done"} /\ (load' = "keys" => content.kind = "table")
  BY DEF OpenConfig
<1>2. \A m \in 1 .. 8 : Read(1, m)' = Default[KeyOrder[m]]
  BY DEF Read
<1>3. \A m \in 1 .. 8 : Read(key, m)' = Read(1, m)'
  BY <1>1 DEF Read, Bad
<1>4. \A m \in 1 .. 8 : ~(m < 1)
  OBVIOUS
<1>5. load' = "keys" => Loading'
  BY <1>1, <1>2, <1>3, <1>4 DEF Loading
<1> QED BY <1>1, <1>5

\* Reading on from key n changes what is read of n only.
LEMMA ReadOn ==
    ASSUME NEW n \in 1 .. 8, NEW m \in 1 .. 8, m # n
    PROVE  Read(n + 1, m) = Read(n, m)
BY DEF Read

LEMMA TakeKeyInv ==
    ASSUME ConfigInv, TakeKey
    PROVE  Loading' /\ load' = "keys"
<1> DEFINE n == key
<1>1. /\ load = "keys" /\ n \in 1 .. 8 /\ key' = n + 1 /\ content' = content /\ load' = load
      /\ Given /\ Fits(KeyOrder[n], content.table[KeyOrder[n]])
      /\ config' = [config EXCEPT ![KeyOrder[n]] = Taken(KeyOrder[n], content.table[KeyOrder[n]])]
  BY Keys DEF TakeKey, NextKey, CurrentKey, Value
<1>2. ~Bad(KeyOrder[n]) /\ KeyOrder[n] \in DOMAIN content.table
  BY <1>1 DEF Bad, Given, CurrentKey
<1>3. Loading
  BY <1>1 DEF ConfigInv
<1>4. \A m \in 1 .. 8 : Read(key, m)' = Read(n + 1, m)
  BY <1>1 DEF Read, Bad
<1>5. \A m \in 1 .. 8 : config'[KeyOrder[m]] = Read(n + 1, m)
  <2> SUFFICES ASSUME NEW m \in 1 .. 8 PROVE config'[KeyOrder[m]] = Read(n + 1, m)
    OBVIOUS
  <2>1. config = [k \in Key |-> config[k]] /\ KeyOrder[m] \in Key /\ KeyOrder[n] \in Key
    BY <1>1, Keys DEF ConfigInv
  <2>2. CASE m = n
    BY <1>1, <1>2, <2>1, <2>2 DEF Read
  <2>3. CASE m # n
    <3>1. KeyOrder[m] # KeyOrder[n]
      BY <1>1, <2>3, Keys
    <3>2. config'[KeyOrder[m]] = config[KeyOrder[m]]
      BY <1>1, <2>1, <3>1
    <3>3. Read(n + 1, m) = Read(n, m)
      BY <1>1, <2>3, ReadOn
    <3> QED BY <1>3, <3>2, <3>3 DEF Loading
  <2> QED BY <2>2, <2>3
<1>6. \A m \in 1 .. 8 : m < key' => ~(KeyOrder[m] \in Strict /\ Bad(KeyOrder[m])')
  <2>1. \A m \in 1 .. 8 : Bad(KeyOrder[m])' <=> Bad(KeyOrder[m])
    BY <1>1 DEF Bad
  <2> QED BY <1>1, <1>2, <1>3, <2>1 DEF Loading
<1>7. content'.kind = "table" /\ key' \in 1 .. 9
  BY <1>1, <1>3 DEF Loading
<1> QED BY <1>1, <1>4, <1>5, <1>6, <1>7 DEF Loading

LEMMA SkipKeyInv ==
    ASSUME ConfigInv, SkipKey
    PROVE  Loading' /\ load' = "keys"
<1> DEFINE n == key
<1>1. /\ load = "keys" /\ n \in 1 .. 8 /\ key' = n + 1 /\ content' = content /\ load' = load
      /\ (KeyOrder[n] \in DOMAIN content.table => Bad(KeyOrder[n]) /\ KeyOrder[n] \notin Strict)
      /\ config' = config
  BY Keys DEF SkipKey, NextKey, CurrentKey, Value, Given, Bad
<1>2. ~(KeyOrder[n] \in Strict /\ Bad(KeyOrder[n]))
  BY <1>1 DEF Bad
<1>3. Loading
  BY <1>1 DEF ConfigInv
<1>4. \A m \in 1 .. 8 : Read(key, m)' = Read(n + 1, m)
  BY <1>1 DEF Read, Bad
<1>5. \A m \in 1 .. 8 : config'[KeyOrder[m]] = Read(n + 1, m)
  <2> SUFFICES ASSUME NEW m \in 1 .. 8 PROVE config'[KeyOrder[m]] = Read(n + 1, m)
    OBVIOUS
  <2>1. config'[KeyOrder[m]] = Read(n, m)
    BY <1>1, <1>3 DEF Loading
  <2>2. CASE m = n
    BY <1>1, <2>1, <2>2 DEF Read
  <2>3. CASE m # n
    BY <1>1, <2>1, <2>3, ReadOn
  <2> QED BY <2>2, <2>3
<1>6. \A m \in 1 .. 8 : m < key' => ~(KeyOrder[m] \in Strict /\ Bad(KeyOrder[m])')
  <2>1. \A m \in 1 .. 8 : Bad(KeyOrder[m])' <=> Bad(KeyOrder[m])
    BY <1>1 DEF Bad
  <2> QED BY <1>1, <1>2, <1>3, <2>1 DEF Loading
<1>7. content'.kind = "table" /\ key' \in 1 .. 9
  BY <1>1, <1>3 DEF Loading
<1> QED BY <1>1, <1>4, <1>5, <1>6, <1>7 DEF Loading

\* Where the loading ends, LoadedAsWritten and DisorderNeedsBadMax hold.
LEMMA GiveUpInv ==
    ASSUME ConfigInv, GiveUp
    PROVE  /\ load' = "done" /\ content' = content /\ config' = config
           /\ DisorderNeedsBadMax' /\ LoadedAsWritten'
<1> DEFINE n == key
           written == [k \in Key |-> IF k \in Reached /\ k \in DOMAIN content.table /\ ~Bad(k)
                                     THEN Taken(k, content.table[k]) ELSE Default[k]]
<1>1. /\ load = "keys" /\ n \in 1 .. 8 /\ content' = content /\ load' = "done"
      /\ KeyOrder[n] \in Strict /\ Bad(KeyOrder[n])
      /\ config' = config
  BY Keys DEF GiveUp, CurrentKey, Value, Given, Bad
<1>2. Loading
  BY <1>1 DEF ConfigInv
<1>3. \A m \in 1 .. 8 : KeyOrder[m] \in Reached <=> m < n
  <2> SUFFICES ASSUME NEW m \in 1 .. 8 PROVE KeyOrder[m] \in Reached <=> m < n
    OBVIOUS
  <2>1. CASE m < n
    <3>1. \A i \in 1 .. m : ~(KeyOrder[i] \in Strict /\ Bad(KeyOrder[i]))
      BY <1>1, <1>2, <2>1 DEF Loading
    <3> QED BY <2>1, <3>1, Keys DEF Reached
  <2>2. CASE ~(m < n)
    <3> SUFFICES ASSUME NEW i \in DOMAIN KeyOrder, KeyOrder[i] = KeyOrder[m]
                 PROVE  ~(\A j \in 1 .. i : ~(KeyOrder[j] \in Strict /\ Bad(KeyOrder[j])))
      BY <2>2 DEF Reached
    <3>1. i = m
      BY Keys
    <3>2. n \in 1 .. i
      BY <1>1, <2>2, <3>1
    <3> QED BY <1>1, <3>2
  <2> QED BY <2>1, <2>2
<1>4. KeyOrder[n] \in Key /\ KeyOrder[n] \notin Reached
  BY <1>1, <1>3, Keys
<1>5. config = written
  <2>1. \A m \in 1 .. 8 : config[KeyOrder[m]] = written[KeyOrder[m]]
    <3> SUFFICES ASSUME NEW m \in 1 .. 8 PROVE config[KeyOrder[m]] = written[KeyOrder[m]]
      OBVIOUS
    <3>1. KeyOrder[m] \in Key
      BY Keys
    <3>2. config[KeyOrder[m]] = Read(n, m)
      BY <1>2 DEF Loading
    <3> QED BY <1>3, <3>1, <3>2 DEF Read
  <2>2. \A k \in Key : config[k] = written[k]
    BY <2>1, Keys
  <2> QED BY <2>2 DEF ConfigInv
<1>6. Reached' = Reached /\ \A k : Bad(k)' <=> Bad(k)
  BY <1>1 DEF Reached, Bad
<1>7. LoadedAsWritten'
  BY <1>1, <1>4, <1>5, <1>6 DEF LoadedAsWritten
<1>8. DisorderNeedsBadMax'
  <2>1. n \in 4 .. 6
    BY <1>1, Keys DEF Strict, Rate, KeyOrder
  <2>2. config["max_upload_rate"] = DefaultMax
    <3>1. config["max_upload_rate"] = Read(n, 6)
      BY <1>2, Keys DEF Loading
    <3> QED BY <2>1, <3>1, Keys, DefaultFacts DEF Read
  <2>3. CASE n \in 4 .. 5
    <3>1. config["min_upload_rate"] = Read(n, 5)
      BY <1>2, Keys DEF Loading
    <3>2. config["min_upload_rate"] = DefaultMin
      BY <2>3, <3>1, Keys, DefaultFacts DEF Read
    <3>3. SpeedsOk(config)
      BY <2>2, <3>2, ConfigAssumption DEF SpeedsOk
    <3> QED BY <1>1, <3>3 DEF DisorderNeedsBadMax
  <2>4. CASE n = 6
    <3>1. Bad("max_upload_rate")
      BY <1>1, <2>4, Keys
    <3>2. ~Bad("use_pid_file")
      BY <1>2, <2>4, Keys DEF Loading, Strict
    <3> QED BY <1>1, <1>6, <2>2, <3>1, <3>2 DEF DisorderNeedsBadMax
  <2> QED BY <2>1, <2>3, <2>4
<1> QED BY <1>1, <1>7, <1>8

LEMMA LoadingType ==
    ASSUME ConfigInv, Loading
    PROVE  ConfigType(config)
<1>1. \A m \in 1 .. 8 : config[KeyOrder[m]] = Read(key, m)
  BY DEF Loading
<1>2. \A m \in 1 .. 8 :
        /\ Read(key, m) # Default[KeyOrder[m]] =>
              /\ KeyOrder[m] \in DOMAIN content.table
              /\ content.table[KeyOrder[m]] \in TomlValue
              /\ Fits(KeyOrder[m], content.table[KeyOrder[m]])
              /\ Read(key, m) = Taken(KeyOrder[m], content.table[KeyOrder[m]])
  BY DEF Read, Bad, Loading, ConfigInv
<1>3. \A m \in 1 .. 8 : KeyOrder[m] \in Key
  BY Keys
<1>4. \A m \in 1 .. 8 :
        /\ KeyOrder[m] = "use_pid_file" => config[KeyOrder[m]] \in BOOLEAN
        /\ KeyOrder[m] \in {"port", "numwant"} => config[KeyOrder[m]] \in 0 .. (U16 - 1)
        /\ KeyOrder[m] \in Rate => config[KeyOrder[m]] \in 0 .. (U32 - 1)
  <2> SUFFICES ASSUME NEW m \in 1 .. 8
               PROVE  /\ KeyOrder[m] = "use_pid_file" => config[KeyOrder[m]] \in BOOLEAN
                      /\ KeyOrder[m] \in {"port", "numwant"} =>
                            config[KeyOrder[m]] \in 0 .. (U16 - 1)
                      /\ KeyOrder[m] \in Rate => config[KeyOrder[m]] \in 0 .. (U32 - 1)
    OBVIOUS
  <2>1. CASE Read(key, m) = Default[KeyOrder[m]]
    BY <1>1, <2>1, DefaultType DEF ConfigType, Rate
  <2>2. CASE Read(key, m) # Default[KeyOrder[m]]
    BY <1>1, <1>2, <1>3, <2>2, TakenType
  <2> QED BY <2>1, <2>2
<1> QED BY <1>4, Keys DEF ConfigInv, ConfigType, Rate

LEMMA OrderRatesInv ==
    ASSUME ConfigInv, OrderRates
    PROVE  /\ load' = "done" /\ content' = content /\ config' = Ordered(config)
           /\ DisorderNeedsBadMax' /\ LoadedAsWritten' /\ ConfigType(config')
<1> DEFINE written == [k \in Key |-> IF k \in Reached /\ k \in DOMAIN content.table /\ ~Bad(k)
                                     THEN Taken(k, content.table[k]) ELSE Default[k]]
<1>1. /\ load = "keys" /\ content' = content /\ load' = "done" /\ config' = Ordered(config)
      /\ key \notin 1 .. 8
  BY Keys DEF OrderRates
<1>2. Loading /\ key = 9
  BY <1>1 DEF ConfigInv, Loading
<1>3. Reached = Key
  <2>1. \A m \in 1 .. 8 : ~(KeyOrder[m] \in Strict /\ Bad(KeyOrder[m]))
    BY <1>2 DEF Loading
  <2> QED BY <2>1, Keys DEF Reached
<1>4. config = written
  <2>1. \A m \in 1 .. 8 : config[KeyOrder[m]] = written[KeyOrder[m]]
    BY <1>2, <1>3, Keys DEF Loading, Read
  <2>2. \A k \in Key : config[k] = written[k]
    BY <2>1, Keys
  <2> QED BY <2>2 DEF ConfigInv
<1>5. Reached' = Reached /\ \A k : Bad(k)' <=> Bad(k)
  BY <1>1 DEF Reached, Bad
<1>6. LoadedAsWritten'
  BY <1>1, <1>3, <1>4, <1>5 DEF LoadedAsWritten
<1>7. ConfigType(config') /\ SpeedsOk(config')
  BY <1>1, <1>2, LoadingType, OrderedType
<1>8. DisorderNeedsBadMax'
  BY <1>7 DEF DisorderNeedsBadMax, SpeedsOk
<1> QED BY <1>1, <1>6, <1>7, <1>8

ConfigOK == ConfigInv /\ ConfigType(config)

LEMMA ConfigInit == Init => ConfigOK
<1> SUFFICES ASSUME Init PROVE ConfigOK
  OBVIOUS
<1>1. content.kind # "table" /\ load = "before" /\ config = Default
  BY DEF Init
<1>2. DisorderNeedsBadMax /\ LoadedAsWritten
  BY <1>1 DEF DisorderNeedsBadMax, LoadedAsWritten
<1> QED BY <1>1, <1>2, DefaultFacts, DefaultType DEF ConfigOK, ConfigInv

LEMMA LoadConfigInv == ConfigOK /\ boot # "args" /\ LoadConfig /\ boot' = boot => ConfigOK'
<1> SUFFICES ASSUME ConfigOK, boot # "args", LoadConfig, boot' = boot PROVE ConfigOK'
  OBVIOUS
<1> USE DEF ConfigOK
<1>1. CASE OpenConfig
  <2>1. /\ load' = "keys" => Loading'
        /\ config' = Default /\ load' \in {"keys", "done"} /\ content' = content
        /\ load' = "done" => content.kind # "table"
    BY <1>1, OpenConfigInv DEF OpenConfig
  <2>2. DisorderNeedsBadMax' /\ LoadedAsWritten'
    BY <2>1, DefaultFacts DEF DisorderNeedsBadMax, LoadedAsWritten, SpeedsOk
  <2>3. config' = [k \in Key |-> config'[k]]
    BY <2>1, DefaultFacts
  <2> QED BY <2>1, <2>2, <2>3, DefaultType DEF ConfigInv
<1>2. CASE TakeKey \/ SkipKey
  <2>1. Loading' /\ load' = "keys" /\ content' = content
    BY <1>2, TakeKeyInv, SkipKeyInv DEF TakeKey, SkipKey, NextKey
  <2>2. config' = [k \in Key |-> config'[k]]
    BY <1>2 DEF TakeKey, SkipKey, ConfigInv
  <2>3. DisorderNeedsBadMax' /\ LoadedAsWritten'
    BY <2>1 DEF DisorderNeedsBadMax, LoadedAsWritten
  <2>4. ConfigInv'
    BY <2>1, <2>2, <2>3 DEF ConfigInv
  <2>5. ConfigType(config')
    <3>1. \A m \in 1 .. 8 : KeyOrder[m] \in Key
      BY Keys
    <3> QED BY <1>2, <3>1, TakenType, Keys DEF TakeKey, SkipKey, NextKey, ConfigInv, ConfigType,
               CurrentKey, Value, Given, Rate, Loading
  <2> QED BY <2>4, <2>5
<1>3. CASE GiveUp
  <2>1. /\ load' = "done" /\ content' = content /\ config' = config
        /\ DisorderNeedsBadMax' /\ LoadedAsWritten'
    BY <1>3, GiveUpInv
  <2>2. content.kind = "table"
    BY <1>3 DEF GiveUp, ConfigInv, Loading
  <2> QED BY <2>1, <2>2 DEF ConfigInv
<1>4. CASE OrderRates
  <2>1. /\ load' = "done" /\ content' = content /\ ConfigType(config')
        /\ DisorderNeedsBadMax' /\ LoadedAsWritten'
    BY <1>4, OrderRatesInv
  <2>2. content.kind = "table"
    BY <1>4 DEF OrderRates, ConfigInv, Loading
  <2> QED BY <2>1, <2>2 DEF ConfigInv, ConfigType
<1> QED BY <1>1, <1>2, <1>3, <1>4 DEF LoadConfig

LEMMA ConfigSame == ConfigOK /\ UNCHANGED configVars /\ (boot' = "args" => boot = "args") => ConfigOK'
<1> SUFFICES ASSUME ConfigOK, UNCHANGED configVars, boot' = "args" => boot = "args" PROVE ConfigOK'
  OBVIOUS
<1>1. content' = content /\ config' = config /\ key' = key /\ load' = load
  BY DEF configVars
<1>2. \A k : Bad(k)' <=> Bad(k)
  BY <1>1 DEF Bad
<1>3. Reached' = Reached
  BY <1>1 DEF Reached, Bad
<1>4. Loading => Loading'
  BY <1>1 DEF Loading, Read, Bad
<1>5. DisorderNeedsBadMax => DisorderNeedsBadMax'
  BY <1>1 DEF DisorderNeedsBadMax, Bad
<1>6. LoadedAsWritten => LoadedAsWritten'
  BY <1>1, <1>2, <1>3 DEF LoadedAsWritten
<1> QED BY <1>1, <1>4, <1>5, <1>6 DEF ConfigOK, ConfigInv

LEMMA ConfigNext == WorldOK /\ ConfigOK /\ [Next \/ Over]_vars => ConfigOK'
<1> SUFFICES ASSUME WorldOK, ConfigOK, [Next \/ Over]_vars PROVE ConfigOK'
  OBVIOUS
<1>1. CASE ChooseConfig
  <2>1. /\ boot = "args" /\ boot' = "config" /\ config' = config /\ key' = key
        /\ config = Default /\ load = "before" /\ content.kind # "table"
    BY <1>1 DEF ChooseConfig, ConfigOK, ConfigInv
  <2>2. CASE load' = "done" /\ content' = content
    <3>1. DisorderNeedsBadMax' /\ LoadedAsWritten'
      BY <2>1, <2>2, DefaultFacts DEF DisorderNeedsBadMax, LoadedAsWritten, SpeedsOk
    <3> QED BY <2>1, <2>2, <3>1 DEF ConfigOK, ConfigInv
  <2>3. CASE load' = load /\ \E path \in {"xdg"} \cup CliPath(args) : content' = contents[path]
    <3>1. ContentOK'
      BY <2>3 DEF WorldOK, ContentOK
    <3>2. DisorderNeedsBadMax' /\ LoadedAsWritten'
      BY <2>1, <2>3 DEF DisorderNeedsBadMax, LoadedAsWritten
    <3> QED BY <2>1, <2>3, <3>1, <3>2 DEF ConfigOK, ConfigInv, ContentOK
  <2> QED BY <1>1, <2>2, <2>3 DEF ChooseConfig
<1>2. CASE ReadConfig
  BY <1>2, LoadConfigInv DEF ReadConfig
<1>3. CASE UNCHANGED configVars /\ (boot' = "args" => boot = "args")
  BY <1>3, ConfigSame
<1>4. CASE OpenFolder \/ NextFile \/ LoadEnds
  BY <1>3, <1>4 DEF OpenFolder, NextFile, LoadEnds, End
<1>5. CASE ParseFile \/ ListTorrent \/ RejectFile \/ WritePidFile
  BY <1>3, <1>5 DEF ParseFile, ListTorrent, RejectFile, WritePidFile, FileDone
<1>6. CASE Over \/ UNCHANGED vars
  BY <1>3, <1>6 DEF Over, vars
<1> QED BY <1>1, <1>2, <1>4, <1>5, <1>6 DEF Next

\* The rates come out of order in one case only, for any configuration file.
THEOREM RatesInOrder == Spec => []DisorderNeedsBadMax
<1>1. ConfigOK => DisorderNeedsBadMax
  BY DEF ConfigOK, ConfigInv
<1> QED BY <1>1, WorldInit, WorldNext, ConfigInit, ConfigNext, PTL DEF Spec

\* What is loaded is what the file says, up to the first key that ends the
\* loading, for any configuration file.
THEOREM LoadingAsWritten == Spec => []LoadedAsWritten
<1>1. ConfigOK => LoadedAsWritten
  BY DEF ConfigOK, ConfigInv
<1> QED BY <1>1, WorldInit, WorldNext, ConfigInit, ConfigNext, PTL DEF Spec

-----------------------------------------------------------------------------
(* The parser: its trackers. *)

TorrentFields == {"urls", "hash", "name", "length", "private"}

UrlsInv ==
    /\ DOMAIN torrent = TorrentFields /\ torrent = [x \in TorrentFields |-> torrent[x]]
    /\ \E S : torrent.urls \in Seq(S)
    /\ UrlsClean

LEMMA NoUrls == torrent' = NoTorrent /\ parse' \notin {"info", "files", "ok"} => UrlsInv'
<1> SUFFICES ASSUME torrent' = NoTorrent, parse' \notin {"info", "files", "ok"} PROVE UrlsInv'
  OBVIOUS
<1>1. torrent'.urls = <<>> /\ DOMAIN torrent' = TorrentFields
  BY DEF NoTorrent, TorrentFields
<1>2. torrent'.urls \in Seq({})
  BY <1>1
<1>3. torrent' = [x \in TorrentFields |-> torrent'[x]]
  BY DEF NoTorrent, TorrentFields
<1> QED BY <1>1, <1>2, <1>3 DEF UrlsInv, UrlsClean

\* A step that leaves the URLs alone, and passes UrlsEnd with some only.
LEMMA SameUrls ==
    ASSUME UrlsInv,
           \/ torrent' = torrent
           \/ \E a, b, c : torrent' = [torrent EXCEPT !.hash = a, !.name = b, !.length = c]
           \/ \E a : torrent' = [torrent EXCEPT !.length = a]
           \/ \E a : torrent' = [torrent EXCEPT !.private = a],
           parse' \in {"info", "files", "ok"} =>
              parse \in {"info", "files", "ok"} \/ torrent.urls # <<>>
    PROVE  UrlsInv'
<1>1. /\ torrent'.urls = torrent.urls /\ DOMAIN torrent' = TorrentFields
      /\ torrent' = [x \in TorrentFields |-> torrent'[x]]
  BY DEF UrlsInv, TorrentFields
<1>2. UrlsClean'
  BY <1>1 DEF UrlsInv, UrlsClean
<1> QED BY <1>1, <1>2 DEF UrlsInv

LEMMA TakeUrlInv ==
    ASSUME UrlsInv, TakeUrl
    PROVE  UrlsInv'
<1>1. CASE torrent' = torrent
  BY <1>1, SameUrls DEF TakeUrl, ParseFails
<1>2. CASE torrent' # torrent
  <2>1. /\ parse' = "urls"
        /\ Utf8(Entry.str) /\ ~KnownUrl(Entry.str) /\ IsSupportedUrl(Entry.str)
        /\ torrent' = [torrent EXCEPT !.urls = Append(torrent.urls, Entry.str)]
    BY <1>2 DEF TakeUrl, ParseFails
  <2> DEFINE url == Entry.str
  <2>2. PICK S : torrent.urls \in Seq(S)
    BY DEF UrlsInv
  <2>3. /\ torrent'.urls = Append(torrent.urls, url) /\ DOMAIN torrent' = TorrentFields
        /\ torrent' = [x \in TorrentFields |-> torrent'[x]]
    BY <2>1 DEF UrlsInv, TorrentFields
  <2>4. Utf8(url) /\ ~KnownUrl(url) /\ IsSupportedUrl(url)
    BY <2>1
  <2> HIDE DEF url
  <2> DEFINE us == torrent.urls
             n == Len(us)
  <2>5. torrent.urls \in Seq(S \cup {url}) /\ n \in Nat
    BY <2>2
  <2>6. /\ torrent'.urls \in Seq(S \cup {url})
        /\ DOMAIN torrent'.urls = 1 .. (n + 1)
        /\ \A i \in 1 .. n : torrent'.urls[i] = us[i]
        /\ torrent'.urls[n + 1] = url
    BY <2>3, <2>5
  <2>7. DOMAIN us = 1 .. n
    BY <2>5
  <2>8. \A i \in 1 .. n : us[i] # url
    BY <2>4, <2>7 DEF KnownUrl
  <2>9. \A i, j \in DOMAIN torrent'.urls : torrent'.urls[i] = torrent'.urls[j] => i = j
    <3>1. \A i, j \in 1 .. n : us[i] = us[j] => i = j
      BY <2>7 DEF UrlsInv, UrlsClean
    <3> HIDE DEF us, n
    <3>2. \A i \in 1 .. (n + 1) : i \in 1 .. n \/ i = n + 1
      BY <2>5
    <3> QED BY <2>6, <2>8, <3>1, <3>2
  <2>10. \A i \in DOMAIN torrent'.urls :
            IsSupportedUrl(torrent'.urls[i]) /\ Utf8(torrent'.urls[i])
    <3>1. \A i \in 1 .. n : IsSupportedUrl(us[i]) /\ Utf8(us[i])
      BY <2>7 DEF UrlsInv, UrlsClean
    <3> HIDE DEF us, n
    <3>2. \A i \in 1 .. (n + 1) : i \in 1 .. n \/ i = n + 1
      BY <2>5
    <3> QED BY <2>4, <2>6, <3>1, <3>2
  <2>11. UrlsClean'
    BY <2>1, <2>9, <2>10 DEF UrlsClean
  <2> QED BY <2>3, <2>6, <2>11 DEF UrlsInv
<1> QED BY <1>1, <1>2

LEMMA ParseStepUrls ==
    ASSUME UrlsInv, ParseStep
    PROVE  UrlsInv'
<1>1. CASE Decode
  BY <1>1, SameUrls DEF Decode
<1>2. CASE TopLevel
  BY <1>2, SameUrls, NoUrls DEF TopLevel, ParseFails
<1>3. CASE TakeUrl
  BY <1>3, TakeUrlInv
<1>4. CASE NextTier
  BY <1>4, SameUrls DEF NextTier
<1>5. CASE UrlsEnd
  BY <1>5, SameUrls DEF UrlsEnd
<1>6. CASE TakeInfo
  <2>1. \/ torrent' = torrent /\ parse' = "error"
        \/ /\ parse = "info"
           /\ \E a, b, c : torrent' = [torrent EXCEPT !.hash = a, !.name = b, !.length = c]
    BY <1>6 DEF TakeInfo, ParseFails
  <2> QED BY <2>1, SameUrls
<1>7. CASE TakeFile
  <2>1. \/ torrent' = torrent /\ parse' = "error"
        \/ /\ parse = "files"
           /\ \E a : torrent' = [torrent EXCEPT !.length = a]
    BY <1>7 DEF TakeFile, ParseFails
  <2> QED BY <2>1, SameUrls
<1>8. CASE FinishParse
  <2>1. \/ torrent' = torrent /\ parse' = "error"
        \/ /\ parse = "files"
           /\ \E a : torrent' = [torrent EXCEPT !.private = a]
    BY <1>8 DEF FinishParse, ParseFails
  <2> QED BY <2>1, SameUrls
<1> QED BY <1>1, <1>2, <1>3, <1>4, <1>5, <1>6, <1>7, <1>8 DEF ParseStep

-----------------------------------------------------------------------------
(* URLs: those that are taken and those that are left are those that the *)
(* value names.                                                           *)

IsText(x, text) == "str" \in DOMAIN x /\ x.str = text
InTierOf(x, text) == "list" \in DOMAIN x /\ \E i \in DOMAIN x.list : IsText(x.list[i], text)
InTiers(tiers, text) == \E j \in DOMAIN tiers : InTierOf(tiers[j], text)

IsTier(x) == "list" \in DOMAIN x => \E R : x.list \in Seq(R)
TiersOK(tiers) == \E S : tiers \in Seq(S) /\ \A x \in S : IsTier(x)

LEMMA ConcatTiers ==
    ASSUME NEW a, NEW b, TiersOK(a), TiersOK(b)
    PROVE  /\ TiersOK(a \o b)
           /\ \A text : InTiers(a \o b, text) <=> InTiers(a, text) \/ InTiers(b, text)
<1>1. PICK S : a \in Seq(S) /\ \A x \in S : IsTier(x)
  BY DEF TiersOK
<1>2. PICK T : b \in Seq(T) /\ \A x \in T : IsTier(x)
  BY DEF TiersOK
<1> DEFINE U == S \cup T
           c == a \o b
           m == Len(a)
           n == Len(b)
<1>3. a \in Seq(U) /\ b \in Seq(U) /\ \A x \in U : IsTier(x)
  BY <1>1, <1>2
<1> HIDE DEF U
<1>4. /\ c \in Seq(U) /\ Len(c) = m + n
      /\ \A i \in 1 .. Len(c) : c[i] = IF i <= m THEN a[i] ELSE b[i - m]
  BY <1>3, ConcatProperties
<1>5. m \in Nat /\ n \in Nat /\ DOMAIN a = 1 .. m /\ DOMAIN b = 1 .. n /\ DOMAIN c = 1 .. (m + n)
  BY <1>3, <1>4
<1> HIDE DEF c, m, n
<1>6. TiersOK(c)
  BY <1>3, <1>4 DEF TiersOK
<1>7. \A i \in DOMAIN a : i \in DOMAIN c /\ c[i] = a[i]
  BY <1>4, <1>5
<1>8. \A i \in DOMAIN b : i + m \in DOMAIN c /\ c[i + m] = b[i]
  <2> SUFFICES ASSUME NEW i \in DOMAIN b PROVE i + m \in DOMAIN c /\ c[i + m] = b[i]
    OBVIOUS
  <2> DEFINE j == i + m
  <2>1. j \in 1 .. Len(c) /\ ~(j <= m) /\ j - m = i /\ j \in DOMAIN c
    BY <1>4, <1>5
  <2> HIDE DEF j
  <2>2. c[j] = b[j - m]
    BY <1>4, <2>1
  <2> QED BY <2>1, <2>2 DEF j
<1>9. \A i \in DOMAIN c : \/ i \in DOMAIN a /\ c[i] = a[i]
                          \/ i - m \in DOMAIN b /\ c[i] = b[i - m]
  BY <1>4, <1>5
<1>10. \A text : InTiers(c, text) <=> InTiers(a, text) \/ InTiers(b, text)
  BY <1>7, <1>8, <1>9 DEF InTiers
<1> QED BY <1>6, <1>10 DEF c

LEMMA NoTiers == TiersOK(<<>>) /\ \A text : ~InTiers(<<>>, text)
<1> DEFINE e == <<>>
<1>1. e \in Seq({}) /\ DOMAIN e = {} /\ \A x \in {} : IsTier(x)
  OBVIOUS
<1> HIDE DEF e
<1>2. \E S : e \in Seq(S) /\ \A x \in S : IsTier(x)
  <2> WITNESS {}
  <2> QED BY <1>1
<1>3. TiersOK(e) /\ \A text : ~InTiers(e, text)
  BY <1>1, <1>2 DEF TiersOK, InTiers
<1> QED BY <1>3 DEF e

LEMMA OneTier ==
    ASSUME NEW x, IsTier(x)
    PROVE  TiersOK(<<x>>) /\ \A text : InTiers(<<x>>, text) <=> InTierOf(x, text)
<1> DEFINE s == <<x>>
<1>1. s \in Seq({x}) /\ DOMAIN s = {1} /\ s[1] = x /\ \A y \in {x} : IsTier(y)
  OBVIOUS
<1> HIDE DEF s
<1>2. TiersOK(s)
  BY <1>1 DEF TiersOK
<1>3. \A text : InTiers(s, text) <=> InTierOf(x, text)
  BY <1>1 DEF InTiers
<1> QED BY <1>2, <1>3 DEF s

LEMMA FirstTier ==
    ASSUME NEW tiers, TiersOK(tiers), tiers # <<>>
    PROVE  /\ TiersOK(Tail(tiers)) /\ IsTier(tiers[1])
           /\ \A text : InTiers(tiers, text) <=> InTierOf(tiers[1], text) \/ InTiers(Tail(tiers), text)
<1>1. PICK S : tiers \in Seq(S) /\ \A x \in S : IsTier(x)
  BY DEF TiersOK
<1> DEFINE t == Tail(tiers)
           n == Len(tiers) - 1
<1>2. /\ n \in Nat /\ DOMAIN tiers = 1 .. (n + 1) /\ tiers[1] \in S
      /\ t \in Seq(S) /\ DOMAIN t = 1 .. n /\ \A i \in 1 .. n : t[i] = tiers[i + 1]
  BY <1>1
<1> HIDE DEF t, n
<1>3. TiersOK(t) /\ IsTier(tiers[1])
  BY <1>1, <1>2 DEF TiersOK
<1>4. \A i \in DOMAIN tiers : i = 1 \/ (i - 1 \in DOMAIN t /\ tiers[i] = t[i - 1])
  BY <1>2
<1>5. 1 \in DOMAIN tiers /\ \A i \in DOMAIN t : i + 1 \in DOMAIN tiers /\ t[i] = tiers[i + 1]
  BY <1>2
<1>6. \A text : InTiers(tiers, text) <=> InTierOf(tiers[1], text) \/ InTiers(t, text)
  BY <1>4, <1>5 DEF InTiers
<1> QED BY <1>3, <1>6 DEF t

\* The first entry of a tier and the rest of it.
LEMMA FirstEntry ==
    ASSUME NEW R, NEW l \in Seq(R), l # <<>>
    PROVE  /\ IsTier([list |-> Tail(l)])
           /\ \A x, text : x.list = l /\ "list" \in DOMAIN x =>
                 (InTierOf(x, text) <=> IsText(l[1], text) \/ InTierOf([list |-> Tail(l)], text))
<1> DEFINE t == Tail(l)
           y == [list |-> t]
           n == Len(l) - 1
<1>1. /\ n \in Nat /\ DOMAIN l = 1 .. (n + 1)
      /\ t \in Seq(R) /\ DOMAIN t = 1 .. n /\ \A i \in 1 .. n : t[i] = l[i + 1]
  OBVIOUS
<1>2. y.list = t /\ "list" \in DOMAIN y
  OBVIOUS
<1> HIDE DEF t, n, y
<1>3. \A i \in DOMAIN l : i = 1 \/ (i - 1 \in DOMAIN t /\ l[i] = t[i - 1])
  BY <1>1
<1>4. 1 \in DOMAIN l /\ \A i \in DOMAIN t : i + 1 \in DOMAIN l /\ t[i] = l[i + 1]
  BY <1>1
<1>5. IsTier(y)
  BY <1>1, <1>2 DEF IsTier
<1>6. ASSUME NEW x, NEW text, x.list = l, "list" \in DOMAIN x
      PROVE  InTierOf(x, text) <=> IsText(l[1], text) \/ InTierOf(y, text)
  BY <1>2, <1>3, <1>4, <1>6 DEF InTierOf
<1> QED BY <1>5, <1>6 DEF y, t

Wanted(v, text) == text \in Named(v)

LEMMA NamedAre ==
    ASSUME NEW v, NEW text
    PROVE  Wanted(v, text) <=>
              \/ Has(v, "announce-list", "list") /\ InTiers(Field(v, "announce-list").list, text)
              \/ Has(v, "announce", "str") /\ text = Field(v, "announce").str
<1> DEFINE l == Field(v, "announce-list").list
           tiers == {t \in Items(v, "announce-list") : "list" \in DOMAIN t}
<1>1. Wanted(v, text) <=>
         \/ \E t \in tiers : \E i \in DOMAIN t.list : IsText(t.list[i], text)
         \/ Has(v, "announce", "str") /\ text = Field(v, "announce").str
  BY DEF Wanted, Named, TextsOf, IsText
<1>2. \A t : t \in tiers <=>
         /\ Has(v, "announce-list", "list") /\ "list" \in DOMAIN t
         /\ \E j \in DOMAIN l : t = l[j]
  BY DEF Items
<1> HIDE DEF tiers, l
<1>3. (\E t \in tiers : \E i \in DOMAIN t.list : IsText(t.list[i], text)) <=>
         Has(v, "announce-list", "list") /\ InTiers(l, text)
  BY <1>2 DEF InTiers, InTierOf
<1> QED BY <1>1, <1>3 DEF l

HasUrl(urls, text) == \E i \in DOMAIN urls : urls[i] = text

\* While there are tiers to go through, and after the last of them.
Sorting(v, tiers, urls) ==
    /\ TiersOK(tiers)
    /\ \A text : InTiers(tiers, text) => Wanted(v, text)
    /\ \A text : Wanted(v, text) =>
          InTiers(tiers, text) \/ (Utf8(text) /\ (IsSupportedUrl(text) => HasUrl(urls, text)))
    /\ \A text : HasUrl(urls, text) => Wanted(v, text)

Sorted(v, urls) ==
    /\ \A text : Wanted(v, text) => Utf8(text) /\ (IsSupportedUrl(text) => HasUrl(urls, text))
    /\ \A text : HasUrl(urls, text) => Wanted(v, text)

LEMMA SortingStarts ==
    ASSUME data \in Seq(STRING), IsPart(value), "dict" \in DOMAIN value
    PROVE  Sorting(value, Tiers, <<>>)
<1> DEFINE first == IF Has(value, "announce-list", "list")
                    THEN Field(value, "announce-list").list ELSE <<>>
           last == IF Has(value, "announce", "str")
                   THEN <<[list |-> <<Field(value, "announce")>>]>> ELSE <<>>
<1>1. Tiers = first \o last
  BY DEF Tiers
<1>2. TiersOK(first)
  <2>1. CASE Has(value, "announce-list", "list")
    <3> DEFINE f == Field(value, "announce-list")
    <3>1. IsPart(f) /\ "list" \in DOMAIN f
      <4>1. \A k \in DOMAIN value.dict : IsPart(value.dict[k])
        BY PartsAreProper DEF Proper
      <4> QED BY <2>1, <4>1 DEF Has, Field
    <3> HIDE DEF f
    <3>2. PICK S : f.list \in Seq(S) /\ \A x \in S : IsPart(x)
      BY <3>1, PartsAreProper DEF Proper
    <3>3. ASSUME NEW x \in S PROVE IsTier(x)
      <4>1. Proper(x)
        BY <3>2, PartsAreProper
      <4>2. "list" \in DOMAIN x => \E R : x.list \in Seq(R)
        BY <4>1 DEF Proper
      <4> QED BY <4>2 DEF IsTier
    <3>4. TiersOK(f.list)
      BY <3>2, <3>3 DEF TiersOK
    <3> QED BY <2>1, <3>4 DEF f
  <2>2. CASE ~Has(value, "announce-list", "list")
    BY <2>2, NoTiers
  <2> QED BY <2>1, <2>2
<1>3. /\ TiersOK(last)
      /\ \A text : InTiers(last, text) <=>
            Has(value, "announce", "str") /\ text = Field(value, "announce").str
  <2>1. CASE Has(value, "announce", "str")
    <3> DEFINE a == Field(value, "announce")
               l == <<a>>
               x == [list |-> l]
    <3>1. "str" \in DOMAIN a
      BY <2>1 DEF Has, Field
    <3> HIDE DEF a
    <3>2. l \in Seq({a}) /\ DOMAIN l = {1} /\ l[1] = a
      OBVIOUS
    <3> HIDE DEF l
    <3>3. "list" \in DOMAIN x /\ x.list = l
      OBVIOUS
    <3> HIDE DEF x
    <3>4. IsTier(x)
      BY <3>2, <3>3 DEF IsTier
    <3>5. \A text : InTierOf(x, text) <=> text = a.str
      BY <3>1, <3>2, <3>3 DEF InTierOf, IsText
    <3>6. TiersOK(<<x>>) /\ \A text : InTiers(<<x>>, text) <=> text = a.str
      BY <3>4, <3>5, OneTier
    <3>7. last = <<x>>
      BY <2>1 DEF x, l, a
    <3> HIDE DEF last
    <3> QED BY <2>1, <3>6, <3>7 DEF a
  <2>2. CASE ~Has(value, "announce", "str")
    <3>1. last = <<>>
      BY <2>2
    <3> HIDE DEF last
    <3> QED BY <2>2, <3>1, NoTiers
  <2> QED BY <2>1, <2>2
<1>4. \A text : InTiers(first, text) <=>
         Has(value, "announce-list", "list") /\ InTiers(Field(value, "announce-list").list, text)
  BY NoTiers
<1> HIDE DEF first, last
<1>5. TiersOK(first \o last) /\ \A text : InTiers(first \o last, text) <=>
         InTiers(first, text) \/ InTiers(last, text)
  BY <1>2, <1>3, ConcatTiers
<1>6. \A text : InTiers(Tiers, text) <=> Wanted(value, text)
  BY <1>1, <1>3, <1>4, <1>5, NamedAre
<1>7. \A text : ~HasUrl(<<>>, text)
  BY DEF HasUrl
<1> QED BY <1>1, <1>5, <1>6, <1>7 DEF Sorting

LEMMA SortingTakes ==
    ASSUME Sorting(value, todo, torrent.urls), InTier, TakeUrl, UrlsInv
    PROVE  \/ parse' = "error" /\ UNCHANGED decoderVars /\ \E text : Wanted(value, text) /\ ~Utf8(text)
           \/ parse' = "urls" /\ UNCHANGED decoderVars /\ Sorting(value, todo', torrent'.urls)
<1> DEFINE x == todo[1]
           l == x.list
           e == l[1]
           y == [list |-> Tail(l)]
           rest == Tail(todo)
<1>1. TiersOK(todo) /\ todo # <<>> /\ "list" \in DOMAIN x /\ l # <<>>
  BY DEF Sorting, InTier
<1>2. /\ TiersOK(rest) /\ IsTier(x)
      /\ \A text : InTiers(todo, text) <=> InTierOf(x, text) \/ InTiers(rest, text)
  BY <1>1, FirstTier
<1>3. PICK R : l \in Seq(R)
  BY <1>1, <1>2 DEF IsTier
<1>4. Entry = e
  BY DEF Entry
<1>5. IsTier(y) /\ \A text : InTierOf(x, text) <=> IsText(e, text) \/ InTierOf(y, text)
  BY <1>1, <1>3, FirstEntry
<1>6. \/ "str" \in DOMAIN e /\ ~Utf8(e.str) /\ parse' = "error" /\ UNCHANGED decoderVars
      \/ /\ "str" \in DOMAIN e => Utf8(e.str)
         /\ todo' = <<y>> \o rest
         /\ torrent' = IF "str" \in DOMAIN e /\ ~KnownUrl(e.str) /\ IsSupportedUrl(e.str)
                       THEN [torrent EXCEPT !.urls = Append(torrent.urls, e.str)] ELSE torrent
         /\ parse' = "urls" /\ UNCHANGED decoderVars
  BY <1>4 DEF TakeUrl, ParseFails
<1> HIDE DEF x, l, e, y, rest
<1>7. CASE "str" \in DOMAIN e /\ ~Utf8(e.str) /\ parse' = "error" /\ UNCHANGED decoderVars
  <2>1. IsText(e, e.str)
    BY <1>7 DEF IsText
  <2>2. Wanted(value, e.str)
    BY <1>2, <1>5, <2>1 DEF Sorting
  <2> QED BY <1>7, <2>2
<1>8. CASE /\ "str" \in DOMAIN e => Utf8(e.str)
           /\ todo' = <<y>> \o rest
           /\ torrent' = IF "str" \in DOMAIN e /\ ~KnownUrl(e.str) /\ IsSupportedUrl(e.str)
                         THEN [torrent EXCEPT !.urls = Append(torrent.urls, e.str)] ELSE torrent
           /\ parse' = "urls" /\ UNCHANGED decoderVars
  <2>1. TiersOK(todo') /\ \A text : InTiers(todo', text) <=> InTierOf(y, text) \/ InTiers(rest, text)
    <3> DEFINE s == <<y>>
    <3>1. TiersOK(s) /\ \A text : InTiers(s, text) <=> InTierOf(y, text)
      BY <1>5, OneTier
    <3>2. todo' = s \o rest
      BY <1>8
    <3> HIDE DEF s
    <3> QED BY <1>2, <3>1, <3>2, ConcatTiers
  <2>2. \A text : InTiers(todo, text) <=> IsText(e, text) \/ InTiers(todo', text)
    BY <1>2, <1>5, <2>1
  <2>3. \A text : HasUrl(torrent'.urls, text) <=>
           \/ HasUrl(torrent.urls, text)
           \/ IsText(e, text) /\ IsSupportedUrl(text)
    <3>1. CASE "str" \in DOMAIN e /\ ~KnownUrl(e.str) /\ IsSupportedUrl(e.str)
      <4> DEFINE us == torrent.urls
                 vs == torrent'.urls
                 u == e.str
                 n == Len(us)
      <4>1. vs = Append(us, u)
        BY <1>8, <3>1 DEF UrlsInv, TorrentFields
      <4>2. PICK S : us \in Seq(S)
        BY DEF UrlsInv
      <4>3. us \in Seq(S \cup {u}) /\ u \in S \cup {u}
        BY <4>2
      <4> HIDE DEF us, vs, u
      <4>4. /\ n \in Nat /\ DOMAIN us = 1 .. n /\ DOMAIN vs = 1 .. (n + 1) /\ vs[n + 1] = u
            /\ \A i \in 1 .. n : vs[i] = us[i]
        BY <4>1, <4>3
      <4> HIDE DEF n
      <4>5. \A i \in 1 .. (n + 1) : i \in 1 .. n \/ i = n + 1
        BY <4>4
      <4>6. n + 1 \in 1 .. (n + 1) /\ \A i \in 1 .. n : i \in 1 .. (n + 1)
        BY <4>4
      <4>7. \A text : HasUrl(vs, text) <=> HasUrl(us, text) \/ text = u
        BY <4>4, <4>5, <4>6 DEF HasUrl
      <4>8. \A text : IsText(e, text) /\ IsSupportedUrl(text) <=> text = u
        BY <3>1 DEF IsText, u
      <4> QED BY <4>7, <4>8 DEF us, vs
    <3>2. CASE ~("str" \in DOMAIN e /\ ~KnownUrl(e.str) /\ IsSupportedUrl(e.str))
      <4>1. torrent' = torrent
        BY <1>8, <3>2
      <4>2. \A text : IsText(e, text) /\ IsSupportedUrl(text) => HasUrl(torrent.urls, text)
        BY <3>2 DEF IsText, KnownUrl, HasUrl
      <4> QED BY <4>1, <4>2
    <3> QED BY <3>1, <3>2
  <2>4. \A text : IsText(e, text) => Utf8(text)
    BY <1>8 DEF IsText
  <2>5. Sorting(value, todo', torrent'.urls)
    BY <2>1, <2>2, <2>3, <2>4 DEF Sorting
  <2> QED BY <1>8, <2>5
<1> QED BY <1>6, <1>7, <1>8

LEMMA SortingGoesOn ==
    ASSUME Sorting(value, todo, torrent.urls), todo # <<>>, ~InTier
    PROVE  Sorting(value, Tail(todo), torrent.urls)
<1> DEFINE x == todo[1]
           rest == Tail(todo)
<1>1. TiersOK(todo)
  BY DEF Sorting
<1>2. /\ TiersOK(rest) /\ IsTier(x)
      /\ \A text : InTiers(todo, text) <=> InTierOf(x, text) \/ InTiers(rest, text)
  BY <1>1, FirstTier
<1>3. \A text : ~InTierOf(x, text)
  BY DEF InTier, InTierOf
<1> HIDE DEF x, rest
<1>4. \A text : InTiers(todo, text) <=> InTiers(rest, text)
  BY <1>2, <1>3
<1>5. Sorting(value, rest, torrent.urls)
  BY <1>2, <1>4 DEF Sorting
<1> QED BY <1>5 DEF rest

LEMMA SortingEnds ==
    ASSUME Sorting(value, <<>>, torrent.urls)
    PROVE  Sorted(value, torrent.urls)
BY NoTiers DEF Sorting, Sorted

-----------------------------------------------------------------------------
(* Sums. *)

LEMMA RemainderIsOne ==
    ASSUME NEW u \in Nat \ {0}, NEW r \in 0 .. (u - 1), NEW s \in 0 .. (u - 1),
           NEW k \in Int, r - s = u * k
    PROVE  r = s
<1>1. CASE k = 0
  <2>1. u * k = 0
    BY <1>1
  <2> QED BY <2>1
<1>2. CASE k >= 1
  <2>1. u * k = u * (k - 1) + u /\ u * (k - 1) >= 0
    BY <1>2
  <2>2. u * k >= u
    <3> DEFINE a == u * (k - 1)
               b == u * k
    <3>1. a \in Int /\ b \in Int /\ b = a + u /\ a >= 0
      BY <2>1
    <3> HIDE DEF a, b
    <3>2. b >= u
      BY <3>1
    <3> QED BY <3>2 DEF b
  <2> QED BY <2>2
<1>3. CASE k <= -1
  <2>1. u * k = u * (k + 1) - u /\ u * (-(k + 1)) >= 0 /\ u * (k + 1) = -(u * (-(k + 1)))
    BY <1>3
  <2>2. u * k <= -u
    <3> DEFINE a == u * (k + 1)
               b == u * k
               c == u * (-(k + 1))
    <3>1. a \in Int /\ b \in Int /\ c \in Int /\ b = a - u /\ c >= 0 /\ a = -c
      BY <2>1
    <3> HIDE DEF a, b, c
    <3>2. b <= -u
      BY <3>1
    <3> QED BY <3>2 DEF b
  <2> QED BY <2>2
<1> QED BY <1>1, <1>2, <1>3

\* Adding up with wraps comes to the sum, wrapped.
LEMMA WrappedSum ==
    ASSUME NEW u \in Nat \ {0}, NEW a \in Nat, NEW b \in Nat
    PROVE  ((a % u) + b) % u = (a + b) % u
<1> DEFINE p == a \div u
           x == a % u
           q == (x + b) \div u
           r == (x + b) % u
           m == (a + b) \div u
           s == (a + b) % u
<1>1. a = u * p + x /\ p \in Int /\ x \in 0 .. (u - 1)
  OBVIOUS
<1>2. x + b \in Nat
  BY <1>1
<1> HIDE DEF x
<1>3. x + b = u * q + r /\ q \in Int /\ r \in 0 .. (u - 1)
  BY <1>2
<1>4. a + b = u * m + s /\ m \in Int /\ s \in 0 .. (u - 1)
  OBVIOUS
<1> HIDE DEF p, q, r, m, s
<1>5. u * (m - p - q) = u * m - u * p - u * q
  BY <1>1, <1>3, <1>4
<1> DEFINE up == u * p
           uq == u * q
           um == u * m
<1>6. up \in Int /\ uq \in Int /\ um \in Int
  BY <1>1, <1>3, <1>4
<1>7. a = up + x /\ x + b = uq + r /\ a + b = um + s
  BY <1>1, <1>3, <1>4
<1>7a. u * (m - p - q) = um - up - uq
  BY <1>5
<1> HIDE DEF up, uq, um
<1>8. r - s = um - up - uq
  BY <1>1, <1>3, <1>4, <1>6, <1>7
<1>9. r - s = u * (m - p - q) /\ m - p - q \in Int
  BY <1>1, <1>3, <1>4, <1>7a, <1>8
<1>10. r = s
  BY <1>3, <1>4, <1>9, RemainderIsOne
<1> QED BY <1>10 DEF r, s, x

\* What the recursion says of each partial sum.
LEMMA SumsUnfold ==
    ASSUME NEW S, NEW fs \in Seq(S)
    PROVE  \A n \in 0 .. Len(fs) :
              Sums(fs)[n] = IF n = 0 THEN 0 ELSE Sums(fs)[n - 1] + Field(fs[n], "length").int
<1> DEFINE L == Len(fs)
           Plus(f, n) == IF n = 0 THEN 0 ELSE f[n - 1] + Field(fs[n], "length").int
           Up(f, m) == f = [n \in 0 .. m |-> Plus(f, n)]
           T == {m \in Nat : ~ \E f : Up(f, m)}
<1>0. L \in Nat
  OBVIOUS
<1>1. T = {}
  <2> SUFFICES ASSUME T # {} PROVE FALSE
    OBVIOUS
  <2>1. PICK m \in T : \A j \in T : m <= j
    BY LeastNat
  <2>2. CASE m = 0
    <3> DEFINE g == [n \in 0 .. m |-> 0]
    <3>1. \A n \in 0 .. m : n = 0
      BY <2>2
    <3>2. Up(g, m)
      BY <3>1
    <3> QED BY <2>1, <3>2
  <2>3. CASE m # 0
    <3>1. m - 1 \in Nat /\ m \in Nat /\ m - 1 < m
      BY <2>1, <2>3
    <3>2. PICK f : Up(f, m - 1)
      <4>1. m - 1 \notin T
        <5> HIDE DEF T
        <5> QED BY <2>1, <3>1
      <4> QED BY <3>1, <4>1
    <3> DEFINE g == [n \in 0 .. m |-> IF n < m THEN f[n] ELSE Plus(f, m)]
    <3>3. \A n \in 0 .. m : n < m => g[n] = f[n] /\ f[n] = Plus(f, n)
      <4>1. \A n \in 0 .. m : n < m => n \in 0 .. (m - 1)
        BY <3>1
      <4>2. \A n \in 0 .. (m - 1) : f[n] = Plus(f, n)
        BY <3>2
      <4> QED BY <4>1, <4>2
    <3>4. g[m] = Plus(f, m)
      BY <3>1
    <3>5. \A n \in 0 .. m : n # 0 => g[n - 1] = f[n - 1]
      <4>1. \A n \in 0 .. m : n # 0 => n - 1 \in 0 .. m /\ n - 1 < m
        BY <3>1
      <4> QED BY <3>3, <4>1
    <3>6. g = [n \in 0 .. m |-> g[n]]
      OBVIOUS
    <3> HIDE DEF g
    <3>7. \A n \in 0 .. m : g[n] = Plus(g, n)
      <4>1. \A n \in 0 .. m : n < m \/ n = m
        BY <3>1
      <4>2. \A n \in 0 .. m : Plus(g, n) = Plus(f, n)
        BY <3>5
      <4> QED BY <3>3, <3>4, <4>1, <4>2
    <3>8. Up(g, m)
      BY <3>6, <3>7
    <3> QED BY <2>1, <3>8
  <2> QED BY <2>2, <2>3
<1>2. PICK f : Up(f, L)
  BY <1>0, <1>1
<1>3. Sums(fs) = CHOOSE g : Up(g, L)
  BY DEF Sums
<1>4. Up(Sums(fs), L)
  BY <1>2, <1>3
<1>5. \A n \in 0 .. L : Sums(fs)[n] = Plus(Sums(fs), n)
  <2> DEFINE g == Sums(fs)
  <2>1. g = [n \in 0 .. L |-> Plus(g, n)]
    BY <1>4
  <2> HIDE DEF g, L
  <2>2. \A n \in 0 .. L : g[n] = Plus(g, n)
    BY <2>1
  <2> QED BY <2>2 DEF g
<1> QED BY <1>5

(* The length: so much as the files that have been read come to. *)

FilesOf(info) == Field(info, "files").list

Adding(info, rest, length) ==
    IF Has(info, "files", "list")
    THEN LET fs == FilesOf(info)
             n  == Len(fs) - Len(rest)
         IN  /\ \E S : rest \in Seq(S)
             /\ n \in 0 .. Len(fs)
             /\ \A i \in 1 .. Len(rest) : rest[i] = fs[n + i]
             /\ \A i \in 1 .. n : HasLength(fs[i])
             /\ Sums(fs)[n] \in Nat /\ length = Sums(fs)[n] % U64
    ELSE rest = <<>> /\ length = LengthOf(info) % U64

LEMMA LengthFacts ==
    ASSUME data \in Seq(STRING), NEW x, IsPart(x), "dict" \in DOMAIN x
    PROVE  /\ Has(x, "length", "int") => Field(x, "length").int \in -I64 .. (I64 - 1)
           /\ Has(x, "files", "list") =>
                 \E S : FilesOf(x) \in Seq(S) /\ \A y \in S : IsPart(y)
<1>1. \A k \in DOMAIN x.dict : IsPart(x.dict[k])
  BY PartsAreProper DEF Proper
<1>2. ASSUME Has(x, "length", "int") PROVE Field(x, "length").int \in -I64 .. (I64 - 1)
  <2> DEFINE f == Field(x, "length")
  <2>1. IsPart(f) /\ "int" \in DOMAIN f
    BY <1>1, <1>2 DEF Has, Field
  <2> HIDE DEF f
  <2>2. f.int \in -I64 .. (I64 - 1)
    BY <2>1, PartsAreProper DEF Proper
  <2> QED BY <2>2 DEF f
<1>3. ASSUME Has(x, "files", "list") PROVE \E S : FilesOf(x) \in Seq(S) /\ \A y \in S : IsPart(y)
  <2> DEFINE f == Field(x, "files")
  <2>1. IsPart(f) /\ "list" \in DOMAIN f
    BY <1>1, <1>3 DEF Has, Field
  <2> HIDE DEF f
  <2>2. \E S : f.list \in Seq(S) /\ \A y \in S : IsPart(y)
    BY <2>1, PartsAreProper DEF Proper
  <2> QED BY <2>2 DEF f, FilesOf
<1> QED BY <1>2, <1>3

LEMMA AddingStarts ==
    ASSUME data \in Seq(STRING), NEW x, IsPart(x), "dict" \in DOMAIN x,
           Has(x, "length", "int") => Field(x, "length").int >= 0
    PROVE  Adding(x, IF Has(x, "files", "list") THEN FilesOf(x) ELSE <<>>,
                  IF Has(x, "files", "list") \/ ~Has(x, "length", "int")
                  THEN 0 ELSE Field(x, "length").int)
<1>1. 0 % U64 = 0
  BY TotalAssumption
<1>2. CASE Has(x, "files", "list")
  <2> DEFINE fs == FilesOf(x)
  <2>1. PICK S : fs \in Seq(S)
    BY <1>2, LengthFacts
  <2> HIDE DEF fs
  <2>2. Len(fs) \in Nat /\ Len(fs) - Len(fs) = 0 /\ 0 \in 0 .. Len(fs)
    BY <2>1
  <2>3. Sums(fs)[0] = 0
    BY <2>1, <2>2, SumsUnfold
  <2>4. \A i \in 1 .. Len(fs) : 0 + i = i
    BY <2>2
  <2>5. Adding(x, fs, 0)
    BY <1>1, <1>2, <2>1, <2>2, <2>3, <2>4 DEF Adding, fs
  <2> QED BY <1>2, <2>5 DEF fs
<1>3. CASE ~Has(x, "files", "list") /\ Has(x, "length", "int")
  <2> DEFINE n == Field(x, "length").int
  <2>1. n \in -I64 .. (I64 - 1) /\ n >= 0
    BY <1>3, LengthFacts
  <2> HIDE DEF n
  <2>2. n \in 0 .. (U64 - 1)
    BY <2>1, WidthAssumption, TotalAssumption
  <2>3. n % U64 = n
    BY <2>2, TotalAssumption
  <2>4. LengthOf(x) = n
    BY <1>3 DEF LengthOf, n
  <2>5. Adding(x, <<>>, n)
    BY <1>3, <2>3, <2>4 DEF Adding
  <2> QED BY <1>3, <2>5 DEF n
<1>4. CASE ~Has(x, "files", "list") /\ ~Has(x, "length", "int")
  <2>1. LengthOf(x) = 0
    BY <1>4 DEF LengthOf
  <2>2. Adding(x, <<>>, 0)
    BY <1>1, <1>4, <2>1 DEF Adding
  <2> QED BY <1>4, <2>2
<1> QED BY <1>2, <1>3, <1>4

LEMMA AddingGoesOn ==
    ASSUME data \in Seq(STRING), NEW x, IsPart(x), "dict" \in DOMAIN x,
           NEW rest, NEW length, Adding(x, rest, length), rest # <<>>
    PROVE  /\ Has(x, "files", "list") /\ \E i \in DOMAIN FilesOf(x) : rest[1] = FilesOf(x)[i]
           /\ HasLength(rest[1]) =>
                 Adding(x, Tail(rest), (length + Field(rest[1], "length").int) % U64)
<1>1. Has(x, "files", "list")
  BY DEF Adding
<1> DEFINE fs == FilesOf(x)
           L == Len(fs)
           m == Len(rest)
           n == L - m
           t == Tail(rest)
<1>2. /\ \E S : rest \in Seq(S)
      /\ n \in 0 .. L
      /\ \A i \in 1 .. m : rest[i] = fs[n + i]
      /\ \A i \in 1 .. n : HasLength(fs[i])
      /\ Sums(fs)[n] \in Nat /\ length = Sums(fs)[n] % U64
  BY <1>1 DEF Adding
<1>3. PICK S : fs \in Seq(S) /\ \A y \in S : IsPart(y)
  BY <1>1, LengthFacts
<1>4. PICK R : rest \in Seq(R)
  BY <1>2
<1>5. /\ m \in Nat \ {0} /\ L \in Nat /\ DOMAIN fs = 1 .. L
      /\ t \in Seq(R) /\ Len(t) = m - 1 /\ \A i \in 1 .. (m - 1) : t[i] = rest[i + 1]
  BY <1>3, <1>4
<1> DEFINE k == n + 1
           y == fs[k]
<1>6. k \in 1 .. L /\ k - 1 = n /\ 1 \in 1 .. m /\ L - (m - 1) = k
  BY <1>2, <1>5
<1>7. rest[1] = y /\ IsPart(y)
  BY <1>2, <1>3, <1>5, <1>6
<1>8. ASSUME HasLength(rest[1])
      PROVE  Adding(x, t, (length + Field(rest[1], "length").int) % U64)
  <2> DEFINE b == Field(y, "length").int
             a == Sums(fs)[n]
  <2>1. HasLength(y)
    BY <1>7, <1>8
  <2> HIDE DEF y
  <2>2. b \in Nat
    <3>1. "dict" \in DOMAIN y /\ Has(y, "length", "int") /\ b >= 0
      BY <2>1 DEF HasLength
    <3>2. b \in -I64 .. (I64 - 1)
      BY <1>7, <3>1, LengthFacts
    <3> HIDE DEF b
    <3> QED BY <3>1, <3>2, WidthAssumption
  <2> HIDE DEF L, m
  <2>3. Sums(fs)[k] = a + b
    <3>1. k \in 0 .. L /\ k # 0
      BY <1>5, <1>6
    <3>2. Sums(fs)[k] = IF k = 0 THEN 0 ELSE Sums(fs)[k - 1] + Field(fs[k], "length").int
      BY <1>3, <3>1, SumsUnfold DEF L
    <3> QED BY <1>6, <3>1, <3>2 DEF y
  <2>4. a \in Nat /\ length = a % U64
    BY <1>2
  <2> HIDE DEF a, b
  <2>5. a + b \in Nat /\ (length + b) % U64 = (a + b) % U64
    BY <2>2, <2>4, WrappedSum, TotalAssumption
  <2>6. \A i \in 1 .. (m - 1) : t[i] = fs[k + i]
    <3> SUFFICES ASSUME NEW i \in 1 .. (m - 1) PROVE t[i] = fs[k + i]
      OBVIOUS
    <3>1. i + 1 \in 1 .. m /\ n + (i + 1) = k + i
      BY <1>2, <1>5
    <3> HIDE DEF k
    <3> DEFINE j == i + 1
    <3>2. j \in 1 .. m /\ n + j = k + i /\ t[i] = rest[j]
      BY <1>5, <3>1
    <3> HIDE DEF j
    <3>3. rest[j] = fs[n + j]
      BY <1>2, <3>2
    <3> QED BY <3>2, <3>3
  <2>7. \A i \in 1 .. k : HasLength(fs[i])
    <3>1. \A i \in 1 .. k : i \in 1 .. n \/ i = k
      BY <1>2, <1>5
    <3> QED BY <1>2, <2>1, <3>1 DEF y
  <2> DEFINE new == (a + b) % U64
  <2>8. k \in 0 .. L
    BY <1>5, <1>6
  <2> HIDE DEF t, n, k, fs
  <2>9. Len(fs) - Len(t) = k
    BY <1>5, <1>6 DEF L
  <2>10. Sums(fs)[k] \in Nat /\ new = Sums(fs)[k] % U64
    BY <2>3, <2>5
  <2>11. \A i \in 1 .. Len(t) : t[i] = fs[k + i]
    BY <1>5, <2>6
  <2> HIDE DEF new
  <2>12. Adding(x, t, new)
    <3>1. k \in 0 .. Len(fs)
      BY <2>8 DEF L
    <3>2. FilesOf(x) = fs
      BY DEF fs
    <3> QED BY <1>1, <1>5, <2>7, <2>9, <2>10, <2>11, <3>1, <3>2 DEF Adding
  <2>13. (length + b) % U64 = new
    BY <2>5 DEF new
  <2> QED BY <1>7, <2>12, <2>13 DEF b, y, new
<1> QED BY <1>1, <1>5, <1>6, <1>7, <1>8

LEMMA AddingEnds ==
    ASSUME data \in Seq(STRING), NEW x, IsPart(x), "dict" \in DOMAIN x,
           NEW length, Adding(x, <<>>, length)
    PROVE  /\ length = LengthOf(x) % U64
           /\ \A file \in Items(x, "files") : HasLength(file)
<1>1. CASE Has(x, "files", "list")
  <2> DEFINE fs == FilesOf(x)
  <2>1. PICK S : fs \in Seq(S)
    BY <1>1, LengthFacts
  <2>2. Len(fs) \in Nat /\ DOMAIN fs = 1 .. Len(fs) /\ Len(<<>>) = 0
    BY <2>1
  <2>3. /\ \A i \in 1 .. (Len(fs) - 0) : HasLength(fs[i])
        /\ length = Sums(fs)[Len(fs) - 0] % U64
    BY <1>1, <2>2 DEF Adding
  <2>4. Len(fs) - 0 = Len(fs)
    BY <2>2
  <2>5. LengthOf(x) = Sums(fs)[Len(fs)]
    BY <1>1 DEF LengthOf, FilesOf
  <2>6. Items(x, "files") = {fs[i] : i \in DOMAIN fs}
    BY <1>1 DEF Items, FilesOf
  <2> HIDE DEF fs
  <2> QED BY <2>2, <2>3, <2>4, <2>5, <2>6
<1>2. CASE ~Has(x, "files", "list")
  BY <1>2 DEF Adding, Items
<1> QED BY <1>1, <1>2

-----------------------------------------------------------------------------
(* The decoder and the parser take turns. *)

DecodedSet == {"no", "running", "ok", "error", "panic", "overflow"}
ParseSet == {"no", "decode", "urls", "info", "files", "ok", "error"}

LEMMA DecodedType ==
    ASSUME DecodeStep
    PROVE  decoded' \in DecodedSet \ {"no"}
<1>1. \A frames, v : Return(frames, v) => decoded' \in DecodedSet \ {"no"}
  BY DEF Return, DecodedSet, DecodeStep
<1>2. \A how \in {"error", "panic", "overflow"} : Stop(how) => decoded' \in DecodedSet \ {"no"}
  BY DEF Stop, DecodedSet
<1>3. CASE DecodeInteger
  BY <1>1, <1>2, <1>3 DEF DecodeInteger
<1>4. CASE DecodeByteString
  <2>1. decoded' = decoded => decoded' \in DecodedSet \ {"no"}
    BY DEF DecodeStep, DecodedSet
  <2> QED BY <1>1, <1>2, <1>4, <2>1 DEF DecodeByteString
<1>5. CASE OpenLoop \/ OverflowStack \/ CloseLoop \/ DecodeNothing
  BY <1>1, <1>2, <1>5 DEF OpenLoop, OverflowStack, CloseLoop, DecodeNothing, DecodeStep,
     DecodedSet
<1> QED BY <1>3, <1>4, <1>5 DEF DecodeStep

-----------------------------------------------------------------------------
(* The parser: what it has made of the value so far. *)

ParserInv ==
    /\ parse = "no" => decoded = "no"
    /\ parse = "decode" => decoded \in {"running", "ok", "panic", "overflow"}
    /\ parse = "error" => decoded \in {"ok", "error"}
    /\ parse \in {"urls", "info", "files", "ok"} => decoded = "ok" /\ "dict" \in DOMAIN value
    /\ parse = "urls" => Sorting(value, todo, torrent.urls)
    /\ parse \in {"info", "files", "ok"} => Sorted(value, torrent.urls)
    /\ parse \in {"files", "ok"} => HasInfo /\ torrent.hash = InfoHash(Info)
    /\ parse = "files" => Adding(Info, todo, torrent.length)
    /\ parse = "ok" => WellFormed(value) /\ torrent.length = LengthOf(Info) % U64
    /\ parse = "error" /\ decoded = "ok" => ~WellFormed(value)

LEMMA DecodeParser ==
    ASSUME ParserInv, Decode, decoded' \in DecodedSet \ {"no"}
    PROVE  ParserInv'
<1>1. \/ parse' = "error" /\ decoded' = "error"
      \/ parse' = "decode" /\ decoded' \in {"running", "ok", "panic", "overflow"}
  BY DEF Decode, DecodedSet
<1> QED BY <1>1 DEF ParserInv

\* An error that the value is to blame for.
LEMMA FailedParser ==
    ASSUME parse' = "error", decoded = "ok", UNCHANGED decoderVars, ~WellFormed(value)
    PROVE  ParserInv'
<1>1. decoded' = "ok" /\ value' = value
  BY DEF decoderVars
<1> QED BY <1>1 DEF ParserInv

LEMMA UrlsParser ==
    ASSUME DecoderInv, Faithful, UrlsInv, ParserInv, TopLevel \/ TakeUrl \/ NextTier \/ UrlsEnd
    PROVE  ParserInv'
<1>0. data \in Seq(STRING)
  BY DEF DecoderInv
<1>1. decoded = "ok"
  BY DEF TopLevel, TakeUrl, NextTier, UrlsEnd, ParserInv
<1>2. IsPart(value)
  BY <1>1, ValueIsPart
<1>3. ASSUME parse' = "urls", UNCHANGED decoderVars, "dict" \in DOMAIN value,
             Sorting(value, todo', torrent'.urls)
      PROVE  ParserInv'
  <2>1. decoded' = "ok" /\ value' = value
    BY <1>1, <1>3 DEF decoderVars
  <2> QED BY <1>3, <2>1 DEF ParserInv
<1>4. CASE TopLevel
  <2>1. CASE "dict" \notin DOMAIN value /\ ParseFails
    BY <1>1, <2>1, FailedParser DEF WellFormed, ParseFails
  <2>2. CASE "dict" \in DOMAIN value /\ ~ParseFails
    <3>1. todo' = Tiers /\ torrent'.urls = <<>> /\ parse' = "urls" /\ UNCHANGED decoderVars
      BY <1>4, <2>2 DEF TopLevel, NoTorrent
    <3>2. Sorting(value, Tiers, <<>>)
      BY <1>0, <1>2, <2>2, SortingStarts
    <3> QED BY <1>3, <2>2, <3>1, <3>2
  <2>3. ParseFails => "dict" \notin DOMAIN value
    BY <1>4 DEF TopLevel, ParseFails
  <2> QED BY <1>4, <2>1, <2>2, <2>3 DEF TopLevel
<1>5. CASE TakeUrl
  <2>1. Sorting(value, todo, torrent.urls) /\ InTier /\ "dict" \in DOMAIN value
    BY <1>5 DEF TakeUrl, ParserInv
  <2>2. CASE /\ parse' = "error" /\ UNCHANGED decoderVars
             /\ \E text : Wanted(value, text) /\ ~Utf8(text)
    BY <1>1, <2>2, FailedParser DEF WellFormed, Wanted
  <2>3. CASE parse' = "urls" /\ UNCHANGED decoderVars /\ Sorting(value, todo', torrent'.urls)
    BY <1>3, <2>1, <2>3
  <2> QED BY <1>5, <2>1, <2>2, <2>3, SortingTakes
<1>6. CASE NextTier
  <2>1. /\ Sorting(value, todo, torrent.urls) /\ "dict" \in DOMAIN value
        /\ todo # <<>> /\ ~InTier /\ todo' = Tail(todo) /\ torrent' = torrent
        /\ parse' = "urls" /\ UNCHANGED decoderVars
    BY <1>6 DEF NextTier, ParserInv
  <2>2. Sorting(value, Tail(todo), torrent.urls)
    BY <2>1, SortingGoesOn
  <2> QED BY <1>3, <2>1, <2>2
<1>7. CASE UrlsEnd
  <2>1. /\ Sorting(value, <<>>, torrent.urls) /\ "dict" \in DOMAIN value
        /\ torrent' = torrent /\ UNCHANGED decoderVars
        /\ parse' = IF torrent.urls = <<>> THEN "error" ELSE "info"
    BY <1>7 DEF UrlsEnd, ParserInv
  <2>2. Sorted(value, torrent.urls)
    BY <2>1, SortingEnds
  <2>3. CASE torrent.urls = <<>>
    <3>1. \A text : ~HasUrl(<<>>, text)
      BY DEF HasUrl
    <3>2. \A text : Wanted(value, text) => ~IsSupportedUrl(text)
      BY <2>2, <2>3, <3>1 DEF Sorted
    <3>3. ~WellFormed(value)
      BY <3>2 DEF WellFormed, Wanted
    <3> QED BY <1>1, <2>1, <2>3, <3>3, FailedParser
  <2>4. CASE torrent.urls # <<>>
    <3>1. parse' = "info" /\ decoded' = "ok" /\ value' = value
      BY <1>1, <2>1, <2>4 DEF decoderVars
    <3> QED BY <2>1, <2>2, <3>1 DEF ParserInv
  <2> QED BY <2>3, <2>4
<1> QED BY <1>4, <1>5, <1>6, <1>7

LEMMA InfoParser ==
    ASSUME DecoderInv, Faithful, UrlsInv, ParserInv, TakeInfo \/ TakeFile \/ FinishParse
    PROVE  ParserInv'
<1>0. data \in Seq(STRING)
  BY DEF DecoderInv
<1>1. /\ decoded = "ok" /\ "dict" \in DOMAIN value /\ Sorted(value, torrent.urls)
      /\ UNCHANGED decoderVars
  BY DEF TakeInfo, TakeFile, FinishParse, ParseFails, ParserInv
<1>2. decoded' = "ok" /\ value' = value
  BY <1>1 DEF decoderVars
<1>3. HasInfo => IsPart(Info) /\ "dict" \in DOMAIN Info
  <2>1. IsPart(value)
    BY <1>1, ValueIsPart
  <2>2. \A k \in DOMAIN value.dict : IsPart(value.dict[k])
    BY <1>0, <1>1, <2>1, PartsAreProper DEF Proper
  <2> QED BY <2>2 DEF HasInfo, Has, Info, Field
<1>4. /\ HasInfo' <=> HasInfo
      /\ Info' = Info
  BY <1>2 DEF HasInfo, Info
<1>5. DOMAIN torrent = TorrentFields
  BY DEF UrlsInv
<1>6. CASE TakeInfo
  <2>1. CASE ~HasInfo /\ ParseFails
    <3>1. ~WellFormed(value)
      BY <2>1 DEF WellFormed, HasInfo, Info
    <3> QED BY <1>1, <2>1, <3>1, FailedParser DEF ParseFails
  <2>2. CASE HasInfo
    <3> DEFINE len == IF Has(Info, "files", "list") \/ ~Has(Info, "length", "int")
                      THEN 0 ELSE Field(Info, "length").int
               files_ == IF Has(Info, "files", "list") THEN FilesOf(Info) ELSE <<>>
    <3>1. /\ torrent' = [torrent EXCEPT !.hash = InfoHash(Info), !.name = Field(Info, "name").str,
                                        !.length = len]
          /\ todo' = files_ /\ parse' = "files"
      BY <1>6, <2>2 DEF TakeInfo, FilesOf
    <3>2. Adding(Info, files_, len)
      <4>1. Has(Info, "length", "int") => Field(Info, "length").int >= 0
        BY <2>2 DEF HasInfo
      <4> QED BY <1>0, <1>3, <2>2, <4>1, AddingStarts
    <3> HIDE DEF len, files_
    <3>3. torrent'.urls = torrent.urls /\ torrent'.hash = InfoHash(Info) /\ torrent'.length = len
      BY <1>5, <3>1 DEF TorrentFields
    <3> QED BY <1>1, <1>2, <1>4, <2>2, <3>1, <3>2, <3>3 DEF ParserInv
  <2> QED BY <1>6, <2>1, <2>2 DEF TakeInfo
<1>7. CASE TakeFile
  <2>1. /\ Adding(Info, todo, torrent.length) /\ HasInfo /\ torrent.hash = InfoHash(Info)
        /\ todo # <<>>
    BY <1>7 DEF TakeFile, ParserInv
  <2>2. /\ Has(Info, "files", "list") /\ \E i \in DOMAIN FilesOf(Info) : todo[1] = FilesOf(Info)[i]
        /\ HasLength(todo[1]) =>
              Adding(Info, Tail(todo), (torrent.length + Field(todo[1], "length").int) % U64)
    BY <1>0, <1>3, <2>1, AddingGoesOn
  <2>3. CASE ~HasLength(todo[1]) /\ ParseFails
    <3>1. todo[1] \in Items(Info, "files")
      BY <2>2 DEF Items, FilesOf
    <3>2. ~WellFormed(value)
      BY <2>3, <3>1 DEF WellFormed, Info
    <3> QED BY <1>1, <2>3, <3>2, FailedParser DEF ParseFails
  <2>4. CASE HasLength(todo[1])
    <3> DEFINE len == (torrent.length + Field(todo[1], "length").int) % U64
    <3>1. torrent' = [torrent EXCEPT !.length = len] /\ todo' = Tail(todo) /\ parse' = "files"
      BY <1>7, <2>4 DEF TakeFile
    <3>2. Adding(Info, Tail(todo), len)
      BY <2>2, <2>4
    <3> HIDE DEF len
    <3>3. torrent'.urls = torrent.urls /\ torrent'.hash = torrent.hash /\ torrent'.length = len
      BY <1>5, <3>1 DEF TorrentFields
    <3> QED BY <1>1, <1>2, <1>4, <2>1, <3>1, <3>2, <3>3 DEF ParserInv
  <2> QED BY <1>7, <2>3, <2>4 DEF TakeFile
<1>8. CASE FinishParse
  <2>1. /\ Adding(Info, <<>>, torrent.length) /\ HasInfo /\ torrent.hash = InfoHash(Info)
    BY <1>8 DEF FinishParse, ParserInv
  <2>2. CASE Has(value, "encoding", "str") /\ ~Utf8(Field(value, "encoding").str) /\ ParseFails
    BY <1>1, <2>2, FailedParser DEF WellFormed, ParseFails
  <2>3. CASE Has(value, "encoding", "str") => Utf8(Field(value, "encoding").str)
    <3>1. PICK a : torrent' = [torrent EXCEPT !.private = a]
      BY <1>8, <2>3 DEF FinishParse
    <3>2. /\ torrent'.urls = torrent.urls /\ torrent'.hash = torrent.hash
          /\ torrent'.length = torrent.length /\ parse' = "ok"
      BY <1>5, <1>8, <2>3, <3>1 DEF TorrentFields, FinishParse
    <3>3. /\ torrent.length = LengthOf(Info) % U64
          /\ \A file \in Items(Info, "files") : HasLength(file)
      BY <1>0, <1>3, <2>1, AddingEnds
    <3>4. \E text : Wanted(value, text) /\ IsSupportedUrl(text)
      <4> DEFINE us == torrent.urls
      <4>1. us # <<>> /\ \A i \in DOMAIN us : IsSupportedUrl(us[i])
        BY <1>8 DEF FinishParse, UrlsInv, UrlsClean
      <4>2. PICK S : us \in Seq(S)
        BY DEF UrlsInv
      <4> HIDE DEF us
      <4>3. 1 \in DOMAIN us
        BY <4>1, <4>2
      <4>4. HasUrl(us, us[1])
        BY <4>3 DEF HasUrl
      <4> QED BY <1>1, <4>1, <4>3, <4>4 DEF Sorted, us
    <3>5. WellFormed(value)
      <4>1. \A text \in Named(value) : Utf8(text)
        BY <1>1 DEF Sorted, Wanted
      <4>2. \E text \in Named(value) : IsSupportedUrl(text)
        BY <3>4 DEF Wanted
      <4> QED BY <1>1, <2>1, <2>3, <3>3, <4>1, <4>2 DEF WellFormed, HasInfo, Info
    <3> QED BY <1>1, <1>2, <1>4, <2>1, <3>2, <3>3, <3>5 DEF ParserInv
  <2> QED BY <1>8, <2>2, <2>3 DEF FinishParse
<1> QED BY <1>6, <1>7, <1>8

-----------------------------------------------------------------------------
(* The start. *)

\* TypeOK but for the configuration, and what goes with it.
StartOK ==
    /\ decoded \in DecodedSet /\ parse \in ParseSet
    /\ boot \in {"args", "config", "load", "pid", "announce", "no torrent", "panicked"}
    /\ left \subseteq DOMAIN files /\ current \subseteq File
    /\ parse # "no" => \E f \in File : current = {f}
    /\ parse = "no" => position = 0 /\ stack = <<>>
    /\ \E S : list \in Seq(S)
    /\ \A i \in DOMAIN list : list[i].file \in File
    /\ NoTorrentTwice
    /\ count \in 0 .. (U16 - 1) /\ pidFile \in BOOLEAN
    /\ DecoderInv /\ Faithful
    /\ UrlsInv /\ ParserInv

LEMMA StartInit == Init => StartOK
<1> SUFFICES ASSUME Init PROVE StartOK
  OBVIOUS
<1>1. data = <<>> /\ stack = <<>> /\ position = 0 /\ list = <<>> /\ torrent = NoTorrent
      /\ parse = "no" /\ decoded = "no" /\ boot = "args" /\ left = {} /\ current = {}
      /\ count = 0 /\ pidFile = FALSE
  BY DEF Init
<1>2. <<>> \in Seq({}) /\ <<>> \in Seq(STRING) /\ Len(<<>>) = 0 /\ DOMAIN <<>> = {}
  OBVIOUS
<1>3. DecoderInv
  BY <1>1, <1>2 DEF DecoderInv, DecoderInBounds
<1>4. NoTorrentTwice /\ \E S : list \in Seq(S)
  BY <1>1, <1>2 DEF NoTorrentTwice
<1>5. UrlsInv
  <2>1. torrent.urls = <<>> /\ DOMAIN torrent = TorrentFields
    BY <1>1 DEF NoTorrent, TorrentFields
  <2>2. torrent = [x \in TorrentFields |-> torrent[x]]
    BY <1>1 DEF NoTorrent, TorrentFields
  <2> QED BY <1>1, <1>2, <2>1, <2>2 DEF UrlsInv, UrlsClean
<1>6. 0 \in 0 .. (U16 - 1)
  BY ConfigAssumption
<1>7. Faithful /\ ParserInv
  BY <1>1 DEF Faithful, ParserInv
<1> QED BY <1>1, <1>2, <1>3, <1>4, <1>5, <1>6, <1>7 DEF StartOK, DecodedSet, ParseSet

LEMMA StartSame ==
    ASSUME StartOK, UNCHANGED <<parseVars, files, current, list, count>>,
           boot' \in {"args", "config", "load", "pid", "announce", "no torrent", "panicked"},
           left' \subseteq DOMAIN files, pidFile' \in BOOLEAN
    PROVE  StartOK'
<1>1. /\ data' = data /\ position' = position /\ stack' = stack /\ decoded' = decoded
      /\ parse' = parse /\ torrent' = torrent /\ files' = files /\ current' = current
      /\ list' = list /\ count' = count
  BY DEF parseVars, decoderVars
<1>2. DecoderInv' /\ Faithful'
  BY <1>1, DecoderSame DEF StartOK, parseVars
<1>3. UrlsInv'
  BY <1>1, SameUrls DEF StartOK
<1>4. NoTorrentTwice'
  BY <1>1 DEF StartOK, NoTorrentTwice
<1>5. ParserInv'
  <2>1. value' = value /\ todo' = todo
    BY DEF parseVars, decoderVars
  <2> QED BY <1>1, <2>1 DEF StartOK, ParserInv, HasInfo, Info
<1> QED BY <1>1, <1>2, <1>3, <1>4, <1>5 DEF StartOK

LEMMA ParseFileInv == ASSUME StartOK, ParseFile PROVE StartOK'
<1>1. /\ files' = files /\ left' = left /\ current' = current
      /\ list' = list /\ count' = count /\ pidFile' = pidFile
      /\ boot' \in {"load", "panicked"}
      /\ ParseStep
  BY DEF ParseFile, world, listVars
<1>2. UrlsInv'
  BY <1>1, ParseStepUrls DEF StartOK
<1>3. parse # "no" /\ parse' \in ParseSet \ {"no"}
  BY <1>1 DEF ParseStep, Decode, TopLevel, TakeUrl, NextTier, UrlsEnd, TakeInfo, TakeFile,
              FinishParse, ParseFails, ParseSet, StartOK
<1>4. DecoderInv' /\ Faithful' /\ decoded' \in DecodedSet
  <2>1. CASE Decode
    BY <2>1, DecodeStepInv, FaithfulStep, DecodedType DEF Decode, StartOK
  <2>2. CASE UNCHANGED decoderVars
    <3>1. decoded' = decoded
      BY <2>2 DEF decoderVars
    <3> QED BY <2>2, <3>1, DecoderSame DEF StartOK
  <2> QED BY <1>1, <2>1, <2>2 DEF ParseStep, TopLevel, TakeUrl, NextTier, UrlsEnd, TakeInfo,
             TakeFile, FinishParse, ParseFails
<1>5. NoTorrentTwice'
  BY <1>1 DEF StartOK, NoTorrentTwice
<1>6. ParserInv'
  <2>1. CASE Decode
    BY <2>1, DecodedType, DecodeParser DEF Decode, StartOK
  <2> QED BY <1>1, <2>1, UrlsParser, InfoParser DEF ParseStep, StartOK
<1> QED BY <1>1, <1>2, <1>3, <1>4, <1>5, <1>6 DEF StartOK

LEMMA NextFileInv == ASSUME WorldOK, StartOK, NextFile PROVE StartOK'
<1>1. PICK f \in left : \/ End("panicked")
                        \/ /\ left' = left \ {f}
                           /\ UNCHANGED <<parseVars, world, boot, current, listVars>>
                        \/ /\ left' = left \ {f} /\ current' = {f}
                           /\ data' = files[f].data /\ decoded' = "running" /\ parse' = "decode"
                           /\ UNCHANGED <<position, stack, torrent, world, boot, listVars>>
  BY DEF NextFile
<1>2. CASE End("panicked")
  BY <1>2, StartSame DEF End, StartOK, world, listVars
<1>3. CASE left' = left \ {f} /\ UNCHANGED <<parseVars, world, boot, current, listVars>>
  BY <1>3, StartSame DEF StartOK, world, listVars
<1>4. CASE /\ left' = left \ {f} /\ current' = {f}
           /\ data' = files[f].data /\ decoded' = "running" /\ parse' = "decode"
           /\ UNCHANGED <<position, stack, torrent, world, boot, listVars>>
  <2>1. f \in DOMAIN files /\ f \in File /\ data' \in Seq(STRING) /\ Len(data') < USize
    BY <1>4 DEF StartOK, WorldOK
  <2>2. position' = 0 /\ stack' = <<>> /\ parse' # "no"
    BY <1>4 DEF NextFile, StartOK, End, parseVars, decoderVars
  <2>3. <<>> \in Seq({}) /\ Len(<<>>) = 0
    OBVIOUS
  <2>4. Len(data') \in Nat
    BY <2>1
  <2>5. DecoderInv' /\ Faithful'
    BY <1>4, <2>1, <2>2, <2>3, <2>4, FaithfulStarts DEF DecoderInv, DecoderInBounds
  <2>6. UrlsInv'
    BY <1>4, SameUrls DEF StartOK
  <2>7. NoTorrentTwice'
    BY <1>4 DEF StartOK, NoTorrentTwice, listVars
  <2>8. ParserInv'
    BY <1>4 DEF ParserInv
  <2> QED BY <1>4, <2>1, <2>2, <2>5, <2>6, <2>7, <2>8
          DEF StartOK, DecodedSet, ParseSet, world, listVars
<1> QED BY <1>1, <1>2, <1>3, <1>4

\* A file is done with: what is left is the list.
LEMMA FileDoneInv ==
    ASSUME StartOK, Forget,
           boot' = boot, files' = files, left' = left, pidFile' = pidFile,
           \E S : list' \in Seq(S),
           \A i \in DOMAIN list' : list'[i].file \in File,
           NoTorrentTwice',
           count' \in 0 .. (U16 - 1)
    PROVE  StartOK'
<1>1. /\ data' = <<>> /\ position' = 0 /\ stack' = <<>> /\ decoded' = "no"
      /\ parse' = "no" /\ torrent' = NoTorrent /\ current' = {}
  BY DEF Forget
<1>2. <<>> \in Seq({}) /\ <<>> \in Seq(STRING) /\ Len(<<>>) = 0
  OBVIOUS
<1>3. DecoderInv' /\ Faithful'
  BY <1>1, <1>2 DEF DecoderInv, DecoderInBounds, Faithful
<1>4. UrlsInv' /\ ParserInv'
  BY <1>1, NoUrls DEF ParserInv
<1> QED BY <1>1, <1>3, <1>4 DEF StartOK, DecodedSet, ParseSet

LEMMA ListTorrentInv == ASSUME StartOK, ListTorrent PROVE StartOK'
<1>1. /\ Forget /\ boot' = boot /\ files' = files /\ left' = left /\ pidFile' = pidFile
  BY DEF ListTorrent, FileDone, world
<1>2. CASE list' = list /\ count' = count
  <2>1. NoTorrentTwice'
    BY <1>2 DEF StartOK, NoTorrentTwice
  <2> QED BY <1>1, <1>2, <2>1, FileDoneInv DEF StartOK
<1>3. CASE /\ ~Added
           /\ \E f \in current : list' = Append(list, [hash |-> torrent.hash, file |-> f])
           /\ count' = (count + 1) % U16
  <2>1. PICK f \in current : list' = Append(list, [hash |-> torrent.hash, file |-> f])
    BY <1>3
  <2>2. PICK S : list \in Seq(S)
    BY DEF StartOK
  <2> DEFINE n == Len(list)
             new == [hash |-> torrent.hash, file |-> f]
  <2>3. new.hash = torrent.hash /\ new.file = f /\ f \in File
    BY DEF StartOK
  <2>4. list \in Seq(S \cup {new}) /\ n \in Nat /\ DOMAIN list = 1 .. n
    BY <2>2
  <2>5. list' = Append(list, new)
    BY <2>1
  <2> HIDE DEF new
  <2>6. /\ list' \in Seq(S \cup {new})
        /\ DOMAIN list' = 1 .. (n + 1)
        /\ \A i \in 1 .. n : list'[i] = list[i]
        /\ list'[n + 1] = new
    BY <2>4, <2>5
  <2>7. \A i \in 1 .. n : list[i].hash # new.hash
    BY <1>3, <2>3, <2>4 DEF Added
  <2>8. \A i, j \in 1 .. n : list[i].hash = list[j].hash => i = j
    BY <2>4 DEF StartOK, NoTorrentTwice
  <2>9. \A i \in 1 .. n : list[i].file \in File
    BY <2>4 DEF StartOK
  <2> HIDE DEF n
  <2>10. \A i \in 1 .. (n + 1) : i \in 1 .. n \/ i = n + 1
    BY <2>4
  <2>11. NoTorrentTwice'
    BY <2>6, <2>7, <2>8, <2>10 DEF NoTorrentTwice
  <2>12. \A i \in DOMAIN list' : list'[i].file \in File
    BY <2>3, <2>6, <2>9, <2>10
  <2>13. count' \in 0 .. (U16 - 1)
    <3>1. count \in 0 .. (U16 - 1)
      BY DEF StartOK
    <3> QED BY <1>3, <3>1, ConfigAssumption
  <2> QED BY <1>1, <2>6, <2>11, <2>12, <2>13, FileDoneInv
<1> QED BY <1>2, <1>3 DEF ListTorrent

LEMMA RejectFileInv == ASSUME StartOK, RejectFile PROVE StartOK'
<1>1. /\ Forget /\ boot' = boot /\ files' = files /\ left' = left /\ pidFile' = pidFile
      /\ list' = list /\ count' = count
  BY DEF RejectFile, FileDone, world
<1>2. NoTorrentTwice'
  BY <1>1 DEF StartOK, NoTorrentTwice
<1> QED BY <1>1, <1>2, FileDoneInv DEF StartOK

LEMMA StartNext == WorldOK /\ ConfigOK /\ StartOK /\ [Next \/ Over]_vars => StartOK'
<1> SUFFICES ASSUME WorldOK, ConfigOK, StartOK, [Next \/ Over]_vars PROVE StartOK'
  OBVIOUS
<1>1. CASE ChooseConfig \/ ReadConfig
  BY <1>1, StartSame DEF ChooseConfig, ReadConfig, StartOK, world, listVars
<1>2. CASE OpenFolder
  <2>1. /\ UNCHANGED <<parseVars, files, current, list, count>> /\ pidFile' = pidFile
        /\ boot' \in {"load", "panicked"} /\ left' \in {left, Folder}
    BY <1>2 DEF OpenFolder, End, world, listVars
  <2>2. left' \subseteq DOMAIN files
    BY <2>1 DEF StartOK, Folder
  <2> QED BY <2>1, <2>2, StartSame DEF StartOK
<1>3. CASE NextFile
  BY <1>3, NextFileInv
<1>4. CASE ParseFile
  BY <1>4, ParseFileInv
<1>5. CASE ListTorrent
  BY <1>5, ListTorrentInv
<1>6. CASE RejectFile
  BY <1>6, RejectFileInv
<1>7. CASE LoadEnds
  BY <1>7, StartSame DEF LoadEnds, End, StartOK, world, listVars
<1>8. CASE WritePidFile
  <2>1. config["use_pid_file"] \in BOOLEAN
    BY DEF ConfigOK, ConfigType
  <2>2. pidFile' \in BOOLEAN
    BY <1>8, <2>1 DEF WritePidFile
  <2> QED BY <1>8, <2>2, StartSame DEF WritePidFile, StartOK, world
<1>9. CASE Over \/ UNCHANGED vars
  BY <1>9, StartSame DEF Over, vars, StartOK, world, listVars
<1> QED BY <1>1, <1>2, <1>3, <1>4, <1>5, <1>6, <1>7, <1>8, <1>9 DEF Next

-----------------------------------------------------------------------------
(* The list: the torrents of the files that have been dealt with. *)

\* The bytes begin with a torrent of hash h.
HashOf(bytes, h) == h \in HashesIn(bytes)
Listed(h) == \E i \in DOMAIN list : list[i].hash = h
Hashes == {list[i].hash : i \in DOMAIN list}
DealtWith == Folder \ (left \cup current)

ListInv ==
    /\ parse = "no" => current = {}
    /\ parse # "no" => /\ boot \in {"load", "panicked"}
                       /\ \E f \in Folder : /\ current = {f} /\ f \notin left
                                            /\ files[f].torrent /\ data = files[f].data
    /\ boot \in {"args", "config"} => list = <<>>
    /\ boot \in {"load", "pid", "announce", "no torrent"} =>
          \A h : Listed(h) <=> \E f \in DealtWith : files[f].torrent /\ HashOf(files[f].data, h)
    /\ boot \in {"load", "pid", "announce", "no torrent"} => left \subseteq Folder
    /\ boot \in {"pid", "announce", "no torrent"} => left = {} /\ current = {}
    /\ IsFiniteSet(Hashes) /\ Cardinality(Hashes) = Len(list) /\ count = Len(list) % U16
    /\ boot = "no torrent" => count = 0
    /\ boot \in {"pid", "announce"} => count # 0

LEMMA HashOfValue ==
    ASSUME NEW bytes, NEW h
    PROVE  HashOf(bytes, h) <=>
             \E n \in DOMAIN bytes : \E v \in Values(Cut(bytes, 1, n), FALSE) :
                WellFormed(v) /\ h = InfoHash(Field(v, "info"))
BY DEF HashOf, HashesIn

\* What the parser took out of the bytes, or that there is nothing in them.
LEMMA HashOfData ==
    ASSUME StartOK, parse \in {"ok", "error"}, NEW h
    PROVE  HashOf(data, h) <=> parse = "ok" /\ h = torrent.hash
<1>0. data \in Seq(STRING) /\ DOMAIN data = 1 .. Len(data) /\ Len(data) \in Nat
  <2>1. data \in Seq(STRING)
    BY DEF StartOK, DecoderInv
  <2> QED BY <2>1
<1>1. \A n : Cut(data, 1, n) = Slice(0, n)
  BY DEF Cut, Slice
<1>2. decoded = "ok" \/ (decoded = "error" /\ parse = "error")
  BY DEF StartOK, ParserInv
<1>3. CASE decoded = "error" /\ parse = "error"
  <2>1. \A n \in 0 .. Len(data) : Values(Slice(0, n), FALSE) = {}
    BY <1>3, FaithfulEnds DEF StartOK
  <2>2. \A n \in DOMAIN data : n \in 0 .. Len(data)
    BY <1>0
  <2> QED BY <1>1, <1>3, <2>1, <2>2, HashOfValue
<1>4. CASE decoded = "ok"
  <2>1. /\ Values(Slice(0, position), FALSE) = {value}
        /\ \A n \in 0 .. Len(data) : n # position => Values(Slice(0, n), FALSE) = {}
    BY <1>4, FaithfulEnds DEF StartOK
  <2>2. position \in DOMAIN data
    <3>1. position \in 0 .. Len(data)
      BY DEF StartOK, DecoderInv, DecoderInBounds
    <3>2. ReadsValue(0, position, value)
      BY <2>1, <3>1 DEF ReadsValue
    <3>3. 0 \in 0 .. Len(data)
      BY <1>0
    <3>4. position \in (0 + 2) .. Len(data)
      BY <1>0, <3>2, <3>3, NothingAt
    <3> QED BY <1>0, <3>4
  <2>3. \A n \in DOMAIN data : n \in 0 .. Len(data)
    BY <1>0
  <2>4. HashOf(data, h) <=> WellFormed(value) /\ h = InfoHash(Field(value, "info"))
    BY <1>1, <2>1, <2>2, <2>3, HashOfValue
  <2>5. /\ parse = "ok" => WellFormed(value) /\ torrent.hash = InfoHash(Info)
        /\ parse = "error" => ~WellFormed(value)
    BY <1>4 DEF StartOK, ParserInv
  <2> QED BY <2>4, <2>5 DEF Info
<1> QED BY <1>2, <1>3, <1>4

LEMMA ListInit == Init => ListInv
<1> SUFFICES ASSUME Init PROVE ListInv
  OBVIOUS
<1>1. list = <<>> /\ parse = "no" /\ boot = "args" /\ current = {} /\ count = 0
  BY DEF Init
<1>2. Len(<<>>) = 0 /\ DOMAIN <<>> = {} /\ 0 % U16 = 0
  BY ConfigAssumption
<1>3. Hashes = {}
  BY <1>1, <1>2 DEF Hashes
<1> QED BY <1>1, <1>2, <1>3, FS_EmptySet DEF ListInv

\* Steps that touch neither the list nor the files.
LEMMA ListSame ==
    ASSUME ListInv, UNCHANGED <<files, current, list, count>>,
           parse' = parse, data' = data, config' = config, left' = left, boot' = boot
    PROVE  ListInv'
<1>1. Folder' = Folder /\ DealtWith' = DealtWith
  BY DEF Folder, DealtWith
<1>2. Hashes' = Hashes /\ \A h : Listed(h)' <=> Listed(h)
  BY DEF Hashes, Listed
<1> QED BY <1>1, <1>2 DEF ListInv

\* A file is done with.
LEMMA ListFileDone ==
    ASSUME ListInv, parse # "no", Forget,
           UNCHANGED <<files, left, boot>>, config' = config, boot = "load",
           \A h : Listed(h)' <=> Listed(h) \/ HashOf(data, h),
           IsFiniteSet(Hashes'), Cardinality(Hashes') = Len(list'), count' = Len(list') % U16
    PROVE  ListInv'
<1>1. PICK f \in Folder : current = {f} /\ f \notin left /\ files[f].torrent /\ data = files[f].data
  BY DEF ListInv
<1>2. Folder' = Folder /\ files' = files /\ left' = left /\ boot' = "load"
  BY DEF Folder
<1>3. parse' = "no" /\ current' = {}
  BY DEF Forget
<1>4. DealtWith' = DealtWith \cup {f}
  BY <1>1, <1>2, <1>3 DEF DealtWith
<1>5. \A h : Listed(h) <=> \E g \in DealtWith : files[g].torrent /\ HashOf(files[g].data, h)
  BY DEF ListInv
<1>6. \A h : Listed(h)' <=> \E g \in DealtWith' : files[g].torrent /\ HashOf(files[g].data, h)
  BY <1>1, <1>4, <1>5
<1>7. left \subseteq Folder
  BY DEF ListInv
<1> QED BY <1>2, <1>3, <1>6, <1>7 DEF ListInv

LEMMA ListTorrentList == ASSUME StartOK, ListInv, ListTorrent PROVE ListInv'
<1>1. /\ Forget /\ UNCHANGED <<files, left, boot>> /\ config' = config /\ boot = "load"
      /\ parse = "ok"
  BY DEF ListTorrent, FileDone, world, configVars
<1>2. \A h : HashOf(data, h) <=> h = torrent.hash
  BY <1>1, HashOfData
<1>3. torrent.urls # <<>>
  BY <1>1 DEF StartOK, UrlsInv, UrlsClean
<1>4. Added <=> Listed(torrent.hash)
  BY DEF Added, Listed
<1>5. CASE Added
  <2>1. list' = list /\ count' = count
    BY <1>5 DEF ListTorrent
  <2>2. Hashes' = Hashes /\ \A h : Listed(h)' <=> Listed(h)
    BY <2>1 DEF Hashes, Listed
  <2>3. IsFiniteSet(Hashes) /\ Cardinality(Hashes) = Len(list) /\ count = Len(list) % U16
    BY DEF ListInv
  <2>4. \A h : Listed(h)' <=> Listed(h) \/ HashOf(data, h)
    BY <1>2, <1>4, <1>5, <2>2
  <2> QED BY <1>1, <2>1, <2>2, <2>3, <2>4, ListFileDone
<1>6. CASE ~Added
  <2>1. PICK f \in current : list' = Append(list, [hash |-> torrent.hash, file |-> f])
    BY <1>3, <1>6 DEF ListTorrent
  <2>2. count' = (count + 1) % U16
    BY <1>3, <1>6 DEF ListTorrent
  <2>3. PICK S : list \in Seq(S)
    BY DEF StartOK
  <2> DEFINE n == Len(list)
             new == [hash |-> torrent.hash, file |-> f]
             x == torrent.hash
  <2>4. list \in Seq(S \cup {new}) /\ n \in Nat /\ DOMAIN list = 1 .. n
    BY <2>3
  <2>5. list' = Append(list, new) /\ new.hash = x
    BY <2>1
  <2> HIDE DEF new
  <2>6. /\ DOMAIN list' = 1 .. (n + 1) /\ Len(list') = n + 1
        /\ \A i \in 1 .. n : list'[i] = list[i]
        /\ list'[n + 1] = new
    BY <2>4, <2>5
  <2>7. IsFiniteSet(Hashes) /\ Cardinality(Hashes) = n /\ count = n % U16
    BY DEF ListInv
  <2> HIDE DEF n, x
  <2>8. \A i \in 1 .. (n + 1) : i \in 1 .. n \/ i = n + 1
    BY <2>4
  <2>9. n + 1 \in 1 .. (n + 1) /\ \A i \in 1 .. n : i \in 1 .. (n + 1)
    BY <2>4
  <2>10. \A h : Listed(h)' <=> Listed(h) \/ h = x
    BY <2>4, <2>5, <2>6, <2>8, <2>9 DEF Listed
  <2>11. Hashes' = Hashes \cup {x} /\ x \notin Hashes
    <3>1. \A h : h \in Hashes <=> Listed(h)
      BY DEF Hashes, Listed
    <3>2. \A h : h \in Hashes' <=> Listed(h)'
      BY DEF Hashes, Listed
    <3>3. ~Listed(x)
      BY <1>4, <1>6 DEF x
    <3> QED BY <2>10, <3>1, <3>2, <3>3
  <2>12. IsFiniteSet(Hashes') /\ Cardinality(Hashes') = n + 1
    BY <2>7, <2>11, FS_AddElement
  <2>13. count' = (n + 1) % U16
    BY <2>2, <2>4, <2>7, WrappedSum, ConfigAssumption
  <2>14. \A h : Listed(h)' <=> Listed(h) \/ HashOf(data, h)
    BY <1>2, <2>10 DEF x
  <2> QED BY <1>1, <2>6, <2>12, <2>13, <2>14, ListFileDone
<1> QED BY <1>5, <1>6

LEMMA RejectFileList == ASSUME StartOK, ListInv, RejectFile PROVE ListInv'
<1>1. /\ Forget /\ UNCHANGED <<files, left, boot>> /\ config' = config /\ boot = "load"
      /\ parse = "error" /\ list' = list /\ count' = count
  BY DEF RejectFile, FileDone, world, configVars
<1>2. \A h : ~HashOf(data, h)
  BY <1>1, HashOfData
<1>3. Hashes' = Hashes /\ \A h : Listed(h)' <=> Listed(h)
  BY <1>1 DEF Hashes, Listed
<1>4. IsFiniteSet(Hashes) /\ Cardinality(Hashes) = Len(list) /\ count = Len(list) % U16
  BY DEF ListInv
<1> QED BY <1>1, <1>2, <1>3, <1>4, ListFileDone

LEMMA NextFileList == ASSUME StartOK, ListInv, NextFile PROVE ListInv'
<1>0. /\ boot = "load" /\ parse = "no" /\ current = {} /\ left \subseteq Folder
      /\ \A h : Listed(h) <=> \E g \in DealtWith : files[g].torrent /\ HashOf(files[g].data, h)
  BY DEF NextFile, ListInv
<1>1. files' = files /\ config' = config /\ list' = list /\ count' = count /\ Folder' = Folder
  BY DEF NextFile, End, world, configVars, listVars, Folder
<1>2. Hashes' = Hashes /\ \A h : Listed(h)' <=> Listed(h)
  BY <1>1 DEF Hashes, Listed
<1>3. IsFiniteSet(Hashes) /\ Cardinality(Hashes) = Len(list) /\ count = Len(list) % U16
  BY DEF ListInv
<1>4. PICK f \in left :
         \/ boot' = "panicked" /\ parse' = parse /\ current' = current
         \/ /\ ~files[f].torrent /\ left' = left \ {f}
            /\ boot' = boot /\ parse' = parse /\ current' = current
         \/ /\ files[f].torrent /\ left' = left \ {f} /\ current' = {f}
            /\ data' = files[f].data /\ parse' = "decode" /\ boot' = boot
  BY DEF NextFile, End, parseVars, world
<1>5. CASE boot' = "panicked" /\ parse' = parse /\ current' = current
  BY <1>0, <1>1, <1>2, <1>3, <1>5 DEF ListInv
<1>6. CASE /\ ~files[f].torrent /\ left' = left \ {f}
           /\ boot' = boot /\ parse' = parse /\ current' = current
  <2>1. DealtWith' = DealtWith \cup {f}
    BY <1>0, <1>1, <1>6 DEF DealtWith
  <2>2. \A h : Listed(h)' <=> \E g \in DealtWith' : files[g].torrent /\ HashOf(files[g].data, h)
    BY <1>0, <1>2, <1>6, <2>1
  <2> QED BY <1>0, <1>1, <1>2, <1>3, <1>6, <2>2 DEF ListInv
<1>7. CASE /\ files[f].torrent /\ left' = left \ {f} /\ current' = {f}
           /\ data' = files[f].data /\ parse' = "decode" /\ boot' = boot
  <2>1. DealtWith' = DealtWith
    BY <1>0, <1>1, <1>7 DEF DealtWith
  <2>2. f \in Folder /\ f \notin left'
    BY <1>0, <1>7
  <2>3. \A h : Listed(h)' <=> \E g \in DealtWith' : files[g].torrent /\ HashOf(files[g].data, h)
    BY <1>0, <1>2, <2>1
  <2>4. left' \subseteq Folder
    BY <1>0, <1>7
  <2> QED BY <1>0, <1>1, <1>2, <1>3, <1>7, <2>2, <2>3, <2>4 DEF ListInv
<1> QED BY <1>4, <1>5, <1>6, <1>7

LEMMA ParseFileList == ASSUME StartOK, ListInv, ParseFile PROVE ListInv'
<1>1. /\ boot = "load" /\ boot' \in {"load", "panicked"}
      /\ UNCHANGED <<files, left, current, list, count>> /\ config' = config /\ ParseStep
  BY DEF ParseFile, world, configVars, listVars
<1>2. parse # "no" /\ parse' # "no" /\ data' = data
  <2>1. DecodeStep => data' = data
    BY DEF DecodeStep, DecodeInteger, DecodeByteString, OpenLoop, OverflowStack,
           CloseLoop, DecodeNothing, Stop
  <2> QED BY <1>1, <2>1 DEF ParseStep, Decode, TopLevel, TakeUrl, NextTier, UrlsEnd, TakeInfo,
             TakeFile, FinishParse, ParseFails, decoderVars
<1>3. Folder' = Folder /\ DealtWith' = DealtWith
  BY <1>1 DEF Folder, DealtWith
<1>4. Hashes' = Hashes /\ \A h : Listed(h)' <=> Listed(h)
  BY <1>1 DEF Hashes, Listed
<1> QED BY <1>1, <1>2, <1>3, <1>4 DEF ListInv

LEMMA ListNext == StartOK /\ ListInv /\ [Next \/ Over]_vars => ListInv'
<1> SUFFICES ASSUME StartOK, ListInv, [Next \/ Over]_vars PROVE ListInv'
  OBVIOUS
<1> DEFINE Still == UNCHANGED <<files, current, list, count>> /\ parse' = parse /\ data' = data
<1>0. Still => Hashes' = Hashes /\ \A h : Listed(h)' <=> Listed(h)
  BY DEF Hashes, Listed
<1>1. CASE ChooseConfig \/ ReadConfig
  <2>1. Still /\ boot \in {"args", "config"} /\ boot' \in {"args", "config"}
    BY <1>1 DEF ChooseConfig, ReadConfig, parseVars, decoderVars, world, listVars
  <2> QED BY <1>0, <2>1 DEF ListInv
<1>2. CASE OpenFolder
  <2>1. Still /\ boot = "config" /\ config' = config
    BY <1>2 DEF OpenFolder, End, configVars, parseVars, decoderVars, world, listVars
  <2>2. parse = "no" /\ current = {} /\ list = <<>>
    BY <2>1 DEF ListInv
  <2>3. CASE boot' = "panicked"
    BY <1>0, <2>1, <2>2, <2>3 DEF ListInv
  <2>4. CASE boot' = "load" /\ left' = Folder
    <3>1. Folder' = Folder /\ DealtWith' = {}
      BY <2>1, <2>2, <2>4 DEF Folder, DealtWith
    <3>2. \A h : ~Listed(h)
      BY <2>2 DEF Listed
    <3> QED BY <1>0, <2>1, <2>2, <2>4, <3>1, <3>2 DEF ListInv
  <2> QED BY <1>2, <2>3, <2>4 DEF OpenFolder, End
<1>3. CASE NextFile
  BY <1>3, NextFileList
<1>4. CASE ParseFile
  BY <1>4, ParseFileList
<1>5. CASE ListTorrent
  BY <1>5, ListTorrentList
<1>6. CASE RejectFile
  BY <1>6, RejectFileList
<1>7. CASE LoadEnds \/ WritePidFile
  <2>1. Still /\ config' = config /\ left' = left /\ parse = "no" /\ left = {}
    BY <1>7 DEF LoadEnds, WritePidFile, End, configVars, parseVars, decoderVars, world, listVars,
              ListInv, StartOK
  <2>2. Folder' = Folder /\ DealtWith' = DealtWith
    BY <2>1 DEF Folder, DealtWith
  <2>3. /\ boot \in {"load", "pid"}
        /\ \/ boot' = "no torrent" /\ count = 0
           \/ boot' \in {"pid", "announce"} /\ count # 0
    BY <1>7 DEF LoadEnds, WritePidFile, End, ListInv
  <2>4. \A h : Listed(h) <=> \E g \in DealtWith : files[g].torrent /\ HashOf(files[g].data, h)
    BY <2>3 DEF ListInv
  <2> QED BY <1>0, <2>1, <2>2, <2>3, <2>4 DEF ListInv
<1>8. CASE Over \/ UNCHANGED vars
  BY <1>8, ListSame DEF Over, vars, configVars, parseVars, decoderVars, world, listVars
<1> QED BY <1>1, <1>2, <1>3, <1>4, <1>5, <1>6, <1>7, <1>8 DEF Next

StartInv == WorldOK /\ ConfigOK /\ StartOK /\ ListInv

\* The parts hold together in every state of a start, whatever main() finds.
THEOREM StartInvariant == Spec => []StartInv
<1>1. Init => StartInv
  BY WorldInit, ConfigInit, StartInit, ListInit DEF StartInv
<1>2. StartInv /\ [Next \/ Over]_vars => StartInv'
  BY WorldNext, ConfigNext, StartNext, ListNext DEF StartInv
<1> QED BY <1>1, <1>2, PTL DEF Spec

\* Every variable keeps to its values, the rates to the width of a u32.
THEOREM TypeCorrect == Spec => []TypeOK
<1>1. StartInv => TypeOK
  <2> SUFFICES ASSUME StartInv PROVE TypeOK
    OBVIOUS
  <2>1. DOMAIN config = Key
    BY DEF StartInv, ConfigOK, ConfigType
  <2>2. left \subseteq File
    BY DEF StartInv, StartOK, WorldOK
  <2> QED BY <2>1, <2>2 DEF StartInv, ConfigOK, ConfigInv, ConfigType, StartOK, DecodedSet,
             ParseSet, TypeOK
<1> QED BY <1>1, StartInvariant, PTL

\* No file makes the decoder read past its bytes or recurse deeper than it has
\* bytes.
THEOREM DecodingInBounds == Spec => []DecoderInBounds
<1>1. StartInv => DecoderInBounds
  BY DEF StartInv, StartOK, DecoderInv
<1> QED BY <1>1, StartInvariant, PTL

\* The decoder decodes the language of Grammar: of any bytes it takes the one
\* prefix that stands for a value, and that value, or there is none.
THEOREM DecodesBencode == Spec => []DecodesTheGrammar
<1>1. StartInv => DecodesTheGrammar
  BY FaithfulEnds DEF StartInv, StartOK, DecodesTheGrammar
<1> QED BY <1>1, StartInvariant, PTL

\* No file keeps the decoder busy without an end.
THEOREM DecodingAdvances == Spec => DecoderAdvances
<1>1. StartInv /\ [Next \/ Over]_vars => [DecoderProgresses]_vars
  BY DecodeStepInv DEF StartInv, StartOK, DecoderProgresses
<1> QED BY <1>1, StartInvariant, PTL DEF Spec, DecoderAdvances

\* A torrent is taken from exactly the values that describe one, whatever its
\* tiers hold and however many files it has.
THEOREM ParsedRight == Spec => []ParsedAsDescribed
<1>1. StartInv => ParsedAsDescribed
  <2> SUFFICES ASSUME StartInv PROVE ParsedAsDescribed
    OBVIOUS
  <2>1. ParserInv /\ UrlsClean
    BY DEF StartInv, StartOK, UrlsInv
  <2>2. ASSUME parse = "ok"
        PROVE  {torrent.urls[i] : i \in DOMAIN torrent.urls} =
                  {text \in Named(value) : IsSupportedUrl(text)}
    <3>1. Sorted(value, torrent.urls)
      BY <2>1, <2>2 DEF ParserInv
    <3>2. \A i \in DOMAIN torrent.urls : IsSupportedUrl(torrent.urls[i])
      BY <2>1 DEF UrlsClean
    <3> QED BY <3>1, <3>2 DEF Sorted, Wanted, HasUrl
  <2> QED BY <2>1, <2>2 DEF ParserInv, ParsedAsDescribed
<1> QED BY <1>1, StartInvariant, PTL

\* No directory makes a torrent listed twice.
THEOREM ListedOnce == Spec => []NoTorrentTwice
<1>1. StartInv => NoTorrentTwice
  BY DEF StartInv, StartOK
<1> QED BY <1>1, StartInvariant, PTL

\* The list holds the torrents that the files of the directory describe, and the
\* start gives up just when a u16 counts none.
THEOREM DirectoryListed == Spec => []ListsTheDirectory
<1>1. StartInv => ListsTheDirectory
  <2> SUFFICES ASSUME StartInv, boot \in {"pid", "announce", "no torrent"}
               PROVE  /\ Hashes = Described
                      /\ boot = "no torrent" <=> Cardinality(Hashes) % U16 = 0
    BY DEF ListsTheDirectory, Hashes
  <2>1. ListInv
    BY DEF StartInv
  <2>2. DealtWith = Folder
    BY <2>1 DEF ListInv, DealtWith
  <2>3. \A h : Listed(h) <=> \E f \in Folder : files[f].torrent /\ HashOf(files[f].data, h)
    BY <2>1, <2>2 DEF ListInv
  <2>4. \A h : h \in Hashes <=> Listed(h)
    BY DEF Hashes, Listed
  <2>5. Hashes = Described
    BY <2>3, <2>4 DEF Described, HashOf
  <2>6. boot = "no torrent" <=> count = 0
    BY <2>1 DEF ListInv
  <2>7. count = Cardinality(Hashes) % U16
    BY <2>1 DEF ListInv
  <2> QED BY <2>5, <2>6, <2>7
<1> QED BY <1>1, StartInvariant, PTL

\* For a file in the form that encoders write, the bytes that are hashed are the
\* bytes of the info dictionary in the file, whatever the digest is.
THEOREM HashedAsWritten == Spec => []HashIsOfTheFile
<1>1. StartInv => HashIsOfTheFile
  <2> SUFFICES ASSUME StartInv, parse = "ok", Values(Slice(0, position), TRUE) # {}
               PROVE  \E i \in 4 .. Len(data), j \in 1 .. Len(data) :
                         /\ Cut(data, i - 3, i - 1) = <<"1", ":", "info">>
                         /\ Info \in Values(Cut(data, i, j), TRUE)
                         /\ torrent.hash = Sha1(Cut(data, i, j))
    BY DEF HashIsOfTheFile
  <2> DEFINE name == <<"info">>
             p == position
             v == value
             info == v.dict[name]
             t == EncodeText(name)
  <2>1. /\ decoded = "ok" /\ "dict" \in DOMAIN v /\ HasInfo /\ torrent.hash = InfoHash(Info)
        /\ DecoderInv /\ Faithful
    BY DEF StartInv, StartOK, ParserInv
  <2>2. data \in Seq(STRING) /\ p \in 0 .. Len(data)
    BY <2>1 DEF DecoderInv, DecoderInBounds
  <2>3. Slice(0, p) = Cut(data, 1, p)
    BY DEF Slice, Cut
  <2>4. Cut(data, 1, p) \in Seq(STRING)
    BY <2>2, Halves
  <2>5. Values(Cut(data, 1, p), FALSE) = {v}
    BY <2>1, <2>3, FaithfulEnds
  <2>6. v \in Values(Cut(data, 1, p), TRUE)
    BY <2>3, <2>4, <2>5, StrictIsLoose
  <2>7. Info = info /\ name \in DOMAIN v.dict
    BY <2>1 DEF HasInfo, Has, Info, Field
  <2> HIDE DEF p, v, name
  <2>8. HoldsEntry(data, name, info)
    BY <2>1, <2>2, <2>6, <2>7, EntryInFile
  <2> HIDE DEF info, t
  <2>9. t \in Seq(STRING) /\ \E x, c, w \in Seq(STRING) : info \in Values(c, TRUE) /\ data = x \o (t \o (c \o w))
    BY <2>8 DEF HoldsEntry, t
  <2>10. PICK x, c, w \in Seq(STRING) : info \in Values(c, TRUE) /\ data = x \o (t \o (c \o w))
    BY <2>9
  <2>11. Encode(info) = c /\ Len(c) \in Nat /\ Len(c) >= 2
    BY <2>10, EncodedAsRead, StrictCases
  <2>12. t = <<"1", ":", "info">> /\ Len(t) = 3
    BY InfoKey DEF t, name
  <2> DEFINE y == c \o w
             z == x \o t
             i == Len(x) + 4
             j == Len(x) + 3 + Len(c)
  <2>13. y \in Seq(STRING) /\ z \in Seq(STRING) /\ Len(z) = Len(x) + 3
    BY <2>9, <2>12, ConcatProperties
  <2>14. data = x \o (t \o y) /\ data = z \o (c \o w)
    <3>1. data = x \o (t \o y)
      BY <2>10
    <3> HIDE DEF y
    <3>2. z \o y = x \o (t \o y)
      <4>1. \A b1, b2 \in Seq(STRING) : (x \o b1) \o b2 = x \o (b1 \o b2)
        BY Associative
      <4> QED BY <2>9, <2>13, <4>1 DEF z
    <3> QED BY <3>1, <3>2 DEF y
  <2> HIDE DEF y, z
  <2>15. Cut(data, Len(x) + 1, Len(x) + Len(t)) = t
    <3>1. Cut(x \o (t \o y), Len(x) + 1, Len(x) + Len(t)) = t
      BY <2>9, <2>13, MiddleIs
    <3>2. data = x \o (t \o y)
      BY <2>14
    <3> QED BY <3>1, <3>2
  <2>16. /\ Cut(data, Len(z) + 1, Len(z) + Len(c)) = c
         /\ Len(data) = Len(z) + Len(c) + Len(w)
    <3>1. /\ Cut(z \o (c \o w), Len(z) + 1, Len(z) + Len(c)) = c
          /\ Len(z \o (c \o w)) = Len(z) + Len(c) + Len(w)
      BY <2>13, MiddleIs
    <3>2. data = z \o (c \o w)
      BY <2>14
    <3> QED BY <3>1, <3>2
  <2>17. Len(x) \in Nat /\ Len(w) \in Nat
    OBVIOUS
  <2>18. /\ i \in 4 .. Len(data) /\ j \in 1 .. Len(data)
         /\ i - 3 = Len(x) + 1 /\ i - 1 = Len(x) + Len(t)
         /\ i = Len(z) + 1 /\ j = Len(z) + Len(c)
    BY <2>11, <2>12, <2>13, <2>16, <2>17
  <2> HIDE DEF i, j
  <2>19. Cut(data, i - 3, i - 1) = <<"1", ":", "info">> /\ Cut(data, i, j) = c
    BY <2>12, <2>15, <2>16, <2>18
  <2>20. torrent.hash = Sha1(c)
    BY <2>1, <2>7, <2>11 DEF InfoHash
  <2> QED BY <2>7, <2>10, <2>18, <2>19, <2>20
<1> QED BY <1>1, StartInvariant, PTL

\* No file gives a torrent a tracker twice, one that the program cannot talk
\* to, or none.
THEOREM UrlsStayClean == Spec => []UrlsClean
<1>1. StartInv => UrlsClean
  BY DEF StartInv, StartOK, UrlsInv
<1> QED BY <1>1, StartInvariant, PTL
=============================================================================
