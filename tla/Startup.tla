------------------------------ MODULE Startup ------------------------------
(***************************************************************************)
(* main() up to its first announce (main.rs, directory.rs): the command     *)
(* line, the configuration (Config), the torrent directory and each file in *)
(* it (Metainfo over Bencode), the PID file.  One task runs, and what it    *)
(* reads was there before; what can go wrong is what it reads.              *)
(*                                                                         *)
(* The list that it leaves is where RatioUp starts.                         *)
(***************************************************************************)
EXTENDS Config, Metainfo, FiniteSets

CONSTANTS
    File,      \* entries of the directories
    Inputs     \* what is read: [args, contents, files, creatable], see Init

VARIABLES
    args,      \* the command line: "-c" or paths
    contents,  \* per path: what is there to be read as a configuration
    files,     \* per file that there is: [in, torrent, readable, data]
    creatable, \* a torrent directory that is missing can be created
    boot,      \* "args", "config", "load", "pid" or how it ended
    left,      \* files of the directory that are still to be looked at
    current,   \* the files that are being parsed: one or none
    list,      \* the torrents, in order: [hash, file]
    count,     \* what load_torrents returns, a u16
    pidFile    \* the PID file was written

world == <<args, contents, files, creatable>>
listVars == <<list, count, pidFile>>
vars == <<configVars, parseVars, world, boot, left, current, listVars>>

Init ==
    /\ \E input \in Inputs :
          /\ args = input.args /\ contents = input.contents
          /\ files = input.files /\ creatable = input.creatable
    /\ content = [kind |-> "missing"] /\ config = Default /\ key = 0 /\ load = "before"
    /\ data = <<>> /\ position = 0 /\ stack = <<>> /\ decoded = "no" /\ value = None
    /\ parse = "no" /\ todo = <<>> /\ torrent = NoTorrent
    /\ boot = "args" /\ left = {} /\ current = {}
    /\ list = <<>> /\ count = 0 /\ pidFile = FALSE

-----------------------------------------------------------------------------
Flags(a) == {i \in DOMAIN a : a[i] \in {"-c", "--config"}}

\* parse_cli_args(): the argument after the first flag, whatever it is; others
\* are skipped.
CliPath(a) ==
    {a[i + 1] : i \in {i \in Flags(a) : i < Len(a) /\ \A j \in Flags(a) : i <= j}}

\* What can be read: a file of bytes, no more than a Vec holds, and at each path
\* a table or something else.
ASSUME InputsAssumption ==
    \A input \in Inputs :
        /\ {"xdg"} \cup CliPath(input.args) \subseteq DOMAIN input.contents
        /\ \A p \in DOMAIN input.contents :
              input.contents[p].kind = "table" =>
                  \A k \in DOMAIN input.contents[p].table :
                      input.contents[p].table[k] \in TomlValue
        /\ DOMAIN input.files \subseteq File
        /\ \A f \in DOMAIN input.files :
              input.files[f].data \in Seq(STRING) /\ Len(input.files[f].data) < USize

\* From the command line, or else from the XDG directory, where a file need not
\* be; when that directory cannot be made there is no file to load.
ChooseConfig ==
    /\ boot = "args"
    /\ \/ \E path \in CliPath(args) : content' = contents[path] /\ UNCHANGED load
       \/ /\ CliPath(args) = {}
          /\ \/ content' = contents["xdg"] /\ UNCHANGED load
             \/ load' = "done" /\ UNCHANGED content
    /\ boot' = "config"
    /\ UNCHANGED <<config, key, parseVars, world, left, current, listVars>>

ReadConfig ==
    /\ boot = "config"
    /\ LoadConfig
    /\ UNCHANGED <<parseVars, world, boot, left, current, listVars>>

End(how) ==
    /\ boot' = how
    /\ UNCHANGED <<configVars, parseVars, world, left, current, listVars>>

Folder == {f \in DOMAIN files : files[f].in = config["torrent_dir"]}

\* prepare_torrent_folder() and read_dir(), which expects a directory.
OpenFolder ==
    /\ boot = "config" /\ load = "done"
    /\ \/ Folder = {} /\ ~creatable /\ End("panicked")
       \/ /\ Folder # {} \/ creatable
          /\ boot' = "load" /\ left' = Folder
          /\ UNCHANGED <<configVars, parseVars, world, current, listVars>>

-----------------------------------------------------------------------------
\* The next entry, in any order: one that is no torrent is passed, one that
\* cannot be read panics, and else the parsing begins.
NextFile ==
    /\ boot = "load" /\ parse = "no"
    /\ \E f \in left :
       \/ files[f].torrent /\ ~files[f].readable /\ End("panicked")
       \/ /\ ~files[f].torrent
          /\ left' = left \ {f}
          /\ UNCHANGED <<configVars, parseVars, world, boot, current, listVars>>
       \/ /\ files[f].torrent /\ files[f].readable
          /\ left' = left \ {f} /\ current' = {f}
          /\ data' = files[f].data /\ decoded' = "running" /\ parse' = "decode"
          /\ UNCHANGED <<position, stack, value, todo, torrent,
                         configVars, world, boot, listVars>>

\* A panic of the decoder, or the abort on a stack that is full, is the end.
ParseFile ==
    /\ boot = "load"
    /\ ParseStep
    /\ boot' = IF decoded' \in {"panic", "overflow"} THEN "panicked" ELSE boot
    /\ UNCHANGED <<configVars, world, left, current, listVars>>

\* The decoder, its value and the torrent go out of scope.
Forget ==
    /\ data' = <<>> /\ position' = 0 /\ stack' = <<>> /\ decoded' = "no" /\ value' = None
    /\ parse' = "no" /\ todo' = <<>> /\ torrent' = NoTorrent /\ current' = {}

FileDone ==
    /\ Forget
    /\ UNCHANGED <<configVars, world, boot, left, pidFile>>

\* Mutant: a torrent is known by its file.
AddedFile == \E i \in DOMAIN list : list[i].file \in current

Added == \E i \in DOMAIN list : list[i].hash = torrent.hash

\* A torrent is listed unless one with its hash is, or it has no URL.
ListTorrent ==
    /\ boot = "load" /\ parse = "ok"
    /\ IF torrent.urls = <<>> \/ Added THEN UNCHANGED <<list, count>>
       ELSE /\ \E f \in current : list' = Append(list, [hash |-> torrent.hash, file |-> f])
            /\ count' = (count + 1) % U16
    /\ FileDone

\* Mutant: an error ends the walk through the directory.
RejectFileAndAll ==
    /\ boot = "load" /\ parse = "error"
    /\ Forget
    /\ left' = {}
    /\ UNCHANGED <<configVars, world, boot, listVars>>

\* Mutant: a file that failed is tried again.
RejectFileAgain ==
    /\ boot = "load" /\ parse = "error"
    /\ Forget
    /\ left' = left \cup current
    /\ UNCHANGED <<configVars, world, boot, listVars>>

\* "Cannot add torrent"
RejectFile ==
    /\ boot = "load" /\ parse = "error"
    /\ UNCHANGED <<list, count>>
    /\ FileDone

LoadEnds ==
    /\ boot = "load" /\ parse = "no" /\ left = {}
    /\ End(IF count = 0 THEN "no torrent" ELSE "pid")

\* The PID file, if it is wanted and can be written; then announce_started().
WritePidFile ==
    /\ boot = "pid"
    /\ pidFile' \in {FALSE, config["use_pid_file"]}
    /\ boot' = "announce"
    /\ UNCHANGED <<configVars, parseVars, world, left, current, list, count>>

Next ==
    \/ ChooseConfig \/ ReadConfig \/ OpenFolder
    \/ NextFile \/ ParseFile \/ ListTorrent \/ RejectFile \/ LoadEnds
    \/ WritePidFile

Over == boot \in {"no torrent", "panicked", "announce"} /\ UNCHANGED vars

Spec == Init /\ [][Next \/ Over]_vars

\* The one task there is goes on while it can.
FairSpec == Spec /\ WF_vars(Next)

-----------------------------------------------------------------------------
TypeOK ==
    /\ DOMAIN config = Key /\ config["use_pid_file"] \in BOOLEAN
    /\ config["port"] \in 0 .. (U16 - 1) /\ config["numwant"] \in 0 .. (U16 - 1)
    /\ config["min_upload_rate"] \in 0 .. (U32 - 1)
    /\ config["max_upload_rate"] \in 0 .. (U32 - 1)
    /\ load \in {"before", "keys", "done"}
    /\ decoded \in {"no", "running", "ok", "error", "panic", "overflow"}
    /\ parse \in {"no", "decode", "urls", "info", "files", "ok", "error"}
    /\ boot \in {"args", "config", "load", "pid", "announce", "no torrent", "panicked"}
    /\ left \subseteq File /\ current \subseteq File
    /\ parse # "no" => \E f \in File : current = {f}
    /\ \A i \in DOMAIN list : list[i].file \in File
    /\ count \in 0 .. (U16 - 1) /\ pidFile \in BOOLEAN

\* No hash is listed twice, whatever files there are: RatioUp starts with
\* distinct torrents.
NoTorrentTwice ==
    \A i, j \in DOMAIN list : list[i].hash = list[j].hash => i = j

\* Every step of the decoder consumes a byte or is its last: no file keeps the
\* start busy.
DecoderAdvances == [][DecoderProgresses]_vars
=============================================================================
