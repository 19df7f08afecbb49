------------------------------ MODULE LogSetup ------------------------------
(***************************************************************************)
(* hygiea-core, log.rs: setting up logging once in a process, from its     *)
(* configuration.  A directory is a sequence of names, what is already     *)
(* there (`there') is a set of them, and a file layer writes the files of  *)
(* its prefix, a date and its suffix in its directory; names are           *)
(* sequences of characters.  `refused' are the layers whose file the file  *)
(* system does not let be opened, and `taken' says that somebody else has  *)
(* installed a logger in the process.                                      *)
(***************************************************************************)
EXTENDS Integers, Sequences, FiniteSets, SequencesExt

CONSTANTS BadFilter, BadDir, Dates

\* The dates in names of files: as long as the least time between two files makes them.
ASSUME DatesAssumption == Dates # {} /\ Dates \subseteq Seq(STRING) /\ \A d \in Dates : d # <<>> /\ \A i \in DOMAIN d : d[i] # "."

----------------------------------------------------------------------------
(* Directories and files.                                                   *)

Ancestors(dir) == {SubSeq(dir, 1, n) : n \in 1 .. Len(dir)}

\* The layers that are not switched off, and where their files lie.
Enabled(cfg) == {i \in DOMAIN cfg.layers : ~cfg.layers[i].disable}
Root(cfg) == IF cfg.root = <<>> THEN <<"logs">> ELSE cfg.root
LayerDir(cfg, i) == Root(cfg) \o cfg.layers[i].dir

\* The names of a layer's files: its parts that are not empty, and a date unless they are never
\* rolled, or would have no name.
Dotted(a, b) == IF a = <<>> THEN b ELSE IF b = <<>> THEN a ELSE a \o <<".">> \o b
FileNames(layer) == {Dotted(Dotted(layer.prefix, date), layer.suffix) : date \in Dates} \union ({Dotted(layer.prefix, layer.suffix)} \ {<<>>})

\* Whether the clean-up of a layer takes a file for one of its own.
CleansUp(layer, file) ==
    IF layer.prefix = <<>> /\ layer.suffix = <<>> THEN file \in Dates
    ELSE IsPrefix(layer.prefix, file) /\ IsSuffix(layer.suffix, file)

NameMatches(a, b) ==
    IF a.prefix = <<>> /\ a.suffix = <<>> THEN b.prefix = <<>> /\ b.suffix = <<>>
    ELSE IsPrefix(a.prefix, b.prefix) /\ IsSuffix(a.suffix, b.suffix)

Overlap(cfg) ==
    \E i, j \in Enabled(cfg) :
        /\ i < j /\ LayerDir(cfg, i) = LayerDir(cfg, j)
        /\ \/ NameMatches(cfg.layers[i], cfg.layers[j])
           \/ NameMatches(cfg.layers[j], cfg.layers[i])

\* Directories are made in the layers' order; the first that is missing on the way to one is
\* noted once it is made.  Making one with a bad name makes those above it and then fails.
Make(state, dir) ==
    LET missing == Ancestors(dir) \ state.there
        bad == {d \in missing : d[Len(d)] = BadDir}
        made == {d \in missing : \A b \in bad : Len(d) < Len(b)}
    IN  IF state.failed THEN state
        ELSE [there |-> state.there \union made, failed |-> bad # {},
              created |-> IF bad # {} \/ missing = {} THEN state.created
                          ELSE state.created \union {CHOOSE d \in missing : \A e \in missing : Len(d) <= Len(e)}]
MakeAll(there, cfg) ==
    LET after[n \in 0 .. Len(cfg.layers)] ==
            IF n = 0 THEN [there |-> there, created |-> {}, failed |-> FALSE]
            ELSE IF n \in Enabled(cfg) THEN Make(after[n - 1], LayerDir(cfg, n)) ELSE after[n - 1]
    IN  after[Len(cfg.layers)]

\* What is made is removed again, with everything under it.
RemoveDirs(there, created) == {d \in there : \A c \in created : ~IsPrefix(c, d)}

----------------------------------------------------------------------------
(* Setting up.                                                              *)

RootFilter(cfg) == IF cfg.filter = "" THEN "info" ELSE cfg.filter

\* The console's is read although it is switched off.
Filters(cfg) == {RootFilter(cfg), cfg.console.filter} \union {cfg.layers[i].filter : i \in Enabled(cfg)}

\* What is put out: by its own filter, or by the one for all.
FilterOf(cfg, filter) == IF filter = "" THEN RootFilter(cfg) ELSE filter
Outputs(cfg) == (IF cfg.console.disable THEN {} ELSE {<<<<"console">>, FilterOf(cfg, cfg.console.filter)>>})
                \union {<<LayerDir(cfg, i), FilterOf(cfg, cfg.layers[i].filter)>> : i \in Enabled(cfg)}

\* The appenders are built in order, which opens their files and removes old ones.
FilesOpened(cfg, refused) == {i \in Enabled(cfg) : \A j \in Enabled(cfg) \intersect refused : i < j}

\* The error or "ok", what is there then, the directories that were made and the layers whose
\* files were opened.
BuildAndInstall(cfg, there, refused, taken) ==
    LET made == MakeAll(there, cfg)
        Result(r, state, files) == [result |-> r, there |-> state.there, created |-> state.created, opened |-> files]
        files == FilesOpened(cfg, refused)
    IN  IF BadFilter \in Filters(cfg) THEN Result("InvalidFilter", [there |-> there, created |-> {}], {})
        ELSE IF made.failed THEN Result("AppenderFailed", made, {})
        ELSE IF Overlap(cfg) THEN Result("FileNameOverlap", made, {})
        ELSE IF files # Enabled(cfg) THEN Result("AppenderFailed", made, files)
        ELSE IF Outputs(cfg) = {} THEN Result("NoOutput", made, files)
        ELSE Result(IF taken THEN "InstallFailed" ELSE "ok", made, files)

\* The flag is taken first, and given back when nothing was installed.
InitTracing(cfg, there, refused, installed, taken) ==
    LET b == BuildAndInstall(cfg, there, refused, taken) IN
    IF installed THEN [result |-> "InstallFailed", there |-> there, opened |-> {}, installed |-> TRUE]
    ELSE [result |-> b.result, installed |-> b.result = "ok", opened |-> b.opened,
          there |-> IF b.result = "ok" THEN b.there ELSE RemoveDirs(b.there, b.created)]

----------------------------------------------------------------------------
(* What it promises.                                                        *)

\* A prefix goes past another one if that, and a full stop, is its beginning, or is empty.
Past(mine, its) == IF its = <<>> THEN mine # <<>> ELSE IsPrefix(its \o <<".">>, mine)
PastBack(mine, its) == IF its = <<>> THEN mine # <<>> ELSE IsSuffix(<<".">> \o its, mine)

\* A setup that fails can be done again.  It leaves the directories as they were, but those above
\* one that could not be made; it has touched no file in them, unless a file could not be opened
\* or a logger of somebody else is in the way: never because of what is written, and never when
\* logging works already.  One that succeeds has a directory and a file for all layers that are
\* enabled, and takes the filter of each and of the console.  Layers that open files remove none
\* of each other's, if no prefix and no suffix of one goes past the other's, and no name without a
\* date is one; and two layers are not refused unless one would remove the other's.
LogsKept(cfg, there, refused, installed, taken) ==
    LET r == InitTracing(cfg, there, refused, installed, taken)
        layers == cfg.layers
        Together(i, j) == i # j /\ LayerDir(cfg, i) = LayerDir(cfg, j)
        Mistaken(mine, its) == \/ Past(mine.prefix, its.prefix) \/ PastBack(mine.suffix, its.suffix)
                               \/ mine.prefix = <<>> /\ mine.suffix = <<>> /\ its.prefix \o its.suffix \in Dates
    IN  /\ r.result # "ok" => r.installed = installed
        /\ r.result # "ok" /\ ~MakeAll(there, cfg).failed => r.there = there
        /\ there \subseteq r.there
        /\ r.opened # {} => ~installed /\ r.result \in {"ok", "AppenderFailed", "InstallFailed"}
        /\ r.opened # {} /\ r.result = "AppenderFailed" => refused # {}
        /\ r.opened # {} /\ r.result = "InstallFailed" => taken
        /\ r.result = "ok" =>
               /\ \A i \in Enabled(cfg) : LayerDir(cfg, i) \in r.there /\ i \in r.opened \ refused
               /\ \A i \in Enabled(cfg) : layers[i].filter # "" => <<LayerDir(cfg, i), layers[i].filter>> \in Outputs(cfg)
               /\ ~cfg.console.disable /\ cfg.console.filter # "" => <<<<"console">>, cfg.console.filter>> \in Outputs(cfg)
               /\ BadFilter \notin {layers[i].filter : i \in Enabled(cfg)} \union {cfg.console.filter} /\ Outputs(cfg) # {}
        /\ r.opened # {} => \A i, j \in Enabled(cfg) : Together(i, j) =>
               \A file \in FileNames(layers[j]) : CleansUp(layers[i], file) => Mistaken(layers[i], layers[j])
        /\ r.result = "FileNameOverlap" =>
               \E i, j \in Enabled(cfg) : Together(i, j) /\ \E file \in FileNames(layers[j]) : CleansUp(layers[i], file)
=============================================================================
