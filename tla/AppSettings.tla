---------------------------- MODULE AppSettings ----------------------------
(***************************************************************************)
(* hygiea-core, app/config.rs and env.rs: where an application's settings  *)
(* come from.  The type an application loads is taken to refuse unknown    *)
(* keys, as the framework's own part of it does; args.appName is the name  *)
(* that it gives as registry.app_name.                                     *)
(*                                                                         *)
(* A setting that may be left out is a set: its value, or nothing.  Names  *)
(* and keys are sequences of characters, and a source (a file, the         *)
(* environment, a --set) is a function from the keys it writes to their    *)
(* values.  `vars' are the environment's variables, `disk' the files.      *)
(***************************************************************************)
EXTENDS Integers, Sequences, FiniteSets

CONSTANTS KnownKeys

Given(written, default) == IF written = {} THEN default ELSE CHOOSE v \in written : TRUE
StartsWith(text, head) == Len(head) <= Len(text) /\ SubSeq(text, 1, Len(head)) = head

----------------------------------------------------------------------------
(* Characters: two letters, a digit, the bar (an underscore) and others     *)
(* without case.                                                            *)

UpperOf == [a |-> "A", b |-> "B"]
LowerOf == [A |-> "a", B |-> "b"]
Cased(text, other) == [i \in DOMAIN text |-> IF text[i] \in DOMAIN other THEN other[text[i]] ELSE text[i]]
Upper(text) == Cased(text, UpperOf)
Lower(text) == Cased(text, LowerOf)
IsName(text) == /\ text # <<>> /\ text[1] \in DOMAIN UpperOf
                /\ \A i \in DOMAIN text : text[i] \in DOMAIN UpperOf \union {"1", "bar"}

\* The keys are names of fields: in lower case, and without an equals sign.
ASSUME KeysAssumption == \A k \in KnownKeys :
    k \in Seq({k[i] : i \in DOMAIN k}) /\ k # <<>> /\ Lower(k) = k /\ \A i \in DOMAIN k : k[i] # "="

----------------------------------------------------------------------------
(* Environment variables.                                                   *)

EnvGetOpt(vars, name) == {vars[n] : n \in {name} \cap DOMAIN vars}
EnvGetOr(vars, name, fallback) == Given(EnvGetOpt(vars, name), fallback)

\* A name may have a default of its own.
EnvGet(vars, name, defaults) == IF name \in DOMAIN vars THEN {vars[name]} ELSE EnvGetOpt(defaults, name)

\* Some of the built-in names have defaults; a password has none.
BuiltinDefaults == [LOCAL_PG_HOST |-> "localhost", LOCAL_PG_PORT |-> "5432", LOCAL_PG_PARAMS |-> ""]

----------------------------------------------------------------------------
(* Loading.                                                                 *)

Sep == <<"bar", "bar">>
Dir(args) == Given(args.configDir, Given(args.defaultDir, "config"))
Prefix(args) == Given(args.envPrefix, <<"A">>)

\* --env, the environment's variable when it is not empty, or dev.
ResolveEnv(args, vars) == Given(args.env, Given(EnvGetOpt(vars, Prefix(args) \o <<"bar", "ENV">>) \ {""}, "dev"))

Files(args, vars) == [i \in 1 .. 1 + Len(args.configs) |->
                         <<Dir(args), IF i = 1 THEN ResolveEnv(args, vars) ELSE args.configs[i - 1]>>]

\* --set: the key is in front of the first "=", and must not be empty.
ParseOverride(raw) ==
    LET at == {i \in DOMAIN raw : raw[i] = "="} IN
    {o \in {<<SubSeq(raw, 1, i - 1), SubSeq(raw, i + 1, Len(raw))>> : i \in {j \in at : \A k \in at : j <= k}} : o[1] # <<>>}

\* The variables that begin with the prefix and two underscores, in any case; the key is what
\* follows, in lower case.
Reads(prefix, var) == StartsWith(Lower(var), Lower(prefix \o Sep))
KeyOf(prefix, var) == Lower(SubSeq(var, Len(prefix) + 3, Len(var)))
Environment(prefix, vars) ==
    LET read == {v \in DOMAIN vars : Reads(prefix, v)} IN
    [k \in {KeyOf(prefix, v) : v \in read} |-> vars[CHOOSE v \in read : KeyOf(prefix, v) = k]]

Written(args) == [i \in DOMAIN args.overrides |->
                     [k \in {o[1] : o \in ParseOverride(args.overrides[i])} |-> (CHOOSE o \in ParseOverride(args.overrides[i]) : TRUE)[2]]]
Contents(args, vars, disk) == [i \in DOMAIN Files(args, vars) |-> disk[Files(args, vars)[i]]]

\* The files, the environment, what is set on the command line: later ones win.
Sources(args, vars, disk) == Contents(args, vars, disk) \o <<Environment(Prefix(args), vars)>> \o Written(args)

Merged(sources) ==
    LET keys == UNION {DOMAIN sources[i] : i \in DOMAIN sources}
        Last(k) == CHOOSE i \in DOMAIN sources : /\ k \in DOMAIN sources[i]
                                                 /\ \A j \in DOMAIN sources : k \in DOMAIN sources[j] => j <= i
    IN  [k \in keys |-> sources[Last(k)][k]]

\* An application has a name in lower case, and the same in upper case is its prefix.
CheckAppName(name, prefix) == IsName(name) /\ prefix = Upper(name)

\* What is loaded, or nothing: the program ends when a file is missing, when a --set is not
\* one, when somebody wrote a key nobody knows, or when the name and the prefix do not agree.
LoadConfig(args, vars, disk) ==
    IF /\ \A i \in DOMAIN args.overrides : ParseOverride(args.overrides[i]) # {}
       /\ \A i \in DOMAIN Files(args, vars) : Files(args, vars)[i] \in DOMAIN disk
    THEN {c \in {Merged(Sources(args, vars, disk))} : DOMAIN c \subseteq KnownKeys /\ CheckAppName(args.appName, Prefix(args))}
    ELSE {}

\* What of it the framework takes, with its own defaults.
DefaultRegistry == [key \in {<<"a">>, <<"b">>} |-> "default"]
RegistryConfig(loaded) == [k \in DOMAIN DefaultRegistry |-> IF k \in DOMAIN loaded THEN loaded[k] ELSE DefaultRegistry[k]]

----------------------------------------------------------------------------
(* What it promises.                                                        *)

\* An application's name without two underscores in a row, or one at its end.
Plain(name) == IsName(name) /\ \A i \in DOMAIN name : name[i] = "bar" => i < Len(name) /\ name[i + 1] # "bar"

\* What somebody set takes effect: the last --set of a key, then the environment, then the files
\* from the last to the first, then the default; nothing that is written is passed over.
SettingsWin(args, vars, disk) == \A config \in LoadConfig(args, vars, disk) :
    LET registry == RegistryConfig(config)
        Set(k) == {i \in DOMAIN args.overrides : StartsWith(args.overrides[i], k \o <<"=">>)}
        In(k) == {v \in DOMAIN vars : Lower(v) = Lower(Prefix(args) \o Sep \o k)}
        On(k) == {i \in DOMAIN Files(args, vars) : k \in DOMAIN disk[Files(args, vars)[i]]}
    IN  \A k \in KnownKeys :
            /\ \A i \in Set(k) : (\A j \in Set(k) : j <= i) => config[k] = SubSeq(args.overrides[i], Len(k) + 2, Len(args.overrides[i]))
            /\ Set(k) = {} /\ In(k) # {} => \E v \in In(k) : config[k] = vars[v]
            /\ Set(k) = {} /\ In(k) = {} => \A i \in On(k) : (\A j \in On(k) : j <= i) => config[k] = disk[Files(args, vars)[i]][k]
            /\ k \in DOMAIN registry => \/ k \in DOMAIN config /\ registry[k] = config[k]
                                        \/ Set(k) = {} /\ In(k) = {} /\ On(k) = {} /\ registry[k] = DefaultRegistry[k]

\* Two applications with plain names never read the same variable.
EnvironmentsApart(name1, name2, var) ==
    Plain(name1) /\ Plain(name2) /\ name1 # name2 => ~(Reads(Upper(name1), var) /\ Reads(Upper(name2), var))

\* A variable that is set wins over every default, and a fallback over a name's own.
VariablesWin(vars, name, fallback) ==
    /\ name \in DOMAIN vars => EnvGet(vars, name, BuiltinDefaults) = {EnvGetOr(vars, name, fallback)}
    /\ name \notin DOMAIN vars => EnvGetOr(vars, name, fallback) = fallback
                                  /\ (EnvGet(vars, name, BuiltinDefaults) # {} <=> name \in DOMAIN BuiltinDefaults)
=============================================================================
