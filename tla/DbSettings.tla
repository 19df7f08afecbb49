----------------------------- MODULE DbSettings -----------------------------
(***************************************************************************)
(* hygiea-db: what a written configuration of a database component opens.  *)
(* `uses' says which of the pool, the live configuration and the locks it  *)
(* has, the overrides say where the last two connect, and a configuration  *)
(* with a section that would have no effect is refused.                    *)
(*                                                                         *)
(* A setting that may be left out is a set: its value, or nothing.  What   *)
(* may be refused is a set too.  The settings of a [connect] section are   *)
(* functions of Items; `params' is a sequence of pairs of a key and a      *)
(* value, and an application's name is a sequence of the parts between the *)
(* characters that mean something in a URL.  `rows' says that the program  *)
(* is built with lock-row: keys are then locked with a table.              *)
(***************************************************************************)
EXTENDS Integers, Sequences, FiniteSets

CONSTANTS Items, Wrong

Engines == {"postgres", "mysql", "sqlite"}
Bits == [pool |-> 1, live |-> 2, lock |-> 4]
Or(written, default) == IF written = {} THEN default ELSE CHOOSE v \in written : TRUE

----------------------------------------------------------------------------
(* uses, and the sections that are written.                                 *)

ParseUses(n) == {n} \cap 1 .. 7
Has(c, part) == (c.uses \div Bits[part]) % 2 = 1

\* What overrides the connection of a section.
IsEmpty(override) == override.params = {} /\ \A i \in Items : override.connect[i] = {}
Overrides(section) == \E s \in section : ~IsEmpty(s)
HasLock(engine) == engine # "sqlite"

Sections(c) == [pool |-> c.pool # {} \/ c.log # {}, live |-> c.live # {}, lock |-> c.lock # {}]

\* A bug: what overrides the pool's connection is not looked at when there is no pool.
CheckSections(c) ==
    /\ \A part \in DOMAIN Bits : Sections(c)[part] => Has(c, part)
    /\ Has(c, "lock") => HasLock(c.engine)

Check(c) ==
    /\ \A part \in DOMAIN Bits : Sections(c)[part] => Has(c, part)
    /\ ~Has(c, "pool") => ~Overrides(c.live) /\ ~Overrides(c.lock)
    /\ Has(c, "lock") => HasLock(c.engine)

Provides(c) == {part \in DOMAIN Bits : Has(c, part)}

----------------------------------------------------------------------------
(* Names of the framework's tables: sequences of words, digits and bars,    *)
(* which are underscores.                                                   *)

Words == {"app", "config", "revision", "history", "lock"}
Tables == {<<"config">>, <<"config", "bar", "revision">>, <<"config", "bar", "history">>, <<"lock">>}
IsIdent(name) == name # <<>> /\ name[1] \in Words /\ \A i \in DOMAIN name : name[i] \in Words \union {"1", "bar"}

StripSuffix(name) == IF name # <<>> /\ name[Len(name)] = "bar" THEN SubSeq(name, 1, Len(name) - 1) ELSE name

\* The application's name, or what is written instead of it, which may be nothing.
TablePrefix(custom, appName) ==
    IF custom = {<<>>} THEN {<<>>}
    ELSE {Append(n, "bar") : n \in {x \in {StripSuffix(c) : c \in custom} \union {a \in {appName} : custom = {}} : IsIdent(x)}}

----------------------------------------------------------------------------
(* Connections.                                                             *)

Merge(override, main) == [connect |-> [i \in Items |-> Or(override.connect[i], main.connect[i])],
                          params |-> Or(override.params, main.params)]

PercentEncode(name) == <<<<"application_name", name>>>>

\* PostgreSQL has the application's name in its URL, and only there.
Url(engine, params, appName) ==
    IF engine # "postgres" THEN {params}
    ELSE IF \E i \in DOMAIN params : params[i][1] = "application_name" THEN {}
    ELSE {IF appName = <<>> THEN params ELSE params \o PercentEncode(appName)}

\* The driver takes the last of the pairs with one key, and cannot parse some values.
DriverReads(pairs) == [k \in {pairs[i][1] : i \in DOMAIN pairs} |->
                          pairs[CHOOSE i \in DOMAIN pairs : pairs[i][1] = k /\ \A j \in DOMAIN pairs : pairs[j][1] = k => j <= i][2]]

Options(engine, target, appName) ==
    {[connect |-> target.connect, params |-> DriverReads(p)] :
        p \in {q \in Url(engine, target.params, appName) : \A i \in Items : target.connect[i] # Wrong}}

Named(options, suffix) ==
    [options EXCEPT !.params = [k \in DOMAIN @ |-> IF k = "application_name" THEN Append(@[k], suffix) ELSE @[k]]]

----------------------------------------------------------------------------
(* Pools.                                                                   *)

PoolSize(engine) == IF engine = "sqlite" THEN [max |-> 4, min |-> 1] ELSE [max |-> 10, min |-> 0]
NoPool == [max |-> {}, min |-> {}, acquire |-> {}, idle |-> {}, life |-> {}, test |-> TRUE, lazy |-> FALSE]
PoolOf(c) == Or(c.pool, NoPool)

PoolOptions(c) ==
    LET p == PoolOf(c) IN
    [max |-> Or(p.max, PoolSize(c.engine).max), min |-> Or(p.min, PoolSize(c.engine).min), acquire |-> Or(p.acquire, 30),
     idle |-> Or(p.idle, 600), life |-> Or(p.life, 1800), test |-> p.test, lazy |-> p.lazy]

DefaultLog == [level |-> "info", slow |-> "off"]
LogOf(c) == IF c.framework = "seaorm" THEN {Or(c.log, DefaultLog)} ELSE {}

\* One pool: what it is for, how it connects, its sizes and times, its log, and what the one who
\* has it works with.
Pool(for, options, sizes, log, keeps) ==
    {[for |-> for, options |-> o, sizes |-> sizes, log |-> log, keeps |-> k] : o \in options, k \in keeps}
Nothing == [tables |-> {}, poll |-> {}, history |-> {}]

Connect(c) == Pool("pool", Options(c.engine, c, c.appName), PoolOptions(c), LogOf(c), {Nothing})

\* A section that is not written is one without settings.
NoLive == [connect |-> [i \in Items |-> {}], params |-> {}, poll |-> {}, keepRows |-> {}, trimMins |-> {}, prefix |-> {}]
NoLock == [connect |-> [i \in Items |-> {}], params |-> {}, max |-> {}, prefix |-> {}]
LiveOf(c) == Or(c.live, NoLive)
LockOf(c) == Or(c.lock, NoLock)

PollInterval(c) == Or(LiveOf(c).poll, IF c.engine = "postgres" THEN 60 ELSE 1)
LiveAccepted(c) == /\ PollInterval(c) > 0
                   /\ LiveOf(c).keepRows = {} <=> LiveOf(c).trimMins = {}
                   /\ 0 \notin LiveOf(c).keepRows \union LiveOf(c).trimMins

\* The tables, how often they are looked at, and how many rows of the history are kept.
LiveKeeps(c) ==
    {[tables |-> {t}, poll |-> {PollInterval(c)}, history |-> LiveOf(c).keepRows \X LiveOf(c).trimMins] :
        t \in {x \in TablePrefix(LiveOf(c).prefix, c.appName) : LiveAccepted(c)}}
Fixed(c) == [PoolOptions(c) EXCEPT !.max = 1, !.min = 0, !.idle = 0, !.life = 0, !.test = TRUE, !.lazy = TRUE]
LivePool(c) == Pool("live", Options(c.engine, Merge(LiveOf(c), c), c.appName), Fixed(c), {}, LiveKeeps(c))

\* Only PostgreSQL locks with a table, and only when it is built in; nobody asks for its prefix else.
LockTable(c) == c.engine = "postgres" /\ c.rows
LockKeeps(c) == IF LockTable(c) THEN {[Nothing EXCEPT !.tables = {t}] : t \in TablePrefix(LockOf(c).prefix, c.appName)} ELSE {Nothing}
OwnPool(c) ==
    Pool("lock",
         {IF c.engine = "postgres" THEN Named(o, "-lock") ELSE o : o \in Options(c.engine, Merge(LockOf(c), c), c.appName)},
         [PoolOptions(c) EXCEPT !.max = Or(LockOf(c).max, @), !.min = 0, !.idle = 600, !.life = 1800, !.test = TRUE], {}, LockKeeps(c))

\* Locks share the pool there is, unless they have settings of their own.
Shares(c) == Has(c, "pool") /\ IsEmpty(LockOf(c)) /\ LockOf(c).max = {}
LockPool(c) == IF Shares(c) THEN Pool("lock", Options(c.engine, c, c.appName), PoolOptions(c), LogOf(c), LockKeeps(c)) ELSE OwnPool(c)

\* The pools of a component that starts; it starts when nothing it has is refused.
Opened(c) ==
    LET pools == [pool |-> Connect(c), live |-> LivePool(c), lock |-> LockPool(c)] IN
    IF ParseUses(c.uses) # {} /\ Check(c) /\ \A part \in Provides(c) : pools[part] # {} THEN UNION {pools[part] : part \in Provides(c)} ELSE {}

----------------------------------------------------------------------------
(* What it promises.                                                        *)

Uses(pool, connect) == \A i \in Items : pool.options.connect[i] = Or(connect[i], pool.options.connect[i])

\* A pool has these parameters and, but for the application's name, no others.
Takes(pool, params) ==
    /\ \A k \in DOMAIN pool.options.params : k = "application_name" \/ \E i \in DOMAIN params : params[i] = <<k, pool.options.params[k]>>
    /\ \A i \in DOMAIN params : params[i][1] \in DOMAIN pool.options.params

\* A table is named as is written, the bar at the end or not.
NamedAs(tables, prefix) == \A x \in prefix : tables \subseteq {x, Append(x, "bar")}

\* A component starts only when everything that is written takes effect: the items and the
\* parameters of [connect] are those of some pool, and those of an override, which replace them, of
\* the pool it is for; [pool], [log] and [lock] are some pool's; the worker of the live
\* configuration has the tables, the interval and the history that are written.  Every connection
\* carries the application's name and no parameter nobody wrote for it.  The prefix of the locks'
\* table is the one setting that has no effect: in a program that is built without the table.
EverythingUsed(c) ==
    LET pools == Opened(c)
        For(part) == {p \in pools : p.for = part}
        Own(part) == UNION {s.params : s \in CASE part = "live" -> c.live [] part = "lock" -> c.lock [] part = "pool" -> {}}
    IN  pools # {} =>
        /\ {p.for : p \in pools} = Provides(c)
        /\ \A i \in Items : \E p \in pools : p.options.connect[i] = c.connect[i]
        /\ \E p \in pools : Takes(p, c.params)
        /\ \A p \in pools : Takes(p, Or(Own(p.for), c.params))
        /\ \A s \in c.live : \E p \in For("live") :
               /\ Uses(p, s.connect) /\ NamedAs(p.keeps.tables, s.prefix) /\ p.keeps.tables # {}
               /\ \A n \in s.poll : p.keeps.poll = {n} /\ n > 0
               /\ p.keeps.history = s.keepRows \X s.trimMins /\ (p.keeps.history = {} => s.keepRows \union s.trimMins = {})
        /\ \A s \in c.lock : \E p \in For("lock") :
               /\ Uses(p, s.connect) /\ (\A n \in s.max : p.sizes.max = n)
               /\ NamedAs(p.keeps.tables, s.prefix) /\ (p.keeps.tables # {} <=> LockTable(c))
        /\ \A s \in c.pool : \E p \in For("pool") : \A k \in DOMAIN s :
               p.sizes[k] = IF k \in {"test", "lazy"} THEN s[k] ELSE Or(s[k], p.sizes[k])
        /\ c.framework = "seaorm" => \A s \in c.log : \E p \in For("pool") : p.log = {s}
        /\ c.engine = "postgres" /\ c.appName # <<>> =>
               \A p \in pools : SubSeq(p.options.params["application_name"], 1, Len(c.appName)) = c.appName

\* Components with different prefixes have no table in common, and every table is an identifier.
TablesApart(prefix1, prefix2) ==
    LET In(prefix) == {prefix \o t : t \in Tables} IN
    /\ prefix1 # prefix2 => In(prefix1) \cap In(prefix2) = {}
    /\ \A t \in In(prefix1) : IsIdent(t)
=============================================================================
