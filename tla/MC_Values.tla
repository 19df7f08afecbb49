----------------------------- MODULE MC_Values -----------------------------
(***************************************************************************)
(* One call of one of the pure parts of the system, with arguments from    *)
(* small sets, and what it returns.                                        *)
(***************************************************************************)
EXTENDS Integers, Sequences, FiniteSets, DateTimes, DbSettings, AppSettings, LogSetup

CONSTANTS Ints, MaxNameChars, MaxMillis, MaxPage, MaxOffset, Marked, Control, ExtractorLimit, ConnectDefault, NoCase(_)

ASSUME NumbersAssumption ==
    /\ Ints \in Nat \ {0} /\ Ints % 2 = 0
    /\ MaxMillis \in Nat \ {0} /\ MaxPage \in Nat /\ MaxOffset \in Nat /\ ExtractorLimit \in Nat

\* A code is not the mark of a number, however it is written.
ASSUME NoCaseAssumption == NoCase("code") \notin {"i64:", "i32:"}

C == INSTANCE Codes
L == INSTANCE LockKeys
P == INSTANCE Paging
R == INSTANCE Redaction
H == INSTANCE HttpMessages
X == INSTANCE Services

VARIABLES call,     \* what is called, and with what
          result    \* what it returns, or <<>> before

vars == <<call, result>>

Opt(S) == {{}} \union {{v} : v \in S}
Near(n, k) == n - k .. n + k

----------------------------------------------------------------------------
(* Dates: the first and the last days there are, the ends of February, and  *)
(* a zone whose clocks are changed at the start of a month.                 *)

SomeDays == {NewYear(MinYear) + k : k \in 0 .. 12} \union {NewYear(MaxYear + 1) - k : k \in 1 .. 40}
            \union UNION {Near(FirstOf(y, m), 2) : y \in {1900, 2000, 2023, 2024}, m \in {1, 2, 3, 4, 12}}
Change == Midnight(FirstOf(2024, 3))
Zones == {[before |-> b, after |-> a, at |-> t - b] :
              b \in {TicksPerMinute, -TicksPerMinute}, a \in {TicksPerMinute, -TicksPerMinute, 2 * TicksPerMinute},
              t \in {Change - TicksPerMinute, Change, Change + TicksPerSecond, Change + TicksPerMinute}}

\* The first and the last minute there are.
FirstAndLast == {Midnight(NewYear(MinYear)) + k : k \in 0 .. TicksPerMinute}
        \union {Midnight(NewYear(MaxYear + 1)) - k : k \in 1 .. TicksPerMinute + 1}

DateCalls ==
    \/ \E u \in Units, d \in SomeDays : call = [of |-> "edges", unit |-> u, day |-> d]
    \/ \E u \in Units, z \in Zones, t \in Near(Change, 28) \union {LastTick(NewYear(MaxYear + 1) - 1), Midnight(NewYear(MinYear))} :
           call = [of |-> "local", unit |-> u, zone |-> z, at |-> t]
    \/ \E z \in Zones : \E times \in {Near(Change, 9), FirstAndLast} : \E a \in times, b \in times :
           a <= b /\ call = [of |-> "range", zone |-> z, range |-> <<a, b>>]

DateResult == CASE call.of = "edges" -> UtcEdges(call.unit, call.day)
                [] call.of = "local" -> LocalEdges(call.zone, call.unit, call.at)
                [] call.of = "range" -> UNION {ReadLocal(call.zone, text) : text \in WriteLocal(call.zone, TicksPerSecond, call.range)}

----------------------------------------------------------------------------
(* Settings of a database component: at most one section, or both of those  *)
(* that may say where they connect; a host that cannot be used; builds with *)
(* the locks' table and without.                                            *)

NoItems == [i \in Items |-> {}]
Hosts(h) == [i \in Items |-> IF i = "host" THEN h ELSE "main"]
SomeConnect == {NoItems, [NoItems EXCEPT !["host"] = {"other"}], [NoItems EXCEPT !["host"] = {Wrong}]}
SomeParams == {<<>>, <<<<"ssl", "on">>, <<"ssl", "off">>>>, <<<<"application_name", <<"x">>>>>>}
SomePool == [max : Opt({3}), min : {{2}}, acquire : {{}}, idle : {{}}, life : {{5}}, test : {TRUE}, lazy : BOOLEAN]
SomeOverrides == [connect : SomeConnect, params : {{}}] \union [connect : {NoItems}, params : {{<<>>}, {<<<<"ssl", "off">>>>}}]
SomePrefixes == {{<<>>}, {<<"config", "bar">>}, {<<"bar">>}}
SomeLive == {[connect |-> o.connect, params |-> o.params, poll |-> n, keepRows |-> k, trimMins |-> t, prefix |-> {}] :
                 o \in SomeOverrides, n \in Opt({0, 5}), k \in Opt({9}), t \in Opt({3})}
            \union {[NoLive EXCEPT !.prefix = x] : x \in SomePrefixes}
SomeLock == {[connect |-> o.connect, params |-> o.params, max |-> n, prefix |-> {}] : o \in SomeOverrides, n \in Opt({2})}
            \union {[NoLock EXCEPT !.prefix = x] : x \in SomePrefixes}

DbCalls ==
    \E e \in Engines, f \in {"sqlx", "seaorm"}, u \in 0 .. 8, h \in {"main", Wrong}, p \in SomeParams, a \in {<<>>, <<"app">>} :
    \E pool \in Opt(SomePool), log \in Opt({[level |-> "debug", slow |-> "off"]}), live \in Opt(SomeLive), lock \in Opt(SomeLock), rows \in BOOLEAN :
        /\ f = "sqlx" => log = {}
        /\ ~rows => e = "postgres" /\ u \in {4, 7} /\ h = "main" /\ p = <<>>
        /\ e # "postgres" => \A s \in lock : s.prefix = {}
        /\ \/ Cardinality(pool) + Cardinality(log) + Cardinality(live) + Cardinality(lock) <= 1
           \/ u \in {6, 7} /\ pool = {} /\ log = {} /\ h = "main" /\ p = <<>>
        /\ call = [of |-> "db", engine |-> e, framework |-> f, uses |-> u, connect |-> Hosts(h), params |-> p, appName |-> a,
                   pool |-> pool, log |-> log, live |-> live, lock |-> lock, rows |-> rows]

----------------------------------------------------------------------------
(* Settings of an application: two keys in two files, variables in both     *)
(* cases, a --set that is repeated, malformed, or of an unknown key.        *)

SomeSets == {<<"a", "=", "1">>, <<"a", "=", "=", "2">>, <<"b", "=">>, <<"=", "1">>, <<"a">>, <<"z", "=", "1">>}
SomeVars == {<<"A", "bar", "bar", "a">>, <<"a", "bar", "bar", "A">>, <<"A", "bar", "bar", "z">>, <<"A", "bar", "a">>, <<"B", "bar", "bar", "a">>}
Disk == (<<"config", "dev">> :> (<<"a">> :> <<"d">>)) @@ (<<"config", "prod">> :> (<<"a">> :> <<"p">> @@ <<"b">> :> <<"q">>))
EnvVar == <<"A", "bar", "ENV">>
SomeKeys == {<<"a">>, <<"b">>}
AppNames == {<<"a">>, <<"a", "bar", "b">>, <<"a", "bar", "bar", "b">>, <<"a", "1">>, <<"b">>, <<"bar", "a">>, <<"A">>}

AppCalls ==
    \/ \E o \in UNION {[1 .. n -> SomeSets] : n \in 0 .. 2}, v \in SUBSET SomeVars, env \in Opt({"prod", "test"}),
          more \in {<<>>, <<"prod">>, <<"dev">>, <<"test">>}, name \in AppNames, set \in {{}, {""}, {"prod"}} :
           /\ v # {} => o \in {<<>>, <<<<"a", "=", "1">>>>}
           /\ call = [of |-> "app", disk |-> Disk,
                      args |-> [overrides |-> o, env |-> env, configs |-> more, configDir |-> {}, defaultDir |-> {}, envPrefix |-> {}, appName |-> name],
                      vars |-> [n \in v \union {EnvVar} |-> IF n # EnvVar THEN n ELSE IF set = {} THEN "" ELSE CHOOSE s \in set : TRUE]]
    \/ \E n1 \in AppNames, n2 \in AppNames, v \in SomeVars \union {Upper(n) \o Sep \o <<"b">> : n \in AppNames} :
           call = [of |-> "apart", first |-> n1, second |-> n2, var |-> v]
    \/ \E v \in SUBSET (DOMAIN BuiltinDefaults \union {"LOCAL_PG_PASSWORD"}), n \in DOMAIN BuiltinDefaults \union {"LOCAL_PG_PASSWORD"} :
           call = [of |-> "env", vars |-> [x \in v |-> "set"], name |-> n]

----------------------------------------------------------------------------
(* Logging: up to two layers in one directory or in two, with names that   *)
(* begin or end with each other's, have full stops, are dates or empty.     *)

SomeDates == {<<"2", "4">>}
Layers(dirs, prefixes, suffixes, filters, disable) == [dir : dirs, prefix : prefixes, suffix : suffixes, filter : filters, disable : {disable}]
SomeLayers == Layers({<<>>, <<"d">>}, {<<>>, <<"a">>, <<"a", ".", "x">>, <<"2", "4">>}, {<<>>, <<"l">>, <<"x", ".", "l">>}, {"", "warn"}, FALSE)
              \union Layers({<<"d", BadDir>>}, {<<"a">>}, {<<"l">>}, {""}, FALSE) \union Layers({<<>>}, {<<"a">>}, {<<"l">>}, {BadFilter}, FALSE)
              \union Layers({<<"d", BadDir>>}, {<<"a">>}, {<<"l">>}, {BadFilter}, TRUE)
LogCalls ==
    \E layers \in UNION {[1 .. n -> SomeLayers] : n \in 0 .. 2}, console \in [disable : BOOLEAN, filter : {"", "warn", BadFilter}],
       all \in {<<<<"r">>, "info">>, <<<<>>, "">>}, there \in {{}, {<<"r">>}}, installed \in BOOLEAN, taken \in BOOLEAN :
    \E refused \in SUBSET DOMAIN layers :
        /\ installed => taken
        /\ Cardinality({i \in DOMAIN layers : layers[i].filter # ""}) + Cardinality({console.filter} \ {""}) + Cardinality(refused) + Len(all[1]) <= 2
        /\ call = [of |-> "log", there |-> there, refused |-> refused, installed |-> installed, taken |-> taken,
                   cfg |-> [root |-> all[1], layers |-> layers, filter |-> all[2], console |-> console]]

----------------------------------------------------------------------------
(* Numbered enums: programs of two enums with up to two variants each, of   *)
(* any derive, with prefixes and without; calls of the macros.              *)

Zeros(n) == [i \in 1 .. n |-> "0"]
Code(n, last) == Append(Zeros(n - 1), last)
SomeEnums == UNION {
    {[derive |-> d, project |-> p, module |-> m, internal |-> int, variants |-> v] :
        p \in {Zeros(3), C!InternalProject}, m \in Opt({<<"0", "9">>}), int \in Opt({<<"9", "9", "9">>}),
        v \in LET V == {[code |-> {c}, tpl |-> t] : c \in {Code(5, "0"), Code(5, "1"), Code(3, "1"), [Code(3, "9") EXCEPT ![1] = "9", ![2] = "9"]},
                                                t \in {IF d = "hy_lock_type" THEN {} ELSE {[vars |-> {"x"}, valid |-> TRUE]}}}
                                         \union {[code |-> {Code(5, "2")}, tpl |-> t] : t \in {{}, {[vars |-> {}, valid |-> FALSE]}}}
              IN  [1 .. 1 -> V] \union [1 .. 2 -> V]} : d \in DOMAIN C!Total}
SomeArgs == {[how |-> h, keys |-> k, literal |-> l] : h \in {"bare", "value", "keys"}, k \in SUBSET {"x", "y"}, l \in BOOLEAN}

CodeCalls ==
    \/ \E e \in SomeEnums : \E f \in {e} \union {g \in SomeEnums : Len(g.variants) = 1} : call = [of |-> "codes", enums |-> <<e, f>>]
    \/ \E v \in SUBSET {"x", "y"}, a \in SomeArgs, n \in 0 .. 2 : call = [of |-> "message", vars |-> v, args |-> a, causes |-> n]

----------------------------------------------------------------------------
(* Locks, timeouts, pages and tables.                                       *)

LowerCase(c) == IF c = "A" THEN "a" ELSE c
Asks == {[kind |-> "key", text |-> t] : t \in {<<"code", ":">>, <<"code", ":", "1">>, <<"code", ":", "i64:", "1">>, <<"code", ":", "a", "b", "c">>,
                                              <<"code", ":", "a">>, <<"code", ":", "A">>}}
        \union {[kind |-> "i64", number |-> n] : n \in {0, 1, -1}}
        \union {[kind |-> "pair", first |-> a, second |-> b] : a \in {0, 1}, b \in {0, -1}}

KeyCalls ==
    \/ \E a \in L!Signed(Ints) \X L!Signed(Ints), b \in L!Signed(Ints) \X L!Signed(Ints) : call = [of |-> "numbers", first |-> a, second |-> b]
    \/ \E d \in 0 .. 5 \union Near(2000, 2) \union Near(2 * MaxMillis, 2) : call = [of |-> "timeout", duration |-> d]
    \/ \E total \in 0 .. 14, size \in 0 .. 7 : call = [of |-> "pages", total |-> total, size |-> size]
    \/ \E n, k \in {<<"app">>, <<"app", "bar">>, <<"app", "bar", "config">>, <<"bar", "app">>, <<"config">>}, c, d \in Opt({<<>>, <<"app", "bar">>, <<"config">>, <<"bar">>}) :
           call = [of |-> "tables", names |-> <<n, k>>, custom |-> <<c, d>>]

----------------------------------------------------------------------------
(* Redaction: one or two fields with any serde attributes, previews that    *)
(* are nested, one after the other, or end in a panic.                      *)

Serdes == {[a \in S |-> "user"] : S \in {T \in SUBSET {"serialize_with", "with", "skip_serializing_if", "skip", "flatten"} : Cardinality(T) <= 2 /\ ~({"serialize_with", "with"} \subseteq T)}}
SomeFields == {f \in [derives : BOOLEAN, into : BOOLEAN, variant : {{}, {"with"}}, marks : {<<>>, <<"mask">>, <<"skip">>, <<"mask", "skip">>},
                       where : {"field", "variant"}, serde : Serdes, omits : BOOLEAN] :
                  /\ Cardinality({x \in {"derives", "into"} : f[x] # (x = "derives")}) + Cardinality(f.variant) <= 1
                  /\ f.where = "variant" => f.marks = <<"mask">>
                  /\ f.omits => "skip_serializing_if" \in DOMAIN f.serde}
Traces == {<<>>, <<"enter">>, <<"enter", "return">>, <<"enter", "panic">>, <<"enter", "enter", "return">>, <<"enter", "enter", "panic">>,
           <<"enter", "enter", "panic", "return">>, <<"enter", "return", "enter">>}
Outer == {f \in SomeFields : f.derives /\ f.where = "field" /\ ~f.omits /\ Cardinality(DOMAIN f.serde) <= 1}

RedactCalls ==
    \E f \in SomeFields, e \in Traces : \E p \in {<<f>>} \union {<<o, f>> : o \in {x \in Outer : x.marks # <<"mask", "skip">>}} :
        /\ Len(p) = 2 => f.derives /\ ~f.into /\ f.variant = {} /\ Len(e) # 1
        /\ call = [of |-> "redact", path |-> p, events |-> e]

----------------------------------------------------------------------------
(* HTTP: bodies of every kind, headers of several parts, answers of every   *)
(* kind.                                                                    *)

\* What of their texts is never a control character; "newline" and "return" are two.
Types == {"untyped", "text/csv", "application/x-protobuf", "application/json", "application/x-www-form-urlencoded", "multipart/form-data", "image/png"}
Pieces == {"query", "param", "hidden", "plain", "secret", "name", "file", "v1"} \union Types
ASSUME PiecesAssumption == {"newline", "return"} \subseteq Control \ Marked /\ Control \cap Pieces = {}

Value(t) == [text |-> {t}, sensitive |-> FALSE]
Body(kind, type, content, inMemory, parts) == [kind |-> kind, type |-> type, content |-> content, inMemory |-> inMemory, parts |-> parts]
Part(legal) == [name |-> {"name", "return"}, file |-> {"file"}, content |-> {"bytes"}, legal |-> legal]
Bodies == {Body("none", "untyped", {}, TRUE, {})}
          \union {Body(k, "untyped", {"plain", "secret"}, TRUE, {}) : k \in {"json", "form"}}
          \union {Body(k, t, {"raw", "newline"}, m, {}) : k \in {"raw", "stream"}, t \in {"text/csv", "application/x-protobuf"}, m \in BOOLEAN}
          \union {Body("multipart", "untyped", {}, TRUE, {Part(l)}) : l \in BOOLEAN} \union {Body("native", "untyped", {"bytes"}, FALSE, {})}
Auths == Opt({[scheme |-> s, user |-> IF s = "Basic" THEN {"user"} ELSE {}, text |-> t] : s \in {"Basic", "Bearer"}, t \in {{"token"}, {"token", "newline"}}})
HeaderParts == {<<>>, <<[session |-> <<Value("v1"), Value("v2")>>]>>, <<[session |-> <<Value("v1"), Value("v2")>>], [session |-> <<Value("v3")>>]>>,
                <<[host |-> <<Value("v1")>>], [authorization |-> <<Value("v2")>>]>>}
FileHeaders == {<<>>, <<[name |-> "session", values |-> <<Value("v4"), Value("v5")>>]>>,
                <<[name |-> "session", values |-> <<Value("v4")>>], [name |-> "authorization", values |-> <<Value("v6")>>], [name |-> "session", values |-> <<Value("v7")>>]>>,
                <<[name |-> "session", values |-> <<Value("newline")>>]>>}
SomeProxies == {<<>>, <<[url |-> {"proxy"}, auth |-> {"password"}, headers |-> <<>>, except |-> {"local"}, legal |-> TRUE]>>}
Configs == {[agent |-> {"agent"}, headers |-> h, redirects |-> 10, compresses |-> TRUE, noProxy |-> n, proxies |-> p] : h \in FileHeaders, n \in BOOLEAN, p \in SomeProxies}
Decoders == {[kind |-> k, fields |-> {}] : k \in {"bytes", "text", "unit", "stream"}} \union {[kind |-> "json", fields |-> {"answer", "private"}]}
Responses == {r \in [success : BOOLEAN, broken : BOOLEAN, type : Opt({"application/json", "image/png"}), utf8 : BOOLEAN, json : BOOLEAN,
                      headers : {[session |-> <<Value("v8")>>]}, body : {{"answer", "private", "newline"}}] : r.json => r.utf8}
Request(body, auth, headers, logging) == [url |-> {"query"}, params |-> {"param", "hidden"}, headers |-> headers, auth |-> auth, body |-> body, logging |-> logging]

HttpCalls ==
    \/ \E b \in Bodies, a \in Auths, h \in HeaderParts, c \in Configs :
           /\ (c.proxies # <<>> \/ c.noProxy) => b.kind = "none" /\ a = {} /\ h = <<>>
           /\ call = [of |-> "headers", cfg |-> Request(b, a, <<>>, TRUE), parts |-> h, config |-> c]
    \/ \E b \in Bodies, a \in Auths, l \in BOOLEAN, d \in Decoders, r \in Responses :
           call = [of |-> "texts", cfg |-> Request(b, a, [session |-> <<Value("v1")>>], l), decoder |-> d, resp |-> r]
    \/ \E n \in 0 .. 3 : \E chunks \in [1 .. n -> [bytes : 1 .. 2, broken : BOOLEAN]], room \in 0 .. 6 : call = [of |-> "write", chunks |-> chunks, room |-> room]

----------------------------------------------------------------------------
(* Redis, AWS and servers: pools of every mode that differ in one setting   *)
(* or two, calls in any order, requests at the limits.                      *)

RedisBase(mode) ==
    [mode |-> mode, host |-> "h1", nodes |-> <<"n1">>, service |-> "s1", sentinelUser |-> "", sentinelPassword |-> "", username |-> "", password |-> "",
     db |-> 0, connect |-> ConnectDefault, command |-> 0, attempts |-> 3, redirections |-> 5, reconnect |-> 0, size |-> 5]
RedisOther == [host |-> {"h2"}, nodes |-> {<<>>, <<"n1", "n2">>}, service |-> {"s2"}, sentinelUser |-> {"u"}, sentinelPassword |-> {"p"}, username |-> {"u"},
               password |-> {"p"}, db |-> {1}, connect |-> {0, 1}, command |-> {1}, attempts |-> {1}, redirections |-> {1}, reconnect |-> {2}, size |-> {1}]
RedisOf(mode) == UNION {{[RedisBase(mode) EXCEPT ![s] = v] : v \in {RedisBase(mode)[s]} \union RedisOther[s]} : s \in DOMAIN RedisOther}
SomeRedis == UNION {RedisOf(mode) : mode \in {"standalone", "cluster", "sentinel", "other"}}
Chain == [default |-> [region |-> {"r1"}, endpoint |-> {}, credentials |-> {"c1"}], p |-> [region |-> {"r2"}, endpoint |-> {"e2"}, credentials |-> {}]]
SomeS3 == [endpoint : Opt({"e4"}), request : Opt({"required"}), response : Opt({"required"}), pathStyle : BOOLEAN]
ServerBase == [host |-> "h1", port |-> 8080, shutdown_timeout_secs |-> 5, max_body_size |-> {}, request_read_secs |-> {},
               base_path |-> "", connect_secs |-> {}, header_read_secs |-> {}, response_write_secs |-> {}, max_header_size |-> {}]
SomeServers == {ServerBase, [ServerBase EXCEPT !.host = "h2"], [ServerBase EXCEPT !.port = 80], [ServerBase EXCEPT !.shutdown_timeout_secs = 1],
                [ServerBase EXCEPT !.base_path = "/api"]}
               \union {[ServerBase EXCEPT ![s] = {1}] : s \in {"max_body_size", "request_read_secs", "connect_secs", "header_read_secs", "response_write_secs", "max_header_size"}}
ServerCalls == [how : {"prepare", "activate"}, works : BOOLEAN, parses : BOOLEAN]
Outcomes == {[ok |-> TRUE, data |-> {"answer"}, error |-> {}]}
            \union {[ok |-> FALSE, data |-> {}, error |-> e] :
                        e \in [kind : {"hy"}, framework : BOOLEAN, code : {"00000001"}, message : {{"text"}}, causes : Opt({"private"})]
                             \union [kind : {"other"}, framework : {FALSE}, code : {""}, message : {{"secret"}}, causes : {{}}]}

ServiceCalls ==
    \/ \E a, b \in SomeRedis : a.mode = b.mode /\ call = [of |-> "redis", first |-> a, second |-> b]
    \/ \E r \in Opt({"r3"}), e \in Opt({"e3"}), c \in Opt({"c3"}), p \in Opt({"p"}), s \in SomeS3 :
           call = [of |-> "s3", cfg |-> [region |-> r, endpoint |-> e, credentials |-> c, profile |-> p, s3 |-> s]]
    \/ \E a, b \in SomeServers : call = [of |-> "servers", first |-> a, second |-> b]
    \/ \E kind \in {"http", "grpc"}, n \in 0 .. 4 : \E calls \in [1 .. n -> ServerCalls] : call = [of |-> "server", kind |-> kind, calls |-> calls]
    \/ \E m \in Opt({1, 3}), t \in Opt({1}), o \in Outcomes, size \in 1 .. 4, secs \in 1 .. 2, d, r \in BOOLEAN :
           call = [of |-> "request", cfg |-> [ServerBase EXCEPT !.max_body_size = m, !.request_read_secs = t], request |-> [size |-> size, secs |-> secs, declared |-> d, reads |-> r, outcome |-> o]]

----------------------------------------------------------------------------

Init == result = <<>> /\ (DateCalls \/ DbCalls \/ AppCalls \/ LogCalls \/ CodeCalls \/ KeyCalls \/ RedactCalls \/ HttpCalls \/ ServiceCalls)

Return(r) == result' = <<r>> /\ UNCHANGED call

Next == /\ result = <<>>
        /\ \/ call.of \in {"edges", "local", "range"} /\ Return(DateResult)
           \/ call.of = "db" /\ Return(Opened(call))
           \/ call.of = "app" /\ Return(LoadConfig(call.args, call.vars, call.disk))
           \/ call.of = "apart" /\ Return({a \in {call.first, call.second} : Reads(Upper(a), call.var)})
           \/ call.of = "env" /\ Return(EnvGet(call.vars, call.name, BuiltinDefaults))
           \/ call.of = "log" /\ Return(InitTracing(call.cfg, call.there, call.refused, call.installed, call.taken))
           \/ call.of = "codes" /\ Return(C!Program(call.enums))
           \/ call.of = "message" /\ Return(C!Debug(call.vars, C!Args(call.vars, call.args), call.causes))
           \/ call.of = "numbers" /\ Return(L!FromPair(call.first[1], call.first[2]))
           \/ call.of = "timeout" /\ Return(<<L!PgWait(call.duration), L!WaitSecs(call.duration)>>)
           \/ call.of = "pages" /\ Return(P!PageRequest(1, call.size))
           \/ call.of = "tables" /\ Return(TablePrefix(call.custom[1], call.names[1]))
           \/ call.of = "redact" /\ Return(UNION {R!ExpandItem(call.path[i]) : i \in DOMAIN call.path})
           \/ call.of = "headers" /\ Return(H!ClientDefaults(call.config))
           \/ call.of = "texts" /\ Return(H!NormalLog(call.cfg, call.decoder, call.resp))
           \/ call.of = "write" /\ Return(H!WriteTo(call.chunks, call.room))
           \/ call.of = "redis" /\ Return(X!FredPool(call.first))
           \/ call.of = "s3" /\ Return(X!S3Client(call.cfg, Chain))
           \/ call.of = "servers" /\ Return(X!AxumServer(call.first))
           \/ call.of = "server" /\ Return(X!Served(call.kind, call.calls))
           \/ call.of = "request" /\ Return(X!Serve(call.cfg, call.request))

Spec == Init /\ [][Next]_vars

----------------------------------------------------------------------------

\* Dates: the edges of days, weeks, months and years meet, in UTC and in a zone whose clocks are
\* changed, and what is written of instants and ranges is read back (datetime_ext.rs, local.rs,
\* time_ext.rs).
DatesRight == /\ call.of = "edges" => EdgesRight(call.unit, call.day)
              /\ call.of = "local" => LocalRight(call.zone, call.unit, call.at)
              /\ call.of = "range" => RangesRight(call.zone, call.range)

\* Configuration: what is written takes effect, or the program does not start, or it is one of
\* the settings that are known to do nothing where they stand; those make no difference at all.
\* They are what the template of the HTTP server calls reserved, what the mode of a Redis pool
\* does not read, its connect timeout of 0, which is the library's, and the prefix of the locks'
\* table in a build without that table.  This is said of what the modules name of an application,
\* a database component, Redis, the servers and S3, and of the directories, names and filters of
\* the logs; a setup of the logs that fails can be repeated
\* (db config.rs and component.rs, app/config.rs, env.rs, log.rs, fred_pool.rs, s3.rs,
\* axum_server.rs, tonic_server.rs).
SettingsMatter == /\ call.of = "db" => EverythingUsed(call)
                  /\ call.of = "app" => SettingsWin(call.args, call.vars, call.disk)
                  /\ call.of = "apart" => EnvironmentsApart(call.first, call.second, call.var)
                  /\ call.of = "env" => VariablesWin(call.vars, call.name, "fallback")
                  /\ call.of = "log" => LogsKept(call.cfg, call.there, call.refused, call.installed, call.taken)
                  /\ call.of = "redis" => X!PoolsAsWritten(call.first, call.second)
                  /\ call.of = "s3" => X!S3AsWritten(call.cfg, Chain)
                  /\ call.of = "servers" => X!ServersAsWritten(call.first, call.second)
                  /\ call.of = "server" => X!ServesOnce(call.kind, call.calls)
                  /\ call.of = "request" => X!LimitsHold(call.cfg, call.request)

\* Names and numbers: what is different stays different. Codes of enums, locks of keys, numbers
\* and pairs, tables of components and rows of pages are never taken for each other, and a lock
\* is waited for exactly as long as was asked (the macros' prefix.rs, error.rs and lock.rs, the
\* core's lock/key.rs, hygiea-db's sql and page.rs).
ValuesExact == /\ call.of = "codes" => C!CodesApart(call.enums, {<<>>, <<":">>, <<"0">>})
               /\ call.of = "numbers" => L!NumbersApart(call.first, call.second)
               /\ call.of = "timeout" => L!TimeoutsExact(call.duration)
               /\ call.of = "pages" => P!PagesPartition(call.total, call.size)
               /\ call.of = "tables" =>
                      /\ \A a, b \in Asks : L!LocksApart(a, b)
                      /\ \A p \in TablePrefix(call.custom[1], call.names[1]), q \in TablePrefix(call.custom[2], call.names[2]) : TablesApart(p, q)

\* Logs and errors: nothing that is marked, no header, no credentials and no file that is sent is
\* read in them, after previews in previews and after panics too; and nothing is masked or lost
\* that is sent, stored or returned; clients of a server read nothing of its faults (redact.rs,
\* error.rs, axum_server.rs, the HTTP client's messages).
NothingLeaks == /\ call.of = "redact" => R!OnlyLogsRedacted(call.path, call.events)
                /\ call.of = "message" => C!MessagesRight(call.vars, call.args, call.causes)
                /\ call.of = "headers" => H!HeadersRight(call.cfg, call.parts, call.config) /\ H!ConfigHides(call.config)
                /\ call.of = "texts" => H!TextsRight(call.cfg, call.decoder, call.resp)
                /\ call.of = "write" => H!WriteRight(call.chunks, call.room)
                /\ call.of = "request" => X!AnswersHide(call.cfg, call.request)
=============================================================================
