----------------------------- MODULE Services -----------------------------
(***************************************************************************)
(* The components that stand on a library: hygiea-http's axum_server.rs,   *)
(* hygiea-grpc's tonic_server.rs, hygiea-redis' fred_pool.rs and           *)
(* hygiea-aws.  What their settings make of the library's, when a server   *)
(* serves, and what its clients are told.                                  *)
(*                                                                         *)
(* A setting that may be left out is a set: its value, or nothing; texts   *)
(* that may be empty, "".  A host of Redis stands for it and its port, and *)
(* `reconnect' for the policy of four settings.                            *)
(***************************************************************************)
EXTENDS Integers, Sequences, FiniteSets, SequencesExt

CONSTANTS ExtractorLimit,    \* of axum, for a body that a handler has extracted
          ConnectDefault     \* the seconds fred gives a connection unless it is told otherwise

Or(written, default) == IF written = {} THEN default ELSE written
NonEmpty(text) == {text} \ {""}

----------------------------------------------------------------------------
(* Redis.                                                                   *)

\* Whom to ask, by the mode; nothing is built for a mode nobody knows, or without nodes.
FredServer(cfg) ==
    LET clustered == [hosts |-> cfg.nodes]
        sentinel == [hosts |-> cfg.nodes, service |-> cfg.service, auth |-> <<NonEmpty(cfg.sentinelUser), NonEmpty(cfg.sentinelPassword)>>]
    IN  CASE cfg.mode = "standalone" -> {[hosts |-> <<cfg.host>>]}
          [] cfg.mode = "cluster" -> {s \in {clustered} : s.hosts # <<>>}
          [] cfg.mode = "sentinel" -> {s \in {sentinel} : s.hosts # <<>>}
          [] cfg.mode \notin {"standalone", "cluster", "sentinel"} -> {}

\* 0 leaves the library's own, which is none for a command.
ConnectTimeout(secs) == IF secs > 0 THEN secs ELSE ConnectDefault
CommandTimeout(secs) == IF secs > 0 THEN {secs} ELSE {}

FredPool(cfg) ==
    {[server |-> s, auth |-> <<NonEmpty(cfg.username), NonEmpty(cfg.password)>>, db |-> {cfg.db : m \in {cfg.mode} \ {"cluster"}},
      connect |-> ConnectTimeout(cfg.connect), command |-> CommandTimeout(cfg.command), attempts |-> cfg.attempts,
      redirections |-> cfg.redirections, reconnect |-> cfg.reconnect, size |-> cfg.size] : s \in FredServer(cfg)}

----------------------------------------------------------------------------
(* AWS.  `chain' gives, for a profile, what the SDK finds by itself.        *)

SdkConfig(cfg, chain) ==
    LET found == chain[CHOOSE p \in Or(cfg.profile, {"default"}) : TRUE]
    IN  [s \in DOMAIN found |-> Or(cfg[s], found[s])]

\* What is written for S3 alone lies over what all services share.
S3Client(cfg, chain) ==
    LET sdk == SdkConfig(cfg, chain) IN
    [sdk |-> [s \in DOMAIN sdk |-> IF s = "endpoint" THEN Or(cfg.s3.endpoint, sdk[s]) ELSE sdk[s]],
     pathStyle |-> cfg.s3.pathStyle, request |-> Or(cfg.s3.request, {"supported"}), response |-> Or(cfg.s3.response, {"supported"})]

----------------------------------------------------------------------------
(* A server: what its configuration makes of it, what it holds, and the     *)
(* calls a Registry makes of it.                                            *)

\* A layer for each limit that is written; the configuration has settings that nothing reads.
BuildRouter(cfg) == [maxBody |-> cfg.max_body_size, readSecs |-> cfg.request_read_secs]
AxumServer(cfg) == [addr |-> <<cfg.host, cfg.port>>, shutdown |-> cfg.shutdown_timeout_secs, router |-> BuildRouter(cfg)]

BuiltServer == [listener |-> FALSE, factory |-> TRUE, tasks |-> 0]

\* The address of gRPC is parsed before it is bound.
Prepare(kind, server, call) ==
    IF (kind = "grpc" => call.parses) /\ call.works THEN [server EXCEPT !.listener = TRUE] ELSE server

\* Both are taken, whatever is missing; the factory may find that a resource is not there.
Activate(server, call) ==
    [listener |-> FALSE, factory |-> FALSE,
     tasks |-> server.tasks + IF server.listener /\ server.factory /\ call.works THEN 1 ELSE 0]

Served(kind, calls) ==
    LET Step(server, call) == IF call.how = "prepare" THEN Prepare(kind, server, call) ELSE Activate(server, call)
        after[n \in 0 .. Len(calls)] == IF n = 0 THEN BuiltServer ELSE Step(after[n - 1], calls[n])
    IN  after[Len(calls)]

----------------------------------------------------------------------------
(* What a client is answered.  An error is [kind, framework, code, message, *)
(* causes]; its kind is "hy", or "other" for one of another library.        *)

SysErr(causes) == [kind |-> "hy", framework |-> TRUE, code |-> "99900001", message |-> {}, causes |-> causes]

FromAnyhow(e) == IF e.kind = "hy" THEN e ELSE SysErr(e.message \union e.causes)

Response(status, code, texts, logged) == [status |-> status, code |-> code, texts |-> texts, logged |-> logged]

\* The code and the message of a business error, nothing of the framework's; faults are logged.
IntoResponse(e) ==
    LET shown == IF e.framework THEN SysErr({}) ELSE e
    IN  Response(200, shown.code, shown.message, IF e.framework \/ e.causes # {} THEN e.message \union e.causes ELSE {})

\* arity0 and arity1, with a state or without.
Handle(outcome) == IF outcome.ok THEN Response(200, "00000000", outcome.data, {}) ELSE IntoResponse(FromAnyhow(outcome.error))

\* The time is measured around everything; a length that is declared is looked at first, the
\* rest when the handler reads it, and what it reads has axum's own limit as well.
Serve(cfg, request) ==
    LET router == BuildRouter(cfg)
        large == \E m \in router.maxBody : request.size > m
        slow == \E s \in router.readSecs : request.secs > s
        refused == large /\ request.declared
        cut == request.reads /\ (large \/ request.size > ExtractorLimit)
    IN  CASE refused -> Response(413, "", {}, {})
          [] slow /\ ~refused -> Response(408, "", {}, {})
          [] cut /\ ~slow /\ ~refused -> Response(413, "", {}, {})
          [] ~cut /\ ~slow /\ ~refused -> Handle(request.outcome)

----------------------------------------------------------------------------
(* What it promises.                                                        *)

ReadBy(mode) == {"username", "password", "connect", "command", "attempts", "redirections", "reconnect", "size"}
                \union CASE mode = "standalone" -> {"host", "db"}
                         [] mode = "cluster" -> {"nodes"}
                         [] mode = "sentinel" -> {"nodes", "service", "sentinelUser", "sentinelPassword", "db"}
                         [] mode \notin {"standalone", "cluster", "sentinel"} -> {}

\* Redis: two pools that are opened are the same exactly when the settings their mode reads are:
\* of a cluster not the database, of one server no nodes.  To give a connection 0 seconds is to
\* write the library's default.  One that nobody could reach is not opened.
PoolsAsWritten(cfg, other) ==
    LET Effective(c, setting) == IF setting = "connect" THEN ConnectTimeout(c.connect) ELSE c[setting] IN
    /\ \A p \in FredPool(cfg) : p.server.hosts # <<>>
    /\ cfg.mode = other.mode => \A p \in FredPool(cfg), q \in FredPool(other) :
           p = q <=> \A s \in ReadBy(cfg.mode) : Effective(cfg, s) = Effective(other, s)

\* The most special place where a setting of S3 is written decides, and no other profile is read.
S3AsWritten(cfg, chain) ==
    LET client == S3Client(cfg, chain)
        own == chain[CHOOSE p \in Or(cfg.profile, {"default"}) : TRUE]
        written(s) == IF s = "endpoint" THEN <<cfg.s3.endpoint, cfg[s], own[s]>> ELSE <<cfg[s], own[s]>>
    IN  /\ \A s \in DOMAIN own : /\ (\A i \in DOMAIN written(s) : written(s)[i] = {}) => client.sdk[s] = {}
                                 /\ \A i \in DOMAIN written(s) : written(s)[i] # {} /\ (\A j \in 1 .. i - 1 : written(s)[j] = {})
                                                                    => client.sdk[s] = written(s)[i]
        /\ \A w \in cfg.s3.request : client.request = {w}
        /\ \A w \in cfg.s3.response : client.response = {w}

\* A server has at most one task, whatever it is called; it has one only after a port was bound
\* and its factory worked, and it has one when all the Registry calls works.
ServesOnce(kind, calls) ==
    LET Works(i) == calls[i].works /\ (kind = "grpc" /\ calls[i].how = "prepare" => calls[i].parses)
        tasks == Served(kind, calls).tasks
        registry == [i \in DOMAIN calls |-> calls[i].how] = <<"prepare", "activate">>
    IN  /\ tasks <= 1
        /\ tasks = 1 => \E i, j \in DOMAIN calls : i < j /\ calls[i].how = "prepare" /\ calls[j].how = "activate" /\ Works(i) /\ Works(j)
        /\ registry => (tasks = 1 <=> Works(1) /\ Works(2))

Reserved == {"base_path", "connect_secs", "header_read_secs", "response_write_secs", "max_header_size"}

\* Two configurations make the same server exactly when all settings are the same but those that
\* the template calls reserved, which make no difference.
ServersAsWritten(cfg, other) == AxumServer(cfg) = AxumServer(other) <=> \A s \in DOMAIN cfg \ Reserved : cfg[s] = other[s]

\* A request that is larger or takes longer than was allowed has no answer of the handler, unless
\* that looked at none of it; any other has, up to axum's own limit, which a larger
\* max_body_size does not lift.
LimitsHold(cfg, request) ==
    Serve(cfg, request).status = 200
        <=> /\ \A s \in cfg.request_read_secs : request.secs <= s
            /\ \A m \in cfg.max_body_size : request.size <= m \/ ~(request.declared \/ request.reads)
            /\ request.reads => request.size <= ExtractorLimit

\* A client reads no text of an error that is not the application's, and of no error its causes;
\* those of the application arrive as they are; no fault is forgotten in the log.
AnswersHide(cfg, request) ==
    LET answer == Serve(cfg, request)
        e == request.outcome.error
        fault == e.kind = "other" \/ e.framework \/ e.causes # {}
    IN  answer.status = 200 /\ ~request.outcome.ok =>
            /\ answer.texts \intersect e.causes = {} /\ answer.code # "00000000"
            /\ e.kind = "other" \/ e.framework => answer.texts = {}
            /\ ~(e.kind = "other" \/ e.framework) => answer.texts = e.message /\ answer.code = e.code
            /\ IF fault THEN answer.logged = e.message \union e.causes ELSE answer.logged = {}
=============================================================================
