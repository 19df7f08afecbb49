---------------------------- MODULE HttpMessages ----------------------------
(***************************************************************************)
(* hygiea-http-client: what a request is made of, what is sent of it, what *)
(* is made of the response, and what of both gets into logs and errors.    *)
(* When attempts are made and which outcome they have is in HttpSend.      *)
(*                                                                         *)
(* A text is the set of the pieces that can be read in it: Marked ones are *)
(* under a field with a redact marker, Control ones would start a new line *)
(* or drive a terminal.  Headers are functions from names to sequences of  *)
(* values [text, sensitive].  What may be left out is a set: it, or        *)
(* nothing; what is refused is the empty set.                              *)
(***************************************************************************)
EXTENDS Integers, Sequences, FiniteSets, SequencesExt

CONSTANTS Marked, Control

Redacted(text) == text \ Marked
Illegal(text) == text \cap Control # {}

----------------------------------------------------------------------------
(* Headers.                                                                 *)

Reserved == {"authorization", "content-type", "content-length", "transfer-encoding", "connection"}

\* HeaderMap's extend replaces all values of a name, append adds one.
Extend(headers, more) == [n \in DOMAIN headers \union DOMAIN more |-> IF n \in DOMAIN more THEN more[n] ELSE headers[n]]
AddValue(headers, name, value) ==
    Extend(headers, [n \in {name} |-> IF name \in DOMAIN headers THEN Append(headers[name], value) ELSE <<value>>])

IntoHeaders(parts) ==
    LET merged[i \in 0 .. Len(parts)] == IF i = 0 THEN <<>> ELSE Extend(merged[i - 1], parts[i])
    IN  merged[Len(parts)]
CheckedHeaders(parts) == {h \in {IntoHeaders(parts)} : DOMAIN h \cap Reserved = {}}

\* Headers in a file: entries [name, values], in the order of their names as they are written,
\* which may differ only in case.
ValuesOf(entries, name) ==
    LET upTo[i \in 0 .. Len(entries)] ==
            IF i = 0 THEN <<>> ELSE IF entries[i].name = name THEN upTo[i - 1] \o entries[i].values ELSE upTo[i - 1]
    IN  upTo[Len(entries)]
ToHeaders(entries) ==
    {[n \in {entries[i].name : i \in DOMAIN entries} |-> ValuesOf(entries, n)] :
        once \in {TRUE} \cap {\A i \in DOMAIN entries : \A v \in ToSet(entries[i].values) : ~Illegal(v.text)}}
HeaderMapConfig(headers) == LET names == SetToSeq(DOMAIN headers) IN [i \in DOMAIN names |-> [name |-> names[i], values |-> headers[names[i]]]]

\* Those in the file are not checked against the reserved names, those of the code are.
DefaultHeaders(entries, parts) ==
    UNION {{HeaderMapConfig(Extend(h, p)) : p \in CheckedHeaders(parts)} : h \in ToHeaders(entries)}

\* What a client sends of its own: of several values the last one.
ClientDefaults(config) ==
    {LET agent == IF config.agent = {} THEN <<>> ELSE [user_agent |-> [text |-> config.agent, sensitive |-> FALSE]]
         set == [n \in DOMAIN h |-> Last(h[n])]
         all == Extend(Extend([accept |-> [text |-> {"any"}, sensitive |-> FALSE]], agent), set)
     IN  [n \in DOMAIN all |-> <<all[n]>>] : h \in ToHeaders(config.headers)}

\* Authorization: basic credentials are encoded in base64, so they are always legal.
AuthValue(auth) == {[text |-> t, sensitive |-> TRUE] : t \in {x \in {IF auth.scheme = "Basic" THEN auth.text \ Control ELSE auth.text} : ~Illegal(x)}}
AuthDebug(auth) == {auth.scheme} \union auth.user

----------------------------------------------------------------------------
(* The client's configuration: its builder, and what its Debug shows.       *)

Proxy(p) == {p : once \in {TRUE} \cap {p.legal /\ ToHeaders(p.headers) # {}}}

Builder(config) ==
    {[redirects |-> config.redirects, compresses |-> config.compresses, defaults |-> d,
      proxies |-> IF config.noProxy THEN <<>> ELSE config.proxies] :
        d \in {c \in ClientDefaults(config) : \A p \in ToSet(config.proxies) : Proxy(p) # {}}}

HeadersDebug(entries) == {entries[i].name : i \in DOMAIN entries}
ProxyDebug(p) == p.except
ConfigDebug(config) == config.agent \union HeadersDebug(config.headers) \union UNION {ProxyDebug(p) : p \in ToSet(config.proxies)}

----------------------------------------------------------------------------
(* Bodies.                                                                  *)

TextTypes == {"application/json", "application/x-www-form-urlencoded", "application/x-ndjson", "application/xml", "text/xml", "text/csv", "text/plain"}
IsText(type) == type \in TextTypes

\* Line breaks become spaces, other control characters are escaped.
OneLine(text) == text \ Control

\* The Content-Type that a body has, or it is refused: a part's mime is parsed when it is sent.
ContentType(body) ==
    CASE body.kind = "json" -> {"application/json"}
      [] body.kind = "form" -> {"application/x-www-form-urlencoded"}
      [] body.kind \in {"raw", "stream"} -> {body.type}
      [] body.kind \in {"multipart", "native"} -> {"multipart/form-data"}
      [] body.kind = "none" -> {}
Accepted(body) == \A p \in body.parts : p.legal
Content(body) == body.content \union UNION {p.name \union p.file \union p.content : p \in body.parts}

RawPreview(body) == IF IsText(body.type) THEN OneLine(body.content) ELSE {body.type}
Preview(body) == CASE body.kind \in {"json", "form"} -> {Redacted(body.content)}
                   [] body.kind = "raw" -> {RawPreview(body)}
                   [] body.kind = "stream" -> {IF body.inMemory THEN RawPreview(body) ELSE {}}
                   [] body.kind = "multipart" -> {UNION {p.name \union p.file : p \in body.parts}}
                   [] body.kind = "native" -> {{}}
                   [] body.kind = "none" -> {}
DebugPreview(body) == IF body.kind \in {"json", "form"} THEN {body.content} ELSE Preview(body)

----------------------------------------------------------------------------
(* The request.                                                             *)

\* into_request: the headers, the authorization, the body with its type; a form and JSON set the
\* type only where there is none.
IntoRequest(cfg) ==
    {LET auth == IF cfg.auth = {} THEN cfg.headers
                 ELSE AddValue(cfg.headers, "authorization", CHOOSE v \in UNION {AuthValue(a) : a \in cfg.auth} : TRUE)
         type == CHOOSE t \in ContentType(cfg.body) : TRUE
         typed == cfg.body.kind = "none" \/ (cfg.body.kind \in {"json", "form"} /\ "content-type" \in DOMAIN auth)
     IN  [url |-> cfg.url \union cfg.params, body |-> Content(cfg.body),
          headers |-> IF typed THEN auth ELSE AddValue(auth, "content-type", [text |-> {type}, sensitive |-> FALSE])] :
        once \in {TRUE} \cap {Accepted(cfg.body) /\ \A a \in cfg.auth : AuthValue(a) # {}}}

\* What is sent: a client's header only where the request has none of that name.
Sent(request, defaults) == [request EXCEPT !.headers = Extend(defaults, @)]

UrlShown(cfg) == cfg.url \union Redacted(cfg.params)
ReqPreview(cfg) == Redacted(cfg.params) \union UNION Preview(cfg.body)

----------------------------------------------------------------------------
(* The response.                                                            *)

BodyText(resp) == IF resp.type = {} THEN (IF resp.utf8 THEN resp.body ELSE {})
                  ELSE IF \A t \in resp.type : IsText(t) THEN resp.body ELSE resp.type
BodyPreview(resp) == OneLine(BodyText(resp))

\* What a decoder makes of it; JSON keeps the fields it knows.
FromBytes(decoder, resp) ==
    CASE decoder.kind \in {"bytes", "text"} -> {resp.body}
      [] decoder.kind \in {"unit", "stream"} -> {{}}
      [] decoder.kind = "json" -> {resp.body \cap decoder.fields : once \in {TRUE} \cap {resp.json}}
DecodedPreview(decoder, output) == CASE decoder.kind = "text" -> {output}
                                     [] decoder.kind = "json" -> {Redacted(output)}
                                     [] decoder.kind \in {"bytes", "unit", "stream"} -> {}

\* write_to: chunks [bytes, broken] into a writer that takes so many bytes.
Bytes(chunks, n) ==
    LET sum[i \in 0 .. Len(chunks)] == IF i = 0 THEN 0 ELSE sum[i - 1] + chunks[i].bytes
    IN  sum[n]
WriteTo(chunks, room) ==
    LET stops == {i \in DOMAIN chunks : chunks[i].broken \/ Bytes(chunks, i) > room}
        at == IF stops = {} THEN Len(chunks) ELSE (CHOOSE i \in stops : \A j \in stops : i <= j) - 1
    IN  [written |-> Bytes(chunks, at), count |-> {Bytes(chunks, at) : once \in {TRUE} \cap {stops = {}}}]

----------------------------------------------------------------------------
(* Logs and errors of an attempt that ended.                                *)

Outcome(decoder, resp) == CASE resp.broken -> "failed"
                            [] ~resp.broken /\ ~resp.success -> "non-2xx"
                            [] ~resp.broken /\ resp.success -> IF FromBytes(decoder, resp) = {} THEN "decode failed" ELSE "success"

\* The records that are written, each a text; failures are logged whatever the request says.
NormalLog(cfg, decoder, resp) ==
    LET both == UrlShown(cfg) \union ReqPreview(cfg)
        start == {both : once \in {TRUE} \cap {cfg.logging}}
        output == FromBytes(decoder, resp)
    IN  start \union
        CASE Outcome(decoder, resp) = "failed" -> {both}
          [] Outcome(decoder, resp) \in {"non-2xx", "decode failed"} -> {both \union BodyPreview(resp)}
          [] Outcome(decoder, resp) = "success" ->
                 {both \union OneLine(UNION UNION {DecodedPreview(decoder, o) : o \in output}) : once \in {TRUE} \cap {cfg.logging}}

HeadersJson(headers) == UNION {UNION {v.text : v \in ToSet(headers[n])} : n \in DOMAIN headers}

\* The debug log is JSON, which has no control characters, and shows everything.
DebugLog(cfg, sent, decoder, resp) ==
    LET request == sent.url \union HeadersJson(sent.headers) \union cfg.params \union UNION DebugPreview(cfg.body)
        response == HeadersJson(resp.headers) \union (IF decoder.kind = "stream" /\ Outcome(decoder, resp) = "success" THEN {} ELSE BodyText(resp))
    IN  {OneLine(request), OneLine(IF resp.broken THEN request ELSE request \union response)}

\* An error: its message, and all of it with its arguments and causes; a cause from reqwest has
\* lost its URL.
HttpError(cfg, decoder, resp) ==
    LET url == UrlShown(cfg) IN
    CASE Outcome(decoder, resp) \in {"non-2xx", "decode failed"} -> {[message |-> url, all |-> url \union BodyText(resp)]}
      [] Outcome(decoder, resp) = "failed" -> {[message |-> url, all |-> url]}
      [] Outcome(decoder, resp) = "success" -> {}

\* What the caller gets of a response.
Response(cfg, decoder, resp) == {[url |-> UrlShown(cfg), body |-> b] : b \in {o \in FromBytes(decoder, resp) : Outcome(decoder, resp) = "success"}}

----------------------------------------------------------------------------
(* What they promise.                                                       *)

\* Of two headers with one name the more specific one is sent, and whole: that of the last part,
\* of the code over the file, of the request over its client; the body and the authorization
\* have exactly one header each, that of the call, and credentials are sensitive.
HeadersRight(cfg, parts, config) == \A h \in CheckedHeaders(parts), d \in ClientDefaults(config) :
    LET asked == [cfg EXCEPT !.headers = h] IN
    \A r \in IntoRequest(asked) : LET sent == Sent(r, d).headers IN
        /\ cfg.body.kind # "none" => \A t \in ContentType(cfg.body) : sent["content-type"] = <<[text |-> {t}, sensitive |-> FALSE]>>
        /\ \A a \in cfg.auth : sent["authorization"] \in {<<v>> : v \in AuthValue(a)} /\ sent["authorization"][1].sensitive
        /\ \A i \in DOMAIN parts : \A n \in DOMAIN parts[i] :
               (\A j \in i + 1 .. Len(parts) : n \notin DOMAIN parts[j]) =>
                   /\ sent[n] = parts[i][n]
                   /\ \A e \in DefaultHeaders(config.headers, parts) : \A c \in ClientDefaults([config EXCEPT !.headers = e]) :
                          c[n] = <<Last(parts[i][n])>>
        /\ \A i \in DOMAIN config.headers : LET n == config.headers[i].name IN
               n \in DOMAIN sent /\ (sent[n] = d[n] \/ n \in DOMAIN h \union {"content-type", "authorization"})

\* A configuration's Debug shows no header, no proxy's address and no credentials; a client that
\* is built has the proxies that are configured, in their order, or none.
ConfigHides(config) ==
    LET hidden == (UNION {HeadersJson(h) : h \in ToHeaders(config.headers)}) \union UNION {p.url \union p.auth : p \in ToSet(config.proxies)}
    IN  /\ ConfigDebug(config) \cap hidden = {}
        /\ \A b \in Builder(config) : b.proxies # config.proxies => config.noProxy /\ b.proxies = <<>>

\* Outside of the debug log nothing that is marked is read in a log or in an error, no header, no
\* credentials and nothing of a file that is sent; a record is one line, whatever a raw body or
\* the server says, unless the name of a part or of its file has more: these are shown as they
\* are.  An error's message has nothing of the response.  What is sent is never masked, and the
\* debug log has all of it, on one line.
TextsRight(cfg, decoder, resp) == \A request \in IntoRequest(cfg) :
    LET content == IF cfg.body.kind \in {"json", "form"} THEN cfg.body.content ELSE {}
        marked == Marked \cap (cfg.params \union content)
        headers == HeadersJson(request.headers) \ UNION {ContentType(cfg.body), {cfg.body.type}}
        files == UNION {p.content : p \in cfg.body.parts}
        names == UNION {p.name \union p.file : p \in cfg.body.parts}
        secrets == marked \union headers \union files
        understood == IF decoder.kind = "json" /\ Outcome(decoder, resp) = "success" THEN Marked \cap resp.body ELSE {}
    IN  /\ \A line \in NormalLog(cfg, decoder, resp) :
               line \cap (secrets \union understood) = {} /\ line \cap Control \subseteq names
        /\ Outcome(decoder, resp) # "success" => \E line \in NormalLog(cfg, decoder, resp) : OneLine(BodyText(resp)) \subseteq line \/ resp.broken
        /\ \A e \in HttpError(cfg, decoder, resp) : e.all \cap secrets = {} /\ e.message \cap resp.body = {}
        /\ \A r \in Response(cfg, decoder, resp) : r.url \cap secrets = {}
        /\ \A a \in cfg.auth : AuthDebug(a) \cap a.text = {}
        /\ cfg.params \union cfg.body.content \union files \subseteq request.url \union request.body
        /\ \A line \in DebugLog(cfg, request, decoder, resp) :
               cfg.params \union content \union HeadersJson(request.headers) \subseteq line /\ ~Illegal(line)

\* A body is reported as written only when all of it was, with its size; when not, everything in
\* front of the chunk that failed has been written.
WriteRight(chunks, room) ==
    LET w == WriteTo(chunks, room)
    IN  /\ w.written <= room /\ \E n \in 0 .. Len(chunks) : w.written = Bytes(chunks, n) /\ \A i \in 1 .. n : ~chunks[i].broken
        /\ \A c \in w.count : c = Bytes(chunks, Len(chunks)) /\ w.written = c
        /\ w.count = {} => (\E i \in DOMAIN chunks : chunks[i].broken) \/ Bytes(chunks, Len(chunks)) > room
=============================================================================
