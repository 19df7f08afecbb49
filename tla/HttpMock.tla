------------------------------ MODULE HttpMock ------------------------------
(***************************************************************************)
(* The mock HTTP server of hygiea-test: a cassette of routes is checked    *)
(* and registered by Cassette::start, the server answers one request after *)
(* another by running the handlers of a route, and the test that owns the  *)
(* Mocked changes the state, the files and the problems in between.        *)
(*                                                                         *)
(* Abstractions.  A path template is the set of paths its regex matches, a *)
(* declarative condition (query, header, cookie, body) is something that a *)
(* request meets or not, a script is a record of what it does, and the     *)
(* state is the set of updates that it shows.  A file path is the sequence *)
(* of its parts.                                                           *)
(***************************************************************************)
EXTENDS Integers, Sequences, FiniteSets, SequencesExt, FiniteSetsExt

CONSTANTS
  Cassettes,      \* sequences of route definitions, in the order they are loaded
  StaticFiles,    \* file paths that may be given before start
  Calls,          \* requests: [method, path, meets]
  SetPaths,       \* the raw paths the test passes to set_file
  MaxRequests,    \* bound: requests answered
  MaxUpdates      \* bound: changes of the state by the test

\* Cassettes and chains are sequences, and a response has finitely many body fields.
ASSUME MockAssumption ==
  \A ds \in Cassettes :
    /\ ds \in Seq(ToSet(ds))
    /\ \A d \in ToSet(ds) : /\ d.literal \in BOOLEAN
                            /\ d.chain \in Seq(ToSet(d.chain))
                            /\ \A h \in ToSet(d.chain) : IsFiniteSet(h.bodies)

VARIABLES
  phase,     \* "new", "refused" (start failed), "serving", "dropped", "panicked"
  loaded,    \* the definitions of the cassette
  routes,    \* the registered definitions, in order
  state,     \* the state: the updates it shows, or what set_state left
  files,     \* keys of the file table
  problems,  \* the problems recorded, in order
  calls,     \* how often each registered route was called
  at,        \* the request being answered
  sent,      \* number of requests so far
  updates,   \* number of changes by the test so far
  kept,      \* history: the updates made since the state was last replaced
  wrong,     \* history: requests answered by the mock itself, not yet taken
  checked    \* history: number of requests that had been answered at the check

mockVars == <<phase, loaded, routes, state, files, problems, calls, at, sent, updates, kept, wrong, checked>>
-----------------------------------------------------------------------------
(* Loading                                                                 *)

\* file_key: "." and "" are dropped, ".." goes up, and not above the root.
Escapes == <<"..">>
AddPart(key, part) ==
  IF key = Escapes \/ part \in {"", "."} THEN key
  ELSE IF part # ".." THEN Append(key, part)
  ELSE IF key = << >> THEN Escapes ELSE Front(key)
FileKey(path) == FoldLeft(AddPart, << >>, path)
KeyExists(path, table) == FileKey(path) # Escapes /\ FileKey(path) \in table

(* A route definition: method, paths, literal, meets (a declarative        *)
(* condition is asked for), match ("none", or what match_script does),     *)
(* fields (which of handler / handlers is written), from ("dir" or         *)
(* "code"), valid (regexes and scripts compile) and chain, the handlers:   *)
(* each has fields (script / response), what it does, bodies (the body     *)
(* fields of its response) and file, the path used by body_file.           *)
IntoDef(d) == /\ d.from = "code" \/ Cardinality(d.fields) = 1
              /\ \A h \in ToSet(d.chain) : Cardinality(h.fields) = 1

IsFixed(h) == h.fields = {"response"}
FixedIsSound(h, table) == /\ Cardinality(h.bodies) <= 1
                          /\ "body_file" \in h.bodies => KeyExists(h.file, table)
CompileRoute(d, table) ==
  /\ d.chain # << >> /\ d.valid
  /\ \A h \in ToSet(d.chain) : IsFixed(h) => FixedIsSound(h, table)

LiteralConflict(a, b) == a.method = b.method /\ a.literal /\ b.literal /\ a.paths = b.paths
\* route::intersection of the two regexes, or equality of two literal paths.
Conflict(a, b) == /\ a.method = b.method /\ a.literal = b.literal
                  /\ a.paths \cap b.paths # {}
NoConflicts(ds) == \A i, j \in 1..Len(ds) : i < j => ~ Conflict(ds[i], ds[j])

\* sort_by_key: literal routes first, otherwise in the order they were loaded.
Before(ds, i, j) == IF ds[i].literal = ds[j].literal THEN i < j ELSE ds[i].literal
Place(ds, i) == Cardinality({j \in 1..Len(ds) : Before(ds, j, i)}) + 1
LiteralFirst(ds) == [n \in 1..Len(ds) |-> ds[CHOOSE i \in 1..Len(ds) : Place(ds, i) = n]]
Registered(ds) == LiteralFirst(ds)

Keys(paths) == {FileKey(p) : p \in paths}
Starts(ds, table) == /\ \A d \in ToSet(ds) : IntoDef(d) /\ CompileRoute(d, table)
                     /\ NoConflicts(ds)
-----------------------------------------------------------------------------
(* Matching                                                                *)

Path(d, q) == d.method = q.method /\ q.path \in d.paths
Declared(d, q) == Path(d, q) /\ (d.meets => q.meets)

\* match_script runs on a clone of the state, and only when the rest matches.
Scripted(d, s) == \/ d.match = "none"
                  \/ d.match = "updated" /\ s # {}
Tried(ds, q, s) == {i \in 1..Len(ds) : Declared(ds[i], q)
                      /\ \A j \in 1..(i-1) : ~ (Declared(ds[j], q) /\ Scripted(ds[j], s))}
Throws(ds, q, s) == {i \in Tried(ds, q, s) : ds[i].match = "throws"}
Matching(ds, q, s) == {i \in 1..Len(ds) : Declared(ds[i], q) /\ Scripted(ds[i], s)}
Chosen(ds, q, s) == IF Matching(ds, q, s) = {} THEN 0 ELSE Min(Matching(ds, q, s))
-----------------------------------------------------------------------------
Idle == [req |-> 0, route |-> 0, step |-> 0, seen |-> {}]

MockInit ==
  /\ phase = "new" /\ loaded \in Cassettes /\ routes = << >>
  /\ state = {} /\ files \in {Keys(given) : given \in SUBSET StaticFiles} /\ problems = << >>
  /\ calls = << >> /\ at = Idle /\ sent = 0 /\ updates = 0
  /\ kept = {} /\ wrong = {} /\ checked = 0

\* Cassette::start: all or nothing.
Start ==
  /\ phase = "new"
  /\ IF Escapes \in files \/ ~ Starts(loaded, files)
     THEN phase' = "refused" /\ UNCHANGED <<routes, calls>>
     ELSE /\ phase' = "serving"
          /\ routes' = Registered(loaded)
          /\ calls' = [i \in 1..Len(loaded) |-> 0]
  /\ UNCHANGED <<loaded, state, files, problems, at, sent, updates, kept, wrong, checked>>

\* Shared::fail: the problem is recorded and is the answer as well.
AnswerOnly(kind, fixed) == UNCHANGED problems
SharedFail(kind, fixed) == problems' = Append(problems, [kind |-> kind, req |-> sent, fixed |-> fixed])
Unanswered(kind, fixed) ==
  /\ SharedFail(kind, fixed)
  /\ wrong' = wrong \cup {sent}
  /\ at' = Idle

\* httpmock takes the first registered route that matches, the fallback when
\* none does; the server handles one request at a time.  It is httpmock's, and goes
\* on with its routes after the Mocked is dropped; what they share is an Arc.
Receive(q) ==
  /\ phase \notin {"new", "refused"} /\ at = Idle /\ sent < MaxRequests
  /\ sent' = sent + 1
  /\ LET c == Chosen(routes, q, state)
         thrown == SetToSeq(Throws(routes, q, state))
         told == problems \o [i \in 1..Len(thrown) |->
                   [kind |-> "MatchScriptFailed", req |-> sent', fixed |-> FALSE]]
     IN IF c = 0
        THEN /\ problems' = Append(told, [kind |-> "NoRoute", req |-> sent', fixed |-> FALSE])
             /\ wrong' = wrong \cup {sent'} /\ UNCHANGED <<at, calls>>
        ELSE /\ problems' = told
             /\ at' = [req |-> sent', route |-> c, step |-> 1, seen |-> state]
             /\ calls' = [calls EXCEPT ![c] = @ + 1]
             /\ UNCHANGED wrong
  /\ UNCHANGED <<phase, loaded, routes, state, files, updates, kept, checked>>

Handler == routes[at.route].chain[at.step]
Answering == at # Idle /\ at.step <= Len(routes[at.route].chain)
Answered == at' = Idle /\ UNCHANGED <<problems, wrong>>

\* build: at most one body field, and the file has to be in the table by now.
Build(bodies, file, table, fixed) ==
  IF Cardinality(bodies) > 1 THEN Unanswered("InvalidResponse", fixed)
  ELSE IF "body_file" \in bodies /\ ~ KeyExists(file, table) THEN Unanswered("FileNotFound", fixed)
  ELSE Answered

Server == UNCHANGED <<phase, loaded, routes, calls, sent, updates, checked>>

\* A handler of the chain that is a fixed response.  Before each handler the server
\* may sleep for its delay.
RunFixed ==
  /\ Answering /\ IsFixed(Handler)
  /\ Build(Handler.bodies, Handler.file, files, TRUE)
  /\ Server /\ UNCHANGED <<state, files, kept>>

\* A script holds the state from the start to the end: what it saw is what it
\* changed.  An error leaves the state as it was, not the files it wrote.
ScriptSeesWhatMatched == at.seen
ScriptState == state
\* nth raises past the end of its list (of one item), read_text for a missing file,
\* write_file for a path above the root; one that spoils raises after it wrote.
Raises(h) == \/ h.does \in {"throws", "spoils"}
             \/ h.does = "nth" /\ calls[at.route] > 1
             \/ h.does = "reads" /\ ~ KeyExists(h.file, files)
             \/ h.does = "writes" /\ FileKey(h.file) = Escapes
Writes(h) == IF h.does \in {"writes", "spoils"} THEN {FileKey(h.file)} \ {Escapes} ELSE {}
RunScript ==
  /\ Answering /\ ~ IsFixed(Handler)
  /\ LET h == Handler IN
     /\ files' = files \cup Writes(h)
     /\ IF Raises(h)
        THEN UNCHANGED <<state, kept>> /\ Unanswered("ScriptFailed", FALSE)
        ELSE /\ state' = IF h.does = "updates" THEN ScriptState \cup {sent} ELSE ScriptState
             /\ kept' = IF h.does = "updates" THEN kept \cup {sent} ELSE kept
             /\ IF h.does = "unit" THEN at' = [at EXCEPT !.step = @ + 1] /\ UNCHANGED <<problems, wrong>>
                ELSE IF h.does = "odd" THEN Unanswered("InvalidResponse", FALSE)
                ELSE Build(h.bodies, h.file, files', FALSE)
  /\ Server

\* Every handler returned ().
ChainEnds ==
  /\ at # Idle /\ ~ Answering
  /\ Unanswered("NoResponse", FALSE)
  /\ Server /\ UNCHANGED <<state, files, kept>>
-----------------------------------------------------------------------------
(* The test                                                                *)

Serving == /\ phase = "serving"
           /\ UNCHANGED <<loaded, routes, calls, at, sent>>
Update == -(updates + 1)

\* update_state changes what is there under the lock; set_state replaces it.
UpdateState ==
  /\ Serving /\ updates < MaxUpdates
  /\ updates' = updates + 1
  /\ state' = state \cup {Update} /\ kept' = kept \cup {Update}
  /\ UNCHANGED <<phase, files, problems, wrong, checked>>
SetState ==
  /\ Serving /\ updates < MaxUpdates
  /\ updates' = updates + 1
  /\ state' = {Update} /\ kept' = {Update}
  /\ UNCHANGED <<phase, files, problems, wrong, checked>>

\* set_file takes the path as it is given: it is not made a key first.
SetFile(path) ==
  /\ Serving /\ files' = files \cup {path}
  /\ UNCHANGED <<phase, state, problems, updates, kept, wrong, checked>>

TakeProblems ==
  /\ Serving /\ problems # << >>
  /\ problems' = << >> /\ wrong' = {}
  /\ UNCHANGED <<phase, state, files, updates, kept, checked>>

\* The Mocked is dropped, or assert_valid finds problems: neither waits for the request
\* that is being answered, asleep or in a script.  A test that panics already is not
\* checked; assert_valid without problems changes nothing.
Check ==
  /\ Serving
  /\ \/ problems = << >> /\ phase' = "dropped"
     \/ phase' = "panicked"
  /\ checked' = IF at = Idle THEN sent ELSE sent - 1
  /\ UNCHANGED <<state, files, problems, updates, kept, wrong>>

MockNext ==
  \/ Start \/ RunFixed \/ RunScript \/ ChainEnds
  \/ UpdateState \/ SetState \/ TakeProblems \/ Check
  \/ \E q \in Calls : Receive(q)
  \/ \E p \in SetPaths : SetFile(p)

MockSpec == MockInit /\ [][MockNext]_mockVars
-----------------------------------------------------------------------------
\* Which route answers a request does not depend on the order in which the
\* files and the code added the routes: whatever the state, every other order
\* registers a route that answers it the same way (mod.rs: the conflict check
\* and the literal routes first).
RouteByRequestAlone ==
  phase = "serving" =>
    \A q \in Calls, s \in {{}, {1}} :
      \A p \in {f \in [1..Len(loaded) -> 1..Len(loaded)] : IsInjective(f)} :
        LET order == Registered([i \in 1..Len(loaded) |-> loaded[p[i]]])
            a == Chosen(routes, q, s)  b == Chosen(order, q, s)
        IN (a = 0 /\ b = 0) \/ (a # 0 /\ b # 0 /\ routes[a] = order[b])

\* A request that the mock answered with an error of its own is never
\* overlooked: until the test takes the problem it is among the problems, so a
\* mock that is dropped without a panic had answered for the service only.
\* What it tells nobody is what was not answered yet when it was dropped.
DropTells ==
  /\ \A r \in wrong : \E i \in 1..Len(problems) : problems[i].req = r
  /\ phase = "dropped" => \A r \in wrong : r > checked

\* The state shows every update of a script or of the test since it was
\* replaced as a whole, however requests and the test take turns.
NoUpdateLost == state = kept

\* What start checked of a fixed response stays true: it never fails for a
\* missing file or for its fields, whatever scripts and the test do to the files.
FixedAnswers == \A i \in 1..Len(problems) : ~ problems[i].fixed

\* The checks of start hold for as long as it serves: they are made once, on
\* the routes and files that are there, and neither the load order nor what
\* becomes of the files gives an answer they have ruled out.
StartChecksHold == RouteByRequestAlone /\ FixedAnswers
=============================================================================
