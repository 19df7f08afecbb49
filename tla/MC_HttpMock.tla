---------------------------- MODULE MC_HttpMock ----------------------------
(* Cassettes of up to three routes over two paths: literals and templates  *)
(* that overlap or not, conditions, match scripts, chains, files.          *)
EXTENDS HttpMock

Fixed(bodies, file) == [fields |-> {"response"}, does |-> "fixed", bodies |-> bodies, file |-> file]
Script(does, bodies, file) == [fields |-> {"script"}, does |-> does, bodies |-> bodies, file |-> file]
A == <<"a">>
Route(paths, literal, chain) ==
  [method |-> "GET", paths |-> paths, literal |-> literal, meets |-> FALSE, match |-> "none",
   fields |-> {"handler"}, from |-> "dir", valid |-> TRUE, chain |-> chain]

Plain == Fixed({"body"}, A)
Login == Script("updates", {"json"}, A)
Lit == Route({"p"}, TRUE, <<Login>>)
LitIf == [Lit EXCEPT !.meets = TRUE]
LitScripted == [Lit EXCEPT !.match = "updated", !.fields = {"handlers"}]
LitPost == [Lit EXCEPT !.method = "POST", !.from = "code"]
TplAny == Route({"p", "q"}, FALSE, <<Script("unit", {}, A), Plain>>)
TplQ == Route({"q"}, FALSE, <<Script("nth", {"body"}, A)>>)
TplThrows == [Route({"q"}, FALSE, <<Plain>>) EXCEPT !.match = "throws"]
TplFile == Route({"q"}, FALSE, <<Fixed({"body_file"}, <<"x", "..", "a">>)>>)
TplServe == Route({"q"}, FALSE, <<Script("serves", {"body_file"}, <<".", "b">>)>>)
TplWrite == Route({"p"}, FALSE, <<Script("writes", {}, <<"", "b">>)>>)
TplWriteServe == Route({"q"}, FALSE, <<Script("writes", {"body_file"}, <<"", "b">>)>>)
TplWriteOut == Route({"q"}, FALSE, <<Script("writes", {"body"}, <<"a", "..", "..", "b">>)>>)
TplSpoil == Route({"p"}, FALSE, <<Script("unit", {}, A), Script("spoils", {}, <<"b">>)>>)
TplRaises == Route({"q"}, FALSE, <<Script("unit", {}, A), Script("throws", {}, A)>>)
TplUnit == Route({"q"}, FALSE, <<Script("unit", {}, A)>>)
TplOdd == Route({"q"}, FALSE, <<Script("odd", {}, A)>>)
TplRead == Route({"q"}, FALSE, <<Script("reads", {"body"}, <<"b">>)>>)
TplTwo == Route({"q"}, FALSE, <<Script("serves", {"body", "json"}, A)>>)
BadTwo == Route({"p"}, TRUE, <<Fixed({"body", "json"}, A)>>)
BadEmpty == Route({"p"}, TRUE, << >>)
BadBoth == [Lit EXCEPT !.fields = {"handler", "handlers"}]
BadScript == [Lit EXCEPT !.valid = FALSE]

MCCassettes ==
  {<<Lit, TplAny>>, <<TplAny, LitIf, LitPost>>, <<TplAny, LitScripted>>, <<TplQ, Lit>>,
   <<TplAny, TplQ>>, <<Lit, LitIf>>, <<TplThrows, LitPost>>, <<TplFile, Lit>>,
   <<TplWrite, TplServe>>, <<TplWrite, TplRead>>, <<TplRaises, Lit>>, <<TplUnit, TplWrite>>, <<TplOdd>>, <<TplTwo>>,
   <<TplWriteServe>>, <<TplWriteOut, Lit>>, <<TplSpoil, TplServe>>,
   <<BadTwo>>, <<BadEmpty>>, <<BadBoth, TplQ>>, <<Lit, BadScript>>}
MCCalls == [method : {"GET"}, path : {"p", "q"}, meets : BOOLEAN]
             \cup {[method |-> "POST", path |-> "p", meets |-> TRUE]}
MCStatic == {A, <<"..", "x">>}
MCSetPaths == {A, <<".", "b">>}
=============================================================================
