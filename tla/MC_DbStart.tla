----------------------------- MODULE MC_DbStart -----------------------------
(* Two applications.  The first has a pool, with the live configuration or *)
(* with locks in that pool or in one of their own; the second has locks or *)
(* the live configuration alone.  Tables are missing, whole, foreign, half *)
(* built or unfit, of one kind at a time.                                  *)
EXTENDS DbStart

Schema(parts, sound, fits) == [parts |-> parts, sound |-> sound, fits |-> fits]
MCFound ==
  {Schema({}, TRUE, TRUE), Schema({1}, FALSE, TRUE), Schema(1..Tables, TRUE, TRUE)}
  \cup {Schema(p, TRUE, fits) : p \in {{1}, 1..Statements}, fits \in BOOLEAN}
Config(pool, live, lock, own, lazy) ==
  [pool |-> pool, live |-> live, lock |-> lock, own |-> own, lazy |-> lazy]
First ==
  {Config(TRUE, TRUE, FALSE, FALSE, FALSE)}
  \cup {Config(TRUE, FALSE, TRUE, own, FALSE) : own \in BOOLEAN}
Second ==
  {Config(FALSE, FALSE, TRUE, TRUE, TRUE), Config(FALSE, TRUE, FALSE, FALSE, FALSE)}
MCConfigs == First \cup Second
MCInit ==
  /\ Init
  /\ \A i \in Instances : cfg[i] \in First <=> i = "i"
  /\ db["live"].parts = {} \/ db["row"].parts = {}
MCSpec == MCInit /\ [][Next]_vars /\ Fair
=============================================================================
