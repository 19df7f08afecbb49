----------------------------- MODULE Redaction -----------------------------
(***************************************************************************)
(* hygiea-macros and hygiea-core, redact.rs: fields that are masked, or    *)
(* left out, when a value is written into a log, and only then.            *)
(*                                                                         *)
(* A value is written through a path of fields, the outermost first; each  *)
(* is declared in an item:                                                 *)
(*   [derives, into, variant, marks, where, serde, omits]                  *)
(* `serde' maps the field's serde attributes to the functions they name,   *)
(* `variant' are those of its variant that write the whole of it, `marks'  *)
(* are its redact options, `where' is what they stand on, and omits says   *)
(* whether the user's own condition leaves the field out.                  *)
(***************************************************************************)
EXTENDS Integers, Sequences, FiniteSets

----------------------------------------------------------------------------
(* The attribute macro; what it refuses to compile is the empty set.        *)

\* The option of a field, at most one.
TakeRedactAttr(marks) == IF marks = <<>> THEN {"none"}
                         ELSE {marks[1]} \cap {a \in {"mask", "skip"} : Len(marks) = 1}

\* Attributes that are replaced, with the user's function kept behind the new one.
RewriteField(serde, action) ==
    LET Own(attrs) == DOMAIN serde \cap attrs # {}
        Replaced(attrs, new) == [a \in DOMAIN new \union (DOMAIN serde \ attrs) |-> IF a \in DOMAIN new THEN new[a] ELSE serde[a]]
        mask == IF Own({"with"}) THEN [serialize_with |-> "mask or user", deserialize_with |-> "user"]
                ELSE [serialize_with |-> IF Own({"serialize_with"}) THEN "mask or user" ELSE "mask"]
        skip == [skip_serializing_if |-> IF Own({"skip_serializing_if"}) THEN "skip or user" ELSE "skip"]
    IN  CASE Own({"skip", "skip_serializing"}) -> {}
          [] ~Own({"skip", "skip_serializing"}) /\ action = "mask" ->
                 {Replaced({"serialize_with", "with"}, mask) : once \in {TRUE} \cap {~Own({"flatten"})}}
          [] ~Own({"skip", "skip_serializing"}) /\ action = "skip" -> {Replaced({"skip_serializing_if"}, skip)}

\* The field's serde attributes after expansion: a marker that could have no effect is refused.
ExpandItem(item) ==
    UNION {IF a = "none" THEN {item.serde}
           ELSE UNION {RewriteField(item.serde, a) :
                           once \in {TRUE} \cap {item.where = "field" /\ ~item.into /\ item.variant = {} /\ item.derives}} :
               a \in TakeRedactAttr(item.marks)}

----------------------------------------------------------------------------
(* The log mode of a thread: how many previews are being written.  `events' *)
(* are "enter", "return" and "panic", of nested calls of scope.             *)

\* A bug: a flag instead of a depth.
ChangeFlag(depth, event) == IF event = "enter" THEN 1 ELSE 0

Change(depth, event) == IF event = "enter" THEN depth + 1 ELSE depth - 1
Active(events) ==
    LET depth[n \in 0 .. Len(events)] == IF n = 0 THEN 0 ELSE Change(depth[n - 1], events[n])
    IN  depth[Len(events)] > 0

----------------------------------------------------------------------------
(* What serde writes with the attributes it finds.                          *)

Mask(by, active) == IF active THEN "***" ELSE IF by = "mask" THEN "plain" ELSE "user"
Skip(by, active, omits) == active \/ (by = "skip or user" /\ omits)

Omitted(serde, omits, active) ==
    \/ DOMAIN serde \cap {"skip", "skip_serializing"} # {}
    \/ \E a \in DOMAIN serde \cap {"skip_serializing_if"} : IF serde[a] = "user" THEN omits ELSE Skip(serde[a], active, omits)

Written(serde, active) ==
    CASE "serialize_with" \in DOMAIN serde /\ serde.serialize_with # "user" -> Mask(serde.serialize_with, active)
      [] "serialize_with" \in DOMAIN serde /\ serde.serialize_with = "user" -> "user"
      [] "serialize_with" \notin DOMAIN serde -> IF "with" \in DOMAIN serde THEN "user" ELSE "plain"

\* Nobody looks at a field's attributes when something else writes its type or its variant.
Field(item, serde, active) ==
    IF item.into \/ item.variant # {} \/ ~item.derives THEN "user"
    ELSE IF Omitted(serde, item.omits, active) THEN "absent" ELSE Written(serde, active)

\* How it is read.
Reads(serde) == IF DOMAIN serde \cap {"with", "deserialize_with"} # {} THEN "user" ELSE "plain"

\* The first field on the path that hides the value, or how it is written.
Shown(path, serdes, active) ==
    LET texts == [i \in DOMAIN path |-> Field(path[i], serdes[i], active)]
        hides == {i \in DOMAIN path : texts[i] \in {"absent", "***"}}
    IN  IF hides = {} THEN texts ELSE <<texts[CHOOSE i \in hides : \A j \in hides : i <= j]>>

----------------------------------------------------------------------------
(* What it promises.                                                        *)

\* Between a call of scope and its end, a panic included.
Open(events) == \E i \in DOMAIN events : \A j \in i .. Len(events) :
    LET entered == {k \in i .. j : events[k] = "enter"} IN Cardinality(entered) > Cardinality((i .. j) \ entered)

\* If it compiles: in a log a value under a marked field never shows, and the marker and the
\* depth of previews change nothing else, neither another field nor what is sent, stored or read.
OnlyLogsRedacted(path, events) ==
    LET plain == [i \in DOMAIN path |-> path[i].serde]
        marked == \E i \in DOMAIN path : path[i].marks # <<>>
    IN  (\A i \in DOMAIN path : ExpandItem(path[i]) # {}) =>
        LET serdes == [i \in DOMAIN path |-> CHOOSE s \in ExpandItem(path[i]) : TRUE]
            shown == Shown(path, serdes, Active(events))
        IN  /\ IF Open(events) /\ marked THEN shown \in {<<"absent">>, <<"***">>} ELSE shown = Shown(path, plain, FALSE)
            /\ \A i \in DOMAIN path : Reads(serdes[i]) = Reads(plain[i])
=============================================================================
