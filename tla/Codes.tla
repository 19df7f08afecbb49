------------------------------- MODULE Codes -------------------------------
(***************************************************************************)
(* The numbered enums of hygiea-macros (hy_err, hy_lock_type, hy_lock_key) *)
(* and hygiea-core's registries of them: what compiles, what starts, what  *)
(* an error says and which lock a key takes.                               *)
(*                                                                         *)
(* A code is a sequence of digits.  A template is [vars, valid], with the  *)
(* variables it needs; what a macro refuses, or a program that does not    *)
(* start, is the empty set.  An enum is                                    *)
(*   [derive, project, module, internal, variants : Seq([code, tpl])]      *)
(* where the prefixes of a module, code and tpl are sets: one or nothing.  *)
(***************************************************************************)
EXTENDS Integers, Sequences, FiniteSets

Digit == {"0", "1", "2", "9"}
Only(written, default) == IF written = {} THEN default ELSE CHOOSE v \in written : TRUE

InternalProject == <<"9", "9", "9">>
SuccessCode == [i \in 1 .. 8 |-> "0"]
LockCode == [i \in 1 .. 9 |-> "9"]
Total == [hy_err |-> 8, hy_lock_type |-> 9, hy_lock_key |-> 9]

IsNumeric(text, length) == Len(text) = length /\ \A i \in DOMAIN text : text[i] \in Digit

----------------------------------------------------------------------------
(* Compiling an enum.                                                       *)

\* The project's prefix, and the module's, of two digits; hygiea's own crates have three.
Resolve(enum) ==
    {enum.project \o Only(enum.module \union enum.internal, <<>>) :
        once \in {TRUE} \cap {/\ enum.module = {} \/ enum.internal = {}
                              /\ \A m \in enum.module : IsNumeric(m, 2) /\ enum.project # InternalProject
                              /\ \A m \in enum.internal : IsNumeric(m, 3) /\ enum.project = InternalProject}}

TemplateVars(tpl) == {t.vars : t \in {x \in tpl : x.valid}}

Full(enum, head, variant) ==
    {head \o c : c \in {d \in variant.code : IsNumeric(d, Total[enum.derive] - Len(head))}}
    \ (IF enum.derive = "hy_err" THEN {SuccessCode} ELSE {})

\* An error and a key need a template, a lock type has none.
Templates(enum, variant) == IF enum.derive = "hy_lock_type" THEN {{} : once \in {TRUE} \cap {variant.tpl = {}}}
                            ELSE TemplateVars(variant.tpl)

Registration(enum, head, variant) ==
    {[code |-> c, vars |-> t, derive |-> enum.derive] : c \in Full(enum, head, variant), t \in Templates(enum, variant)}

Repeated(codes) == \E i, j \in DOMAIN codes : i # j /\ codes[i] = codes[j]

\* What an enum registers, if it compiles: one code for each of its variants.
Expand(enum) ==
    {regs \in {[i \in DOMAIN enum.variants |-> Only(Registration(enum, head, enum.variants[i]), 0)] :
                  head \in {h \in Resolve(enum) : \A i \in DOMAIN enum.variants : Registration(enum, h, enum.variants[i]) # {}}} :
        ~Repeated([i \in DOMAIN regs |-> regs[i].code])}

----------------------------------------------------------------------------
(* Starting a program: its enums are linked, errors and locks apart. A     *)
(* linked slice has no order: a variant's place is its enum and its number. *)

Builtin == [code |-> LockCode, vars |-> {}, derive |-> "hy_lock_type"]
IsLock(reg) == reg.derive # "hy_err"

Framework == <<0, 0>>
Places(enums) == UNION {{e} \X DOMAIN enums[e].variants : e \in DOMAIN enums}

\* What is linked into a program that compiles.
Linked(enums) == [p \in Places(enums) \union {Framework} |->
                     IF p = Framework THEN Builtin ELSE Only(Expand(enums[p[1]]), <<>>)[p[2]]]
Slice(linked, locks) == [p \in {q \in DOMAIN linked : IsLock(linked[q]) = locks} |-> linked[p]]

\* Codes that repeat end the program before main.
Build(regs) == {r \in {regs} : ~Repeated([p \in DOMAIN regs |-> regs[p].code])}

Registries(enums) == [errs |-> Slice(Linked(enums), FALSE), locks |-> Slice(Linked(enums), TRUE)]

\* What a program has registered, if it compiles and starts.
Program(enums) ==
    {r \in IF \E e \in DOMAIN enums : Expand(enums[e]) = {} THEN {} ELSE {Registries(enums)} :
        Build(r.errs) # {} /\ Build(r.locks) # {}}

----------------------------------------------------------------------------
(* err! and lock_key!: a call is [how, keys, literal], `how' with nothing,  *)
(* with one value or with keys, which may be expressions.                   *)

Compiles(vars, call) == CASE call.how = "bare" -> vars = {}
                          [] call.how = "value" -> Cardinality(vars) = 1
                          [] call.how = "keys" -> vars # {} /\ (call.literal => vars \subseteq call.keys)

Args(vars, call) == CASE call.how = "bare" -> {} [] call.how = "value" -> vars [] call.how = "keys" -> call.keys

\* Templates are strict: every variable must be there.
Renders(vars, args) == vars \subseteq args

\* A message is what it shows: of the arguments, of the template as it is written, of the causes.
WriteMessage(vars, args, detailed) ==
    IF Renders(vars, args) THEN [args |-> vars, template |-> FALSE, causes |-> 0]
    ELSE [args |-> IF detailed THEN args ELSE {}, template |-> TRUE, causes |-> 0]

\* {}, {:#} and {:?} of an error with a chain of causes.
Display(vars, args, causes) == WriteMessage(vars, args, FALSE)
DisplayAll(vars, args, causes) == [WriteMessage(vars, args, TRUE) EXCEPT !.causes = causes]
Debug(vars, args, causes) == [WriteMessage(vars, args, TRUE) EXCEPT !.causes = causes]

\* The text of a lock key, or InvalidKey: the code, a colon, what is rendered.
KeyText(reg, args, rendered) == {reg.code \o <<":">> \o rendered : once \in {TRUE} \cap {Renders(reg.vars, args)}}
I64KeyText(digits) == LockCode \o <<":">> \o digits

----------------------------------------------------------------------------
(* What they promise.                                                       *)

\* In a program that starts, no two variants have a code in common, none that of success or of
\* the framework's own locks, and keys of different variants are different locks whatever is
\* rendered; nor is one of them the lock of a number.
CodesApart(enums, texts) == \A r \in Program(enums) :
    LET reg == [p \in Places(enums) \union {Framework} |-> IF p \in DOMAIN r.errs THEN r.errs[p] ELSE r.locks[p]]
        keys == {p \in Places(enums) : reg[p].derive = "hy_lock_key"}
    IN  /\ \A p, q \in DOMAIN reg : p # q => reg[p].code # reg[q].code
        /\ \A p \in DOMAIN r.errs : r.errs[p].code # SuccessCode
        /\ \A p \in keys, s \in texts : \A a \in KeyText(reg[p], reg[p].vars, s) :
               /\ \A q \in keys \ {p}, t \in texts : a \notin KeyText(reg[q], reg[q].vars, t)
               /\ \A t \in texts : a # I64KeyText(t)

\* A call that compiles with keys that can be read renders; an error's own text never shows its
\* causes, nor an argument the template does not name; with {:#} nothing is lost.
MessagesRight(vars, call, causes) == Compiles(vars, call) =>
    LET args == Args(vars, call) IN
    /\ call.literal => Renders(vars, args)
    /\ Display(vars, args, causes).causes = 0 /\ Display(vars, args, causes).args \subseteq vars \cap args
    /\ \A m \in {DisplayAll(vars, args, causes), Debug(vars, args, causes)} : m.causes = causes /\ vars \cap args \subseteq m.args
=============================================================================
