------------------------------- MODULE V3Mangler -------------------------------
(***************************************************************************)
(* What the demangler is measured by: entities of a C++ program, how the   *)
(* V3 ABI mangles their names, with everything that was named once         *)
(* replaced by a substitution, and how a programmer would declare them.    *)
(* Neither knows anything of the components the demangler makes.           *)
(***************************************************************************)
EXTENDS Integers, Sequences, SequencesExt, TLC

(* Types. *)
None == [k |-> "none"]
Std_ == [k |-> "std"]
Builtin(c) == [k |-> "builtin", c |-> c]
Modified(c, type) == [k |-> "modified", c |-> c, of |-> type]
Function(ret, args) == [k |-> "function", ret |-> ret, args |-> args]
Array(n, type) == [k |-> "array", n |-> n, of |-> type]
Member(class, type) == [k |-> "member", class |-> class, of |-> type]
Name(scope, id) == [k |-> "name", scope |-> scope, id |-> id]
Template(name, args) == [k |-> "template", name |-> name, args |-> args]
Param(i) == [k |-> "param", i |-> i]
(* Template arguments that are a pack, and a parameter that stands for one. *)
Pack(args) == [k |-> "pack", args |-> args]
Expansion(i) == [k |-> "expansion", of |-> Param(i)]
Value(type, v) == [k |-> "value", type |-> type, v |-> v]
(* Arguments that are expressions, type{v} among them. *)
Braces(type, v) == [k |-> "braces", type |-> type, v |-> v]
Expr(code, operands) == [k |-> "expr", code |-> code, operands |-> operands]
Expression == {"expr", "braces"}

(* Functions, with the qualifiers of this and, NoType where there is none,
   what a template returns; a ctor; a name in a function. *)
Declared(name, this, ret, params) ==
    [k |-> "declared", name |-> name, this |-> this, ret |-> ret, params |-> params]
Constructor(class) == [k |-> "ctor", scope |-> class]
Local(function, id) == [k |-> "local", function |-> function, id |-> id]
Vtable(class) == [k |-> "vtable", class |-> class]
(* A file of a Java program. *)
Resource(path) == [k |-> "resource", path |-> path]

-------------------------------------------------------------------------------
(* Mangling.  m holds the text and what can be substituted. *)

Put(m, text) == [m EXCEPT !.text = @ \o text]
Candidate(m, entity) == [m EXCEPT !.subs = Append(@, entity)]
Place(m, entity) == SelectInSeq(m.subs, LAMBDA e : e = entity)
Reference(m, i) ==
    Put(m, CASE i = 1 -> <<"S", "_">>
             [] i > 1 -> <<"S", <<"0", "1", "2", "3", "4", "5", "6", "7", "8", "9", "A", "B">>[i - 1], "_">>)
(* Identifiers have one character. *)
Source(m, id) == Put(m, <<"1", id>>)

RECURSIVE MangleExpr(_, _), MangleExprs(_, _), MangleType(_, _), MangleTypes(_, _), ManglePrefix(_, _), MangleName(_, _), MangleFunction(_, _)
MangleTypes(m, types) ==
    IF types = <<>> THEN m ELSE MangleTypes(MangleType(m, Head(types)), Tail(types))
MangleParams(m, types) == IF types = <<>> THEN Put(m, <<"v">>) ELSE MangleTypes(m, types)
MangleArgs(m, args) == Put(MangleTypes(Put(m, <<"I">>), args), <<"E">>)

IsNested(name) ==
    CASE name.k = "template" -> name.name.scope.k \notin {"none", "std"}
      [] OTHER -> name.scope.k \notin {"none", "std"}
(* A name as a part of another one; each of its parts is a candidate. *)
ManglePrefix(m, name) ==
    CASE name.k = "std" -> Put(m, <<"S", "t">>)
      [] name.k # "std" /\ Place(m, name) # 0 -> Reference(m, Place(m, name))
      [] name.k = "name" /\ Place(m, name) = 0 ->
            Candidate(Source(IF name.scope.k = "none" THEN m ELSE ManglePrefix(m, name.scope), name.id), name)
      [] name.k = "template" /\ Place(m, name) = 0 ->
            Candidate(MangleArgs(ManglePrefix(m, name.name), name.args), name)
(* The last part of a nested name, which is no candidate by itself. *)
MangleLast(m, name) ==
    CASE name.k = "name" -> Source(IF name.scope.k = "none" THEN m ELSE ManglePrefix(m, name.scope), name.id)
      [] name.k = "template" -> MangleArgs(ManglePrefix(m, name.name), name.args)
      [] name.k = "ctor" -> Put(ManglePrefix(m, name.scope), <<"C", "1">>)
MangleName(m, name) ==
    IF name.k = "ctor" \/ IsNested(name) THEN Put(MangleLast(Put(m, <<"N">>), name), <<"E">>)
    ELSE MangleLast(m, name)

MangleType(m, type) ==
    LET whole ==
            CASE type.k = "modified" -> MangleType(Put(m, <<type.c>>), type.of)
              [] type.k = "function" ->
                    Put(MangleParams(MangleType(Put(m, <<"F">>), type.ret), type.args), <<"E">>)
              [] type.k = "array" -> MangleType(Put(m, <<"A", type.n, "_">>), type.of)
              [] type.k = "member" -> MangleTypes(Put(m, <<"M">>), <<type.class, type.of>>)
              [] type.k \in {"name", "template"} -> MangleName(m, type)
              [] type.k = "param" -> Put(m, IF type.i = 0 THEN <<"T", "_">> ELSE <<"T", "0", "_">>)
              [] type.k = "expansion" -> MangleType(Put(m, <<"D", "p">>), type.of)
    IN CASE type.k = "builtin" -> Put(m, <<type.c>>)
         [] type.k = "pack" -> Put(MangleTypes(Put(m, <<"J">>), type.args), <<"E">>)
         [] type.k = "value" -> Put(MangleType(Put(m, <<"L">>), type.type), <<type.v, "E">>)
         [] type.k \in Expression -> Put(MangleExpr(Put(m, <<"X">>), type), <<"E">>)
         [] type.k \notin {"builtin", "pack", "value"} \cup Expression /\ Place(m, type) # 0 -> Reference(m, Place(m, type))
         [] OTHER -> Candidate(whole, type)

MangleExprs(m, operands) ==
    IF operands = <<>> THEN m ELSE MangleExprs(MangleExpr(m, Head(operands)), Tail(operands))
MangleExpr(m, e) ==
    CASE e.k = "expr" -> MangleExprs(Put(m, e.code), e.operands)
      [] e.k = "braces" ->
            Put(MangleType(MangleType(Put(m, <<"t", "l">>), e.type), Value(Builtin("i"), e.v)), <<"E">>)
      [] OTHER -> MangleType(m, e)

MangleFunction(m, f) ==
    LET name == IF f.this = <<>> THEN MangleName(m, f.name)
                ELSE Put(MangleLast(Put(m, <<"N">> \o f.this), f.name), <<"E">>)
    IN MangleParams(IF f.ret = None THEN name ELSE MangleType(name, f.ret), f.params)
MangleEntity(e) ==
    LET m == [text |-> <<"_", "Z">>, subs |-> <<>>] IN
    CASE e.k = "declared" -> MangleFunction(m, e)
      [] e.k = "local" -> Source(Put(MangleFunction(Put(m, <<"Z">>), e.function), <<"E">>), e.id)
      [] e.k = "vtable" -> MangleType(Put(m, <<"T", "V">>), e.class)
      [] e.k = "resource" ->
            LET Escaped(c) == CASE c = "/" -> <<"$", "S">> [] c = "." -> <<"$", "_">>
                                [] c = "$" -> <<"$", "$">> [] OTHER -> <<c>>
                text == <<"_">> \o FlattenSeq([i \in DOMAIN e.path |-> Escaped(e.path[i])])
            IN Put(m, <<"G", "r", ToString(Len(text))>> \o text)
Mangled(e) == MangleEntity(e).text

-------------------------------------------------------------------------------
(* Declarations, without their spaces. *)

Words == [i |-> "int", j |-> "unsigned int", c |-> "char", v |-> "void", b |-> "bool"]
Signs == [P |-> <<"*">>, R |-> <<"&">>, O |-> <<"&", "&">>, K |-> <<"const">>, V |-> <<"volatile">>]
RECURSIVE Joined(_)
Joined(texts) ==
    IF Len(texts) = 0 THEN <<>>
    ELSE IF Len(texts) = 1 THEN Head(texts) ELSE Head(texts) \o <<",">> \o Joined(Tail(texts))

(* A parameter is the argument it stands for, a reference to a reference one. *)
RECURSIVE Resolved(_, _), ResolvedAll(_, _)
Resolved(type, args) ==
    CASE type.k = "param" -> args[type.i + 1]
      [] type.k = "modified" ->
            LET of == Resolved(type.of, args)
                refs == {"R", "O"}
            IN IF type.c \in refs /\ of.k = "modified" /\ of.c \in refs
               THEN Modified(IF {type.c, of.c} = {"O"} THEN "O" ELSE "R", of.of)
               ELSE IF type.c = "K" /\ of.k = "modified" /\ of.c = "K" THEN of
               ELSE Modified(type.c, of)
      [] type.k = "function" -> Function(Resolved(type.ret, args), ResolvedAll(type.args, args))
      [] type.k = "array" -> Array(type.n, Resolved(type.of, args))
      [] type.k = "member" -> Member(Resolved(type.class, args), Resolved(type.of, args))
      [] type.k = "template" -> Template(type.name, ResolvedAll(type.args, args))
      [] OTHER -> type
ResolvedAll(types, args) ==
    IF types = <<>> THEN <<>>
    ELSE LET first == Head(types)
             rest == ResolvedAll(Tail(types), args)
         IN IF first.k = "expansion" THEN args[first.of.i + 1].args \o rest
            ELSE <<Resolved(first, args)>> \o rest

RECURSIVE IsArray(_), Declare(_, _), Spelled(_), Written(_)
IsArray(type) == type.k = "array" \/ (type.k = "modified" /\ type.c \in {"K", "V"} /\ IsArray(type.of))
(* type d, where d is a declarator from the inside out. *)
Grouped(d) == IF d # <<>> /\ d[1] \in {"*", "&", "const", "volatile"} THEN <<"(">> \o d \o <<")">> ELSE d
Types(types) == Joined([i \in DOMAIN types |-> Declare(types[i], <<>>)])
Spelled(name) ==
    CASE name.k = "std" -> <<"std">>
      [] name.k = "name" ->
            (IF name.scope.k = "none" THEN <<>> ELSE Spelled(name.scope) \o <<"::">>) \o <<name.id>>
      [] name.k = "template" ->
            LET flat == ResolvedAll(name.args, <<>>)
                shown == SelectSeq(flat, LAMBDA a : a.k # "pack" \/ a.args # <<>>)
            IN Spelled(name.name) \o <<"<">> \o Types(shown) \o <<">">>
      [] name.k = "ctor" ->
            Spelled(name.scope) \o <<"::", IF name.scope.k = "template" THEN name.scope.name.id
                                           ELSE name.scope.id>>
Declare(type, d) ==
    CASE type.k = "builtin" -> <<Words[type.c]>> \o d
      [] type.k \in {"name", "template"} -> Spelled(type) \o d
      [] type.k = "value" ->
            <<type.v>> \o (IF type.type.c = "j" THEN <<"u">> ELSE <<>>)
      [] type.k = "braces" -> Declare(type.type, <<>>) \o <<"{", type.v, "}">>
      [] type.k = "expr" -> Written(type)
      [] type.k = "pack" -> Types(type.args)
      [] type.k = "modified" ->
            IF type.c \in {"K", "V"} /\ type.of.k = "array"
            THEN Declare(Array(type.of.n, Modified(type.c, type.of.of)), d)
            ELSE Declare(type.of, Signs[type.c] \o d)
      [] type.k = "function" ->
            Declare(type.ret, Grouped(d) \o <<"(">> \o Types(type.args) \o <<")">>)
      [] type.k = "array" -> Declare(type.of, Grouped(d) \o <<"[", type.n, "]">>)
      [] type.k = "member" ->
            LET pointer == Spelled(type.class) \o <<"::", "*">> \o d IN
            Declare(type.of, IF type.of.k = "function" \/ IsArray(type.of)
                             THEN <<"(">> \o pointer \o <<")">> ELSE pointer)

(* Operands in parentheses, and around a > that would end the arguments. *)
OperatorOf ==
    ("ng" :> <<"-">>) @@ ("nt" :> <<"!">>) @@ ("pl" :> <<"+">>) @@ ("ge" :> <<">", "=">>)
        @@ ("lt" :> <<"<">>) @@ ("aa" :> <<"&", "&">>) @@ ("st" :> <<"sizeof">>)
Written(e) ==
    LET code == e.code[1] \o e.code[2]
        Of(i) == <<"(">> \o Declare(e.operands[i], <<>>) \o <<")">>
    IN CASE code = "cv" -> Of(1) \o Of(2)
         [] code = "sc" -> <<"static_cast", "<">> \o Declare(e.operands[1], <<>>) \o <<">">> \o Of(2)
         [] code = "qu" -> Of(1) \o <<"?">> \o Of(2) \o <<":">> \o Of(3)
         [] code = "gt" -> <<"(">> \o Of(1) \o <<">">> \o Of(2) \o <<")">>
         [] code \notin {"cv", "sc", "qu", "gt"} ->
                IF Len(e.operands) = 1 THEN OperatorOf[code] \o Of(1)
                ELSE Of(1) \o OperatorOf[code] \o Of(2)

ArgsOf(name) ==
    CASE name.k = "template" -> name.args
      [] name.k = "ctor" /\ name.scope.k = "template" -> name.scope.args
      [] OTHER -> <<>>
DeclaredFunction(f) ==
    LET args == ArgsOf(f.name)
        this == Reverse(SelectSeq(f.this, LAMBDA q : q \in {"V", "K"}))
                    \o SelectSeq(f.this, LAMBDA q : q \in {"R", "O"})
        d == Spelled(f.name) \o <<"(">> \o Types(ResolvedAll(f.params, args)) \o <<")">>
                \o FlattenSeq([i \in DOMAIN this |-> Signs[this[i]]])
    IN IF f.ret = None THEN d ELSE Declare(Resolved(f.ret, args), d)
Declaration(e) ==
    CASE e.k = "declared" -> DeclaredFunction(e)
      [] e.k = "local" -> DeclaredFunction(e.function) \o <<"::", e.id>>
      [] e.k = "vtable" -> <<"vtable", "for">> \o Spelled(e.class)
      [] e.k = "resource" -> <<"java resource">> \o e.path

-------------------------------------------------------------------------------
(* Types there are in C++: nothing returns or consists of a function, returns
   an array, or points to or qualifies a reference, nothing is qualified twice; only a parameter gives a
   reference to a reference. *)
IsReference(type) == type.k = "modified" /\ type.c \in {"R", "O"}
RECURSIVE Qualified(_), WellFormed(_)
Qualified(type) ==
    \/ type.k = "modified" /\ type.c \in {"K", "V"}
    \/ type.k = "array" /\ Qualified(type.of)
WellFormed(type) ==
    CASE type.k = "modified" ->
            /\ WellFormed(type.of)
            /\ ~IsReference(type.of)
            /\ type.c \in {"K", "V"} => type.of.k # "function" /\ ~Qualified(type.of)
      [] type.k = "array" -> WellFormed(type.of) /\ type.of.k # "function" /\ ~IsReference(type.of)
      [] type.k = "function" ->
            /\ WellFormed(type.ret) /\ type.ret.k # "function" /\ ~IsArray(type.ret)
            /\ \A i \in DOMAIN type.args : WellFormed(type.args[i])
      [] type.k = "member" -> WellFormed(type.of) /\ ~IsReference(type.of)
      [] type.k = "template" -> \A i \in DOMAIN type.args : WellFormed(type.args[i])
      [] OTHER -> TRUE
(* A parameter that stands for a reference is not pointed to or qualified. *)
RECURSIVE Sound(_, _)
Sound(type, args) ==
    CASE type.k = "modified" ->
            Sound(type.of, args) /\ (type.c \in {"P", "K", "V"} => ~IsReference(Resolved(type.of, args)))
      [] type.k = "array" -> Sound(type.of, args) /\ ~IsReference(Resolved(type.of, args))
      [] type.k = "function" ->
            Sound(type.ret, args) /\ \A i \in DOMAIN type.args : Sound(type.args[i], args)
      [] type.k = "member" -> Sound(type.of, args)
      [] OTHER -> TRUE
Exists(e) ==
    CASE e.k = "declared" ->
            LET args == ArgsOf(e.name)
                Is(type) == WellFormed(type) /\ Sound(type, args) /\ WellFormed(Resolved(type, args))
            IN /\ \A i \in DOMAIN args : args[i].k \in {"pack", "value"} \cup Expression \/ WellFormed(args[i])
               /\ e.ret = None \/ (Is(e.ret) /\ Resolved(e.ret, args).k # "function" /\ ~IsArray(Resolved(e.ret, args)))
               /\ \A i \in DOMAIN e.params : e.params[i].k = "expansion" \/ Is(e.params[i])
      [] OTHER -> TRUE
===============================================================================
