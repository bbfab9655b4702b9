-------------------------------- MODULE V3Parser --------------------------------
(***************************************************************************)
(* The recursive part of libiberty's V3 demangler (cp-demangle.c): one     *)
(* operator per production of the grammar, as the functions are called.    *)
(* The order in which the arguments of a d_make_comp are evaluated is the  *)
(* order they are written in.                                              *)
(***************************************************************************)
EXTENDS V3Components

(* The productions that occur in one another, by the name of their function. *)
RECURSIVE Parse(_, _)
d_encoding(di) == Parse("d_encoding", di)
d_name(di) == Parse("d_name", di)
d_unqualified_name(di) == Parse("d_unqualified_name", di)
d_type(di) == Parse("d_type", di)
d_template_args(di) == Parse("d_template_args", di)
d_expression_1(di) == Parse("d_expression_1", di)

(* The loops. *)
RECURSIVE d_prefix(_, _), d_parmlist(_, _, _), TemplateArguments(_, _, _),
          d_exprlist(_, _, _, _), CloneSuffixes(_)

(* A component with one part, what Parse returns. *)
Of(type, d) == d_make_comp(d, type, d.ret, NULL)
(* One with two parts, the second one what Parse returns. *)
Paired(d, type, left) == d_make_comp(d, type, left, d.ret)
(* c as the next of a list that ends in last and begins with first (NULL: a
   new one).  The last one is in num. *)
Linked(a, first, last) ==
    IF a.ret = NULL THEN a
    ELSE IF first = NULL THEN Number(a, a.ret)
    ELSE Number(Give(SetRight(a, last, a.ret), first), a.ret)
Appended(d, type, first, last) == Linked(Of(type, d), first, last)
Expect(d, c) == IF Peek(d) = c THEN Advance(d, 1) ELSE Fail(d)
WithSubstitution(d) == d_add_substitution(d, d.ret)

(* What d returned with the template arguments that follow, if any do. *)
Templated(d, is_new) ==
    LET a == IF is_new THEN WithSubstitution(d) ELSE d
        t == d_template_args(a)
    IN IF Peek(d) # "I" THEN d
       ELSE IF is_new /\ a.ret = NULL THEN a
       ELSE Paired(t, "TEMPLATE", d.ret)

-------------------------------------------------------------------------------
(* Names. *)

cplus_demangle_mangled_name(di, top_level) ==
    LET a == IF Peek(di) = "_" THEN Advance(di, 1) ELSE di
        p == d_encoding(Advance(a, 1))
    IN IF (top_level /\ Peek(di) # "_") \/ Peek(a) # "Z" THEN Fail(a)
       ELSE IF top_level THEN CloneSuffixes(p) ELSE p
CloneSuffixes(di) ==
    IF Peek(di) = "." /\ PeekNext(di) \in Lowers \cup Digits \cup {"_"}
    THEN CloneSuffixes(d_clone_suffix(di, di.ret)) ELSE di

OfType == [V |-> "VTABLE", T |-> "VTT", I |-> "TYPEINFO", S |-> "TYPEINFO_NAME",
           F |-> "TYPEINFO_FN", J |-> "JAVA_CLASS"]
OfName == [H |-> "TLS_INIT", W |-> "TLS_WRAPPER"]
ThunkOf == [h |-> "THUNK", v |-> "VIRTUAL_THUNK"]
ConstructionVtable(di) ==
    LET derived == d_type(di)
        offset == d_number(derived)
        base == d_type(Advance(offset, 1))
    IN IF offset.num < 0 \/ Peek(offset) # "_" THEN Fail(offset)
       ELSE d_make_comp(base, "CONSTRUCTION_VTABLE", base.ret, derived.ret)
SpecialOfType(di, c) ==
    CASE c \in DOMAIN OfType -> Of(OfType[c], d_type(di))
      [] c \in DOMAIN OfName -> Of(OfName[c], d_name(di))
      [] c \in DOMAIN ThunkOf ->
            LET d == d_call_offset(di, c) IN
            IF d.num = 0 THEN Fail(d) ELSE Of(ThunkOf[c], d_encoding(d))
      [] c = "c" ->
            LET d == d_call_offset(di, END)
                e == d_call_offset(d, END)
            IN IF d.num = 0 THEN Fail(d)
               ELSE IF e.num = 0 THEN Fail(e) ELSE Of("COVARIANT_THUNK", d_encoding(e))
      [] c = "C" -> ConstructionVtable(di)
      [] OTHER -> Fail(di)
(* The text of a resource, len characters: an escape or what is in front of
   the next one, each behind what there is so far (path). *)
Escapes == ("S" :> "/") @@ ("_" :> ".") @@ ("$" :> "$")
RECURSIVE ResourceText(_, _, _)
ResourceText(di, len, path) ==
    LET rest == Slice(di, Len(di.s) - di.n + 1)
        plain == SelectInSeq(rest \o <<"$">>, LAMBDA c : c = "$") - 1
        run == IF plain < len THEN plain ELSE len
        chunk == IF Peek(di) = "$"
                 THEN d_make_character(Advance(di, 2), Escapes[PeekNext(di)])
                 ELSE d_make_name(Advance(di, run), Slice(di, run))
        whole == IF path = NULL THEN chunk
                 ELSE d_make_comp(chunk, "COMPOUND_NAME", path, chunk.ret)
    IN IF len <= 0 THEN d_make_comp(di, "JAVA_RESOURCE", path, NULL)
       ELSE IF Peek(di) = END \/ (Peek(di) = "$" /\ PeekNext(di) \notin DOMAIN Escapes)
       THEN Fail(di)
       ELSE IF whole.ret = NULL THEN whole
       ELSE ResourceText(whole, len - (whole.n - di.n), whole.ret)
d_java_resource(di) ==
    LET d == d_number(di) IN
    IF d.num <= 1 THEN Fail(d)
    ELSE IF Peek(d) # "_" THEN Fail(d_next_char(d))
    ELSE ResourceText(Advance(d, 1), d.num - 1, NULL)
SpecialOfObject(di, c) ==
    CASE c = "V" -> Of("GUARD", d_name(di))
      [] c = "R" ->
            LET name == d_name(di)
                number == d_number_component(name)
            IN Paired(number, "REFTEMP", name.ret)
      [] c = "A" -> Of("HIDDEN_ALIAS", d_encoding(di))
      [] c = "T" -> Of(IF Peek(di) = "n" THEN "NONTRANSACTION_CLONE" ELSE "TRANSACTION_CLONE",
                       d_encoding(d_next_char(di)))
      [] c = "r" -> d_java_resource(di)
      [] OTHER -> Fail(di)
d_special_name(di) ==
    LET d == d_next_char(Advance(di, 1)) IN
    IF Peek(di) = "T" THEN SpecialOfType(d, PeekNext(di)) ELSE SpecialOfObject(d, PeekNext(di))

(* Whether the first type is the one returned, or J says so; then void alone
   is no parameter. *)
d_bare_function_type(di, has_return) ==
    LET d == IF Peek(di) = "J" THEN Advance(di, 1) ELSE di
        Whole(tl, returned) == IF tl.ret = NULL THEN tl ELSE Paired(tl, "FUNCTION_TYPE", returned)
        Returned(type) ==
            IF type.ret = NULL THEN type ELSE Whole(d_parmlist(type, NULL, NULL), type.ret)
    IN IF has_return \/ Peek(di) = "J" THEN Returned(d_type(d))
       ELSE Whole(d_parmlist(d, NULL, NULL), NULL)
d_parmlist(di, first, last) ==
    LET void == /\ Right(di, first) = NULL /\ TypeOf(di, Left(di, first)) = "BUILTIN_TYPE"
                /\ di.comps[Left(di, first)].x = <<"void">>
        More(next) == IF next.ret = NULL THEN next ELSE d_parmlist(next, next.ret, next.num)
        Typed(type) ==
            IF type.ret = NULL THEN type ELSE More(Appended(type, "ARGLIST", first, last))
    IN IF Peek(di) \in {END, "E", "."} \/ (Peek(di) \in {"R", "O"} /\ PeekNext(di) = "E")
       THEN IF first # NULL /\ void THEN Give(SetLeft(di, first, NULL), first)
            ELSE Give(di, first)
       ELSE Typed(d_type(di))

Encoding(di) ==
    LET Typed(name) ==
            IF name.ret = NULL \/ Peek(name) \in {END, "E"} THEN name
            ELSE Paired(d_bare_function_type(name, has_return_type(name, name.ret)),
                        "TYPED_NAME", name.ret)
    IN IF Peek(di) \in {"G", "T"} THEN d_special_name(di) ELSE Typed(d_name(di))

Within(d, last, first) == IF last = NULL THEN d ELSE Give(SetLeft(d, last, d.ret), first)
d_nested_name(di) ==
    LET q == d_cv_qualifiers(Advance(di, 1), TRUE)
        r == d_ref_qualifier(q, NULL)
        Nested(p) ==
            IF p.ret = NULL THEN p
            ELSE Expect(Within(Within(p, q.num, q.ret), r.ret, r.ret), "E")
    IN IF Run(Advance(di, 1), DOMAIN QualifierOf) > 0 /\ q.num = NULL THEN q
       ELSE Nested(d_prefix(r, NULL))

StringLiteral(di) ==
    LET d == d_discriminator(Advance(di, 1)) IN
    IF d.num = 0 THEN Fail(d) ELSE d_make_name(d, <<"string literal">>)
Entity(name) ==
    IF TypeOf(name, name.ret) \in {"NULL", "LAMBDA", "UNNAMED_TYPE"}
    THEN Number(name, 1) ELSE d_discriminator(name)
LocalEntity(di) ==
    LET Closed(d) == IF d.num = 0 THEN Fail(d) ELSE d
        DefaultOf(d, n) == IF d.num = 0 THEN Fail(d) ELSE d_make_number(d, "DEFAULT_ARG", d.ret, n)
        Numbered(d) == IF d.num < 0 THEN Fail(d) ELSE DefaultOf(Entity(d_name(d)), d.num)
    IN IF Peek(di) = "d" THEN Numbered(d_compact_number(Advance(di, 1)))
       ELSE Closed(Entity(d_name(di)))
d_local_name(di) ==
    LET At(d) == IF Peek(d) = "s" THEN StringLiteral(d) ELSE LocalEntity(d)
        In(function) ==
            IF Peek(function) # "E" THEN Fail(function)
            ELSE Paired(At(Advance(function, 1)), "LOCAL_NAME", function.ret)
    IN In(d_encoding(Advance(di, 1)))

StdName(di) ==
    LET std == d_make_name(di, <<"std">>)
        name == d_unqualified_name(std)
    IN Paired(name, "QUAL_NAME", std.ret)
AnyName(di) ==
    CASE Peek(di) = "N" -> d_nested_name(di)
      [] Peek(di) = "Z" -> d_local_name(di)
      [] Peek(di) = "U" -> d_unqualified_name(di)
      [] Peek(di) = "S" /\ PeekNext(di) # "t" -> Templated(d_substitution(di, FALSE), FALSE)
      [] Peek(di) = "S" /\ PeekNext(di) = "t" -> Templated(StdName(Advance(di, 2)), TRUE)
      [] OTHER -> Templated(d_unqualified_name(di), TRUE)

(* One more part of a nested name.  A substitution that fails is passed over. *)
d_prefix(di, sofar) ==
    LET c == Peek(di)
        Kept(d) == IF d.ret = NULL THEN d ELSE d_prefix(d, d.ret)
        Behind(d) ==
            IF c = "S" \/ Peek(d) = "E" THEN d_prefix(d, d.ret) ELSE Kept(WithSubstitution(d))
        With(part) ==
            Behind(IF sofar = NULL THEN part
                   ELSE Paired(part, IF c = "I" THEN "TEMPLATE" ELSE "QUAL_NAME", sofar))
    IN CASE c = "E" -> Give(di, sofar)
         [] c = "M" /\ sofar # NULL -> d_prefix(Advance(di, 1), sofar)
         [] c = "D" /\ PeekNext(di) \in {"T", "t"} -> With(d_type(di))
         [] c \in Digits \cup Lowers \cup {"C", "U", "L"} \/ (c = "D" /\ PeekNext(di) \notin {"T", "t"}) ->
              With(d_unqualified_name(di))
         [] c = "S" -> With(d_substitution(di, TRUE))
         [] c = "I" /\ sofar # NULL -> With(d_template_args(di))
         [] c = "T" -> With(d_template_param(di))
         [] OTHER -> Fail(di)

d_lambda(di) ==
    LET Closed(d, tl) ==
            IF d.num < 0 THEN Fail(d) ELSE WithSubstitution(d_make_number(d, "LAMBDA", tl, d.num))
        Listed(tl) ==
            IF tl.ret = NULL \/ Peek(tl) # "E" THEN Fail(tl)
            ELSE Closed(d_compact_number(Advance(tl, 1)), tl.ret)
    IN Listed(d_parmlist(Advance(di, 2), NULL, NULL))
d_unnamed_type(di) ==
    LET Closed(d) == IF d.num < 0 THEN Fail(d)
                     ELSE WithSubstitution(d_make_number(d, "UNNAMED_TYPE", NULL, d.num))
    IN Closed(d_compact_number(Advance(di, 2)))

(* &= and so on; operands counts those of an expression. *)
Op(operands, name) == [operands |-> operands, name |-> name]
Operators ==
    [aN |-> Op(2, <<"&", "=">>), aS |-> Op(2, <<"=">>), aa |-> Op(2, <<"&", "&">>),
     ad |-> Op(1, <<"&">>), an |-> Op(2, <<"&">>), cc |-> Op(2, <<"const_cast">>),
     at |-> Op(1, <<"alignof", " ">>), az |-> Op(1, <<"alignof", " ">>),
     cl |-> Op(2, <<"(", ")">>), cm |-> Op(2, <<",">>), co |-> Op(1, <<"~">>),
     dV |-> Op(2, <<"/", "=">>), da |-> Op(1, <<"delete[]", " ">>),
     dc |-> Op(2, <<"dynamic_cast">>), de |-> Op(1, <<"*">>), dl |-> Op(1, <<"delete", " ">>),
     ds |-> Op(2, <<".", "*">>), dt |-> Op(2, <<".">>), dv |-> Op(2, <<"/">>),
     eO |-> Op(2, <<"^", "=">>), eo |-> Op(2, <<"^">>), eq |-> Op(2, <<"=", "=">>),
     ge |-> Op(2, <<">", "=">>), gs |-> Op(1, <<"::">>), gt |-> Op(2, <<">">>),
     ix |-> Op(2, <<"[", "]">>), lS |-> Op(2, <<"<", "<", "=">>), le |-> Op(2, <<"<", "=">>),
     li |-> Op(1, <<"operator\"\"", " ">>), ls |-> Op(2, <<"<", "<">>), lt |-> Op(2, <<"<">>),
     mI |-> Op(2, <<"-", "=">>), mL |-> Op(2, <<"*", "=">>), mi |-> Op(2, <<"-">>),
     ml |-> Op(2, <<"*">>), mm |-> Op(1, <<"-", "-">>), na |-> Op(3, <<"new", "[]">>),
     ne |-> Op(2, <<"!", "=">>), ng |-> Op(1, <<"-">>), nt |-> Op(1, <<"!">>),
     nw |-> Op(3, <<"new">>), oR |-> Op(2, <<"|", "=">>), oo |-> Op(2, <<"|", "|">>),
     or |-> Op(2, <<"|">>), pL |-> Op(2, <<"+", "=">>), pl |-> Op(2, <<"+">>),
     pm |-> Op(2, <<"-", ">", "*">>), pp |-> Op(1, <<"+", "+">>), ps |-> Op(1, <<"+">>),
     pt |-> Op(2, <<"-", ">">>), qu |-> Op(3, <<"?">>), rM |-> Op(2, <<"%", "=">>),
     rS |-> Op(2, <<">", ">", "=">>), rc |-> Op(2, <<"reinterpret_cast">>),
     rm |-> Op(2, <<"%">>), rs |-> Op(2, <<">", ">">>), sc |-> Op(2, <<"static_cast">>),
     st |-> Op(1, <<"sizeof", " ">>), sz |-> Op(1, <<"sizeof", " ">>),
     tr |-> Op(0, <<"throw">>), tw |-> Op(1, <<"throw", " ">>)]

(* An operator, cv and a type, or v, the number of operands and a name. *)
d_operator_name(di) ==
    LET d == d_next_char(d_next_char(di))
        type == d_type([d EXCEPT !.conv = ~d.expr])
        name == d_source_name(d)
        code == Peek(di) \o PeekNext(di)
    IN CASE Peek(di) = "v" /\ PeekNext(di) \in Digits ->
              d_make_extended_operator(name, ValueOf[PeekNext(di)], name.ret)
         [] Peek(di) = "c" /\ PeekNext(di) = "v" -> Of("CAST", [type EXCEPT !.conv = di.conv])
         [] code \in DOMAIN Operators -> d_make_operator(d, code)
         [] OTHER -> Fail(d)

Suffixed(op, suffix) == Paired(suffix, "UNARY", op.ret)
NamedOperator(op, code) ==
    IF TypeOf(op, op.ret) = "OPERATOR" /\ code = "li" THEN Suffixed(op, d_source_name(op)) ELSE op
OperatorId(di) == NamedOperator(d_operator_name(di), Peek(di) \o PeekNext(di))
LocalSource(di) ==
    LET d == d_source_name(Advance(di, 1))
        e == d_discriminator(d)
    IN IF d.ret = NULL THEN d ELSE IF e.num = 0 THEN Fail(e) ELSE e
UnqualifiedName(di) ==
    LET c == Peek(di)
        Tagged(d) == d_abi_tags(d, d.ret)
        Kept(d) == IF d.ret = NULL THEN d ELSE Tagged(d)
    IN CASE c \in Digits -> Tagged(d_source_name(di))
         [] c \in Lowers -> Tagged(OperatorId(di))
         [] c \in {"C", "D"} -> Tagged(d_ctor_dtor_name(di))
         [] c = "L" -> Kept(LocalSource(di))
         [] c = "U" /\ PeekNext(di) = "l" -> Tagged(d_lambda(di))
         [] c = "U" /\ PeekNext(di) = "t" -> Tagged(d_unnamed_type(di))
         [] OTHER -> Fail(di)

-------------------------------------------------------------------------------
(* Types. *)

Builtins ==
    [a |-> "signed char", b |-> "bool", c |-> "char", d |-> "double", e |-> "long double",
     f |-> "float", g |-> "__float128", h |-> "unsigned char", i |-> "int",
     j |-> "unsigned int", l |-> "long", m |-> "unsigned long", n |-> "__int128",
     o |-> "unsigned __int128", s |-> "short", t |-> "unsigned short", v |-> "void",
     w |-> "wchar_t", x |-> "long long", y |-> "unsigned long long", z |-> "..."]
ExtendedBuiltins ==
    [f |-> "decimal32", d |-> "decimal64", e |-> "decimal128", h |-> "half",
     s |-> "char16_t", i |-> "char32_t", n |-> "decltype(nullptr)"]

d_function_type(di) ==
    LET d == Advance(di, 1)
        type == d_bare_function_type(IF Peek(d) = "Y" THEN Advance(d, 1) ELSE d, TRUE)
    IN IF Peek(di) # "F" THEN Fail(di) ELSE Expect(d_ref_qualifier(type, type.ret), "E")

(* The qualifiers of a type and the type, as one; a ref-qualifier goes outside
   of them, wherever its component is used, too. *)
QualifiedType(di) ==
    LET q == d_cv_qualifiers(di, FALSE)
        t == IF Peek(q) = "F" THEN d_function_type(q) ELSE d_type(q)
        inside == SetLeft(t, q.num, t.ret)
        outside == SetLeft(SetLeft(t, q.num, Left(t, t.ret)), t.ret, q.ret)
    IN IF q.ret = NULL THEN q
       ELSE IF t.ret = NULL THEN t
       ELSE IF TypeOf(t, t.ret) \in {"REFERENCE_THIS", "RVALUE_REFERENCE_THIS"}
            THEN WithSubstitution(Give(outside, t.ret))
            ELSE WithSubstitution(Give(inside, q.ret))

d_expression(di) == [d_expression_1([di EXCEPT !.expr = TRUE]) EXCEPT !.expr = di.expr]

ArrayBound(di) ==
    LET k == Run(di, Digits) IN
    CASE Peek(di) = "_" -> Fail(di)
      [] k > 0 -> d_make_name(Advance(di, k), Slice(di, k))
      [] OTHER -> d_expression(di)
d_array_type(di) ==
    LET bound == ArrayBound(Advance(di, 1))
        type == d_type(Advance(bound, 1))
    IN IF (bound.ret = NULL /\ PeekNext(di) # "_") \/ Peek(bound) # "_" THEN Fail(bound)
       ELSE Paired(type, "ARRAY_TYPE", bound.ret)

d_vector_type(di) ==
    LET size == IF Peek(di) = "_" THEN d_expression(Advance(di, 1)) ELSE d_number_component(di)
        type == d_type(Advance(size, 1))
    IN IF size.ret = NULL \/ Peek(size) # "_" THEN Fail(size)
       ELSE Paired(type, "VECTOR_TYPE", size.ret)

d_pointer_to_member_type(di) ==
    LET class == d_type(Advance(di, 1))
        member == d_type(class)
    IN IF class.ret = NULL THEN class
       ELSE IF member.ret = NULL THEN member
       ELSE Paired(member, "PTRMEM_TYPE", class.ret)

(* In a conversion the arguments belong to the operator unless more follow;
   then everything but the last name is as it was. *)
d_checkpoint(p, args) ==
    [args EXCEPT !.n = p.n, !.ret = p.ret, !.comps = SubSeq(@, 1, Len(p.comps)),
                 !.subs = SubSeq(@, 1, Len(p.subs))]
TemplateParamType(di) ==
    LET p == d_template_param(di)
        args == d_template_args(p)
        added == d_add_substitution(args, p.ret)
        template == d_make_comp(added, "TEMPLATE", p.ret, args.ret)
    IN WithSubstitution(
        IF Peek(p) # "I" \/ ~p.conv THEN Templated(p, TRUE)
        ELSE IF Peek(args) # "I" THEN d_checkpoint(p, args)
        ELSE IF added.ret = NULL THEN added ELSE template)

(* A whole type that was substituted is not a new candidate. *)
SubstitutedType(di) ==
    LET sub == d_substitution(di, FALSE)
        name == d_name(di)
    IN IF PeekNext(di) \in Digits \cup Uppers \cup {"_"}
       THEN IF Peek(sub) = "I" THEN WithSubstitution(Templated(sub, FALSE)) ELSE sub
       ELSE IF TypeOf(name, name.ret) = "SUB_STD" THEN name ELSE WithSubstitution(name)

FixedType(di) ==
    LET accum == Peek(di) \in Digits
        p == d_make_empty(di, Node("FIXED_TYPE", NULL, NULL, <<FALSE, FALSE>>))
        length == d_type(IF accum THEN d_number(p) ELSE p)
        d == d_number(length)
    IN IF p.ret = NULL THEN [p EXCEPT !.fault = TRUE]
       ELSE IF length.ret = NULL THEN length
       ELSE [Give(d_next_char(d), p.ret) EXCEPT
                !.comps[p.ret].left = length.ret, !.comps[p.ret].x = <<accum, Peek(d) = "s">>]
DType(di) ==
    LET d == d_next_char(Advance(di, 1))
        c == PeekNext(di)
        decltype == Of("DECLTYPE", d_expression(d))
    IN CASE c \in {"T", "t"} ->
              IF decltype.ret = NULL THEN decltype
              ELSE LET e == d_next_char(decltype) IN
                   IF Peek(decltype) # "E" THEN Fail(e) ELSE WithSubstitution(e)
         [] c = "p" -> WithSubstitution(Of("PACK_EXPANSION", d_type(d)))
         [] c = "v" -> WithSubstitution(d_vector_type(d))
         [] c = "a" -> d_make_name(d, <<"auto">>)
         [] c = "F" -> FixedType(d)
         [] c \in DOMAIN ExtendedBuiltins -> d_make_builtin_type(d, ExtendedBuiltins[c])
         [] OTHER -> Fail(d)

OneOf == [O |-> "RVALUE_REFERENCE", P |-> "POINTER", R |-> "REFERENCE", C |-> "COMPLEX",
          G |-> "IMAGINARY"]
VendorType(di) == Of("VENDOR_TYPE", d_source_name(Advance(di, 1)))
VendorQualified(di) ==
    LET name == d_source_name(Advance(di, 1))
        type == d_type(name)
    IN d_make_comp(type, "VENDOR_TYPE_QUAL", type.ret, name.ret)

AnyType(di) ==
    LET c == Peek(di) IN
    CASE c \in DOMAIN QualifierOf -> QualifiedType(di)
      [] c \in DOMAIN Builtins -> Advance(d_make_builtin_type(di, Builtins[c]), 1)
      [] c = "u" -> WithSubstitution(VendorType(di))
      [] c = "F" -> WithSubstitution(d_function_type(di))
      [] c \in Digits \cup {"N", "Z"} -> WithSubstitution(d_name(di))
      [] c = "A" -> WithSubstitution(d_array_type(di))
      [] c = "M" -> WithSubstitution(d_pointer_to_member_type(di))
      [] c = "T" -> TemplateParamType(di)
      [] c = "S" -> SubstitutedType(di)
      [] c \in DOMAIN OneOf -> WithSubstitution(Of(OneOf[c], d_type(Advance(di, 1))))
      [] c = "U" -> WithSubstitution(VendorQualified(di))
      [] c = "D" -> DType(di)
      [] OTHER -> Fail(di)

-------------------------------------------------------------------------------
(* Template arguments and expressions. *)

LiteralOf(type) ==
    LET negative == Peek(type) = "n"
        d == IF negative THEN Advance(type, 1) ELSE type
        k == CHOOSE i \in 0 .. Len(d.s) - d.n + 1 :
                /\ \A j \in 0 .. i - 1 : d.s[d.n + j] # "E"
                /\ d.n + i <= Len(d.s) => d.s[d.n + i] = "E"
        At(e) == IF Peek(e) = END THEN Fail(e)
                 ELSE Expect(Paired(d_make_name(e, Slice(d, k)),
                                    IF negative THEN "LITERAL_NEG" ELSE "LITERAL", type.ret), "E")
    IN IF type.ret = NULL THEN type ELSE At(Advance(d, k))
d_expr_primary(di) ==
    IF PeekNext(di) \in {"_", "Z"}
    THEN Expect(cplus_demangle_mangled_name(Advance(di, 1), FALSE), "E")
    ELSE LiteralOf(d_type(Advance(di, 1)))

d_template_arg(di) ==
    CASE Peek(di) = "X" -> Expect(d_expression(Advance(di, 1)), "E")
      [] Peek(di) = "L" -> d_expr_primary(di)
      [] Peek(di) \in {"I", "J"} -> d_template_args(di)
      [] OTHER -> d_type(di)
TemplateArguments(di, first, last) ==
    LET More(next) == IF next.ret = NULL THEN next
                      ELSE IF Peek(next) = "E" THEN Advance(next, 1)
                      ELSE TemplateArguments(next, next.ret, next.num)
        Given(a) == IF a.ret = NULL THEN a ELSE More(Appended(a, "TEMPLATE_ARGLIST", first, last))
    IN Given(d_template_arg(di))
(* The last name of the arguments is not that of a ctor behind them. *)
TemplateArgs(di) ==
    LET d == Advance(di, 1)
        Restored(args) == IF args.ret = NULL THEN args ELSE [args EXCEPT !.last = di.last]
    IN IF Peek(di) \notin {"I", "J"} THEN Fail(di)
       ELSE IF Peek(d) = "E" THEN d_make_comp(Advance(d, 1), "TEMPLATE_ARGLIST", NULL, NULL)
       ELSE Restored(TemplateArguments(d, NULL, NULL))

d_exprlist(di, terminator, first, last) ==
    LET More(next) == IF next.ret = NULL THEN next
                      ELSE IF Peek(next) = terminator THEN Advance(next, 1)
                      ELSE d_exprlist(next, terminator, next.ret, next.num)
        Given(arg) == IF arg.ret = NULL THEN arg ELSE More(Appended(arg, "ARGLIST", first, last))
    IN IF first = NULL /\ Peek(di) = terminator
       THEN d_make_comp(Advance(di, 1), "ARGLIST", NULL, NULL)
       ELSE Given(d_expression(di))
Expressions(di, terminator) == d_exprlist(di, terminator, NULL, NULL)

FunctionParam(di) ==
    LET d == d_compact_number(di) IN
    IF Peek(di) = "T" THEN d_make_number(Advance(di, 1), "FUNCTION_PARAM", NULL, 0)
    ELSE IF d.num + 1 = 0 THEN Fail(d) ELSE d_make_number(d, "FUNCTION_PARAM", NULL, d.num + 1)
(* The type is read before tl is passed. *)
InitializerList(di) ==
    LET type == IF Peek(di) = "t" THEN d_type(di) ELSE Fail(di)
        list == Expressions(Advance(type, 2), "E")
    IN Paired(list, "INITIALIZER_LIST", type.ret)
ScopedName(di) ==
    LET type == d_type(di)
        name == Templated(d_unqualified_name(type), FALSE)
    IN Paired(name, "QUAL_NAME", type.ret)
FunctionId(di) ==
    LET name == d_unqualified_name(IF Peek(di) = "o" THEN Advance(di, 2) ELSE di) IN
    IF name.ret = NULL THEN name ELSE Templated(name, FALSE)

op_is_new_cast(code) == code \in {"sc", "dc", "cc", "rc"}
Unary(op, code) ==
    LET suffix == code \in {"pp", "mm"} /\ Peek(op) # "_"
        d == IF code \in {"pp", "mm"} /\ Peek(op) = "_" THEN Advance(op, 1) ELSE op
        Whole(right) == Paired(right, "UNARY", op.ret)
        Suffix(operand) == Whole(Paired(operand, "BINARY_ARGS", operand.ret))
    IN CASE suffix -> Suffix(d_expression_1(d))
         [] ~suffix /\ TypeOf(op, op.ret) = "CAST" /\ Peek(d) = "_" ->
              Whole(Expressions(Advance(d, 1), "E"))
         [] OTHER -> Whole(d_expression_1(d))
BinaryOf(op, code, left) ==
    LET right == CASE code = "cl" -> Expressions(left, "E")
                   [] code \in {"dt", "pt"} -> Templated(d_unqualified_name(left), FALSE)
                   [] OTHER -> d_expression_1(left)
    IN Paired(Paired(right, "BINARY_ARGS", left.ret), "BINARY", op.ret)
Binary(op, code) ==
    BinaryOf(op, code, IF op_is_new_cast(code) THEN d_type(op) ELSE d_expression_1(op))
Three(op, first, second, d) ==
    Paired(Paired(Paired(d, "TRINARY_ARG2", second), "TRINARY_ARG1", first), "TRINARY", op.ret)
Conditional(op) ==
    LET first == d_expression_1(op)
        second == d_expression_1(first)
    IN Three(op, first.ret, second.ret, d_expression_1(second))
New(op) ==
    LET NewOf(first, type) ==
            CASE Peek(type) = "E" -> Three(op, first, type.ret, Fail(Advance(type, 1)))
              [] Peek(type) = "p" /\ PeekNext(type) = "i" ->
                    Three(op, first, type.ret, Expressions(Advance(type, 2), "E"))
              [] Peek(type) = "i" /\ PeekNext(type) = "l" ->
                    Three(op, first, type.ret, d_expression_1(type))
              [] OTHER -> Fail(type)
        Typed(first) == NewOf(first.ret, d_type(first))
    IN Typed(Expressions(op, "_"))
Trinary(op, code) == IF code = "qu" THEN Conditional(op) ELSE New(op)

Operated(op) ==
    LET kind == TypeOf(op, op.ret)
        code == IF kind = "OPERATOR" THEN op.comps[op.ret].x[1] ELSE ""
        operands == CASE kind = "OPERATOR" -> Operators[code].operands
                      [] kind = "EXTENDED_OPERATOR" -> op.comps[op.ret].x[1]
                      [] kind = "CAST" -> 1
                      [] OTHER -> -1
        type == d_type(op)
    IN CASE op.ret = NULL -> op
         [] op.ret # NULL /\ code = "st" -> Paired(type, "UNARY", op.ret)
         [] operands = 0 -> Of("NULLARY", op)
         [] operands = 1 /\ code # "st" -> Unary(op, code)
         [] operands = 2 -> IF code = "" THEN [Fail(op) EXCEPT !.fault = TRUE] ELSE Binary(op, code)
         [] operands = 3 -> IF code = "" THEN [Fail(op) EXCEPT !.fault = TRUE] ELSE Trinary(op, code)
         [] OTHER -> Fail(op)
Operation(di) == Operated(d_operator_name(di))

Expression_1(di) ==
    LET two == <<Peek(di), PeekNext(di)>> IN
    CASE two[1] = "L" -> d_expr_primary(di)
      [] two[1] = "T" -> d_template_param(di)
      [] two = <<"s", "r">> -> ScopedName(Advance(di, 2))
      [] two = <<"s", "p">> -> Of("PACK_EXPANSION", d_expression_1(Advance(di, 2)))
      [] two = <<"f", "p">> -> FunctionParam(Advance(di, 2))
      [] two[1] \in Digits \/ two = <<"o", "n">> -> FunctionId(di)
      [] two \in {<<"i", "l">>, <<"t", "l">>} -> InitializerList(di)
      [] OTHER -> Operation(di)

-------------------------------------------------------------------------------
(* A whole name: what is parsed and whether nothing is left of it. *)

Global == <<"_", "G", "L", "O", "B", "A", "L", "_">>
IsGlobal(s) ==
    /\ Len(s) > 10 /\ SubSeq(s, 1, 8) = Global
    /\ s[9] \in {".", "_", "$"} /\ s[10] \in {"D", "I"} /\ s[11] = "_"
(* The rest is a mangled name or shown as it is. *)
KeyedTo(di, type) ==
    LET key == Advance(di, 11)
        mangled == Peek(key) = "_" /\ PeekNext(key) = "Z"
        rest == IF mangled THEN cplus_demangle_mangled_name(key, FALSE)
                ELSE d_make_name(key, SubSeq(di.s, 12, Len(di.s)))
    IN [Of(type, rest) EXCEPT !.n = Len(di.s) + 1]
WholeName(di) ==
    CASE Peek(di) = "_" /\ PeekNext(di) = "Z" -> cplus_demangle_mangled_name(di, TRUE)
      [] IsGlobal(di.s) -> KeyedTo(di, IF di.s[10] = "I" THEN "GLOBAL_CONSTRUCTORS"
                                                       ELSE "GLOBAL_DESTRUCTORS")
      [] OTHER -> d_type(di)
Ended(d) == IF Peek(d) = END THEN d ELSE Fail(d)
d_demangle_callback(s) == Ended(Parse("d_demangle_callback", cplus_demangle_init_info(s)))

Parse(production, di) ==
    CASE production = "d_demangle_callback" -> WholeName(di)
      [] production = "d_encoding" -> Encoding(di)
      [] production = "d_name" -> AnyName(di)
      [] production = "d_unqualified_name" -> UnqualifiedName(di)
      [] production = "d_type" -> AnyType(di)
      [] production = "d_template_args" -> TemplateArgs(di)
      [] production = "d_expression_1" -> Expression_1(di)
===============================================================================
