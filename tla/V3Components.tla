------------------------------ MODULE V3Components ------------------------------
(***************************************************************************)
(* libiberty's demangler of the V3 ABI (cp-demangle.c), the part without   *)
(* recursion: struct d_info, the components it makes, numbers, identifiers *)
(* and substitutions.  A mangled name is a sequence of characters.  Every  *)
(* operator takes a d_info and returns the one behind the call, with what  *)
(* the call returns in ret, a component, or in num, a number; NULL is what *)
(* a failed call returns and, as in the code, no reason to stop at once.   *)
(* A component is a place in comps, so that two names of it are one.       *)
(* Options are those of demangle(): parameters and types, not Java.        *)
(***************************************************************************)
EXTENDS Integers, Sequences, FiniteSets, SequencesExt

NULL == 0
END == "NUL"

Digits == {"0", "1", "2", "3", "4", "5", "6", "7", "8", "9"}
Uppers == {"A", "B", "C", "D", "E", "F", "G", "H", "I", "J", "K", "L", "M",
           "N", "O", "P", "Q", "R", "S", "T", "U", "V", "W", "X", "Y", "Z"}
Lowers == {"a", "b", "c", "d", "e", "f", "g", "h", "i", "j", "k", "l", "m",
           "n", "o", "p", "q", "r", "s", "t", "u", "v", "w", "x", "y", "z"}
Values == <<"0", "1", "2", "3", "4", "5", "6", "7", "8", "9",
            "A", "B", "C", "D", "E", "F", "G", "H", "I", "J", "K", "L", "M",
            "N", "O", "P", "Q", "R", "S", "T", "U", "V", "W", "X", "Y", "Z">>
ValueOf == [c \in Digits \cup Uppers |-> (CHOOSE i \in 1 .. 36 : Values[i] = c) - 1]

(* The character that stands for the prefix of an anonymous namespace. *)
ANONYMOUS == "@"

(* conv and expr are is_conversion and is_expression; full: the room for
   components or substitutions did not do; fault: a component that is not
   there was used. *)
cplus_demangle_init_info(s) ==
    [s |-> s, n |-> 1, comps |-> <<>>, subs |-> <<>>, last |-> NULL, ret |-> NULL,
     num |-> 0, conv |-> FALSE, expr |-> FALSE, full |-> FALSE, fault |-> FALSE]
num_compsOnce(di) == Len(di.s)  \* mutant
num_comps(di) == 2 * Len(di.s)
num_subs(di) == Len(di.s)

Peek(di) == IF di.n <= Len(di.s) THEN di.s[di.n] ELSE END
PeekNext(di) == IF di.n + 1 <= Len(di.s) THEN di.s[di.n + 1] ELSE END
(* Behind the end of the name nothing may be read. *)
Advance(di, k) == [di EXCEPT !.n = @ + k, !.fault = @ \/ di.n + k > Len(di.s) + 1]
d_next_charBlindly(di) == Advance(di, 1)  \* mutant
d_next_char(di) == IF Peek(di) = END THEN di ELSE Advance(di, 1)
Give(di, c) == [di EXCEPT !.ret = c]
Fail(di) == Give(di, NULL)
Number(di, v) == [di EXCEPT !.num = v]
(* How many of the next characters are of S. *)
Run(di, S) == CHOOSE k \in 0 .. Len(di.s) - di.n + 1 :
    /\ \A i \in 0 .. k - 1 : di.s[di.n + i] \in S
    /\ di.n + k <= Len(di.s) => di.s[di.n + k] \notin S
Slice(di, k) == SubSeq(di.s, di.n, di.n + k - 1)

TypeOf(di, c) == IF c = NULL THEN "NULL" ELSE di.comps[c].type
Left(di, c) == di.comps[c].left
Right(di, c) == di.comps[c].right
SetLeft(di, c, l) == [di EXCEPT !.comps[c].left = l]
SetRight(di, c, r) == [di EXCEPT !.comps[c].right = r]

-------------------------------------------------------------------------------
(* Components. *)

NoRoom(di) == [Fail(di) EXCEPT !.full = TRUE]
d_make_empty(di, node) ==
    IF Len(di.comps) >= num_comps(di) THEN NoRoom(di)
    ELSE [di EXCEPT !.comps = Append(@, node), !.ret = Len(di.comps) + 1]
Node(type, left, right, x) == [type |-> type, left |-> left, right |-> right, x |-> x]

This == {"RESTRICT_THIS", "VOLATILE_THIS", "CONST_THIS", "REFERENCE_THIS", "RVALUE_REFERENCE_THIS"}
NeedsBoth ==
    {"QUAL_NAME", "LOCAL_NAME", "TYPED_NAME", "TAGGED_NAME", "TEMPLATE", "CONSTRUCTION_VTABLE",
     "VENDOR_TYPE_QUAL", "PTRMEM_TYPE", "UNARY", "BINARY", "BINARY_ARGS", "TRINARY",
     "TRINARY_ARG1", "LITERAL", "LITERAL_NEG", "COMPOUND_NAME", "VECTOR_TYPE", "CLONE"}
NeedsRight == {"ARRAY_TYPE", "INITIALIZER_LIST"}
NeedsNone == {"FUNCTION_TYPE", "RESTRICT", "VOLATILE", "CONST", "ARGLIST", "TEMPLATE_ARGLIST"} \cup This
d_make_comp(di, type, left, right) ==
    IF \/ type \in NeedsBoth /\ (left = NULL \/ right = NULL)
       \/ type \in NeedsRight /\ right = NULL
       \/ type \notin NeedsBoth \cup NeedsRight \cup NeedsNone /\ left = NULL
    THEN Fail(di) ELSE d_make_empty(di, Node(type, left, right, <<>>))

(* A component that turns out to be empty is taken all the same. *)
OnlyIf(ok, di) == IF ok THEN di ELSE Fail(di)
d_make_name(di, s) == OnlyIf(s # <<>>, d_make_empty(di, Node("NAME", NULL, NULL, s)))
d_make_character(di, c) == d_make_empty(di, Node("CHARACTER", NULL, NULL, <<c>>))
d_make_number(di, type, sub, v) == d_make_empty(di, Node(type, sub, NULL, <<v>>))
d_make_sub(di, name) == d_make_empty(di, Node("SUB_STD", NULL, NULL, name))
d_make_operator(di, code) == d_make_empty(di, Node("OPERATOR", NULL, NULL, <<code>>))
d_make_extended_operator(di, args, name) ==
    OnlyIf(name # NULL, d_make_number(di, "EXTENDED_OPERATOR", name, args))
d_make_ctor(di, name) == OnlyIf(name # NULL, d_make_empty(di, Node("CTOR", name, NULL, <<>>)))
d_make_dtor(di, name) == OnlyIf(name # NULL, d_make_empty(di, Node("DTOR", name, NULL, <<>>)))
(* The component of a builtin type is used at once. *)
d_make_builtin_type(di, name) ==
    LET d == d_make_empty(di, Node("BUILTIN_TYPE", NULL, NULL, <<name>>)) IN
    IF d.ret = NULL THEN [d EXCEPT !.fault = TRUE] ELSE d

-------------------------------------------------------------------------------
(* Numbers and identifiers. *)

NumberIn(base, digits) ==
    LET value[k \in 0 .. Len(digits)] ==
            IF k = 0 THEN 0 ELSE base * value[k - 1] + ValueOf[digits[k]]
    IN  value[Len(digits)]
DigitsRead(di, sign) ==
    LET k == Run(di, Digits) IN Number(Advance(di, k), sign * NumberIn(10, Slice(di, k)))
d_number(di) ==
    IF Peek(di) = "n" THEN DigitsRead(Advance(di, 1), -1) ELSE DigitsRead(di, 1)

Plus(d, v) == Number(d, d.num + v)
Underscored(d) == IF Peek(d) = "_" THEN Advance(d, 1) ELSE Number(d, -1)
d_compact_number(di) ==
    CASE Peek(di) = "n" -> Number(di, -1)
      [] Peek(di) = "_" -> Underscored(Number(di, 0))
      [] OTHER -> Underscored(Plus(d_number(di), 1))

NumberOf(d) == d_make_number(d, "NUMBER", NULL, d.num)
d_number_component(di) ==
    IF Len(di.comps) >= num_comps(di) THEN NoRoom(di) ELSE NumberOf(d_number(di))

d_identifier(di, len) ==
    IF Len(di.s) - di.n + 1 < len THEN Fail(di)
    ELSE d_make_name(Advance(di, len),
            IF Peek(di) = ANONYMOUS THEN <<"(anonymous namespace)">> ELSE Slice(di, len))

LastName(d) == [d EXCEPT !.last = d.ret]
Identifier(l) == IF l.num <= 0 THEN Fail(l) ELSE LastName(d_identifier(l, l.num))
d_source_name(di) == Identifier(d_number(di))

(* Whether the number behind an underscore is one. *)
NotNegative(d) == Number(d, IF d.num < 0 THEN 0 ELSE 1)
d_discriminator(di) ==
    IF Peek(di) # "_" THEN Number(di, 1)
    ELSE NotNegative(d_number(Advance(di, 1)))

OffsetEnds(d) == IF Peek(d) = "_" THEN Number(Advance(d, 1), 1) ELSE Number(d, 0)
SecondOffset(d) == IF Peek(d) = "_" THEN OffsetEnds(d_number(Advance(d, 1))) ELSE Number(d, 0)
d_call_offset(di, kind) ==
    LET c == IF kind = END THEN Peek(di) ELSE kind
        d == IF kind = END THEN d_next_char(di) ELSE di
    IN CASE c = "h" -> OffsetEnds(d_number(d))
         [] c = "v" -> SecondOffset(d_number(d))
         [] OTHER -> Number(d, 0)

ParamOf(d) == IF d.num < 0 THEN Fail(d) ELSE d_make_number(d, "TEMPLATE_PARAM", NULL, d.num)
d_template_param(di) ==
    IF Peek(di) = "T" THEN ParamOf(d_compact_number(Advance(di, 1))) ELSE Fail(di)

(* A ctor or dtor is called as the last name that was read. *)
d_ctor_dtor_name(di) ==
    CASE Peek(di) = "C" /\ PeekNext(di) \in {"1", "2", "3", "4", "5"} ->
            d_make_ctor(Advance(di, 2), di.last)
      [] Peek(di) = "D" /\ PeekNext(di) \in {"0", "1", "2", "4", "5"} ->
            d_make_dtor(Advance(di, 2), di.last)
      [] OTHER -> Fail(di)

RECURSIVE d_abi_tags(_, _)
d_abi_tags(di, c) ==
    IF Peek(di) # "B" THEN Give(di, c)
    ELSE LET tag == d_source_name(Advance(di, 1))
             d == d_make_comp(tag, "TAGGED_NAME", c, tag.ret)
         IN d_abi_tags(d, d.ret)

(* .name and numbers behind the encoding. *)
d_clone_suffix(di, encoding) ==
    LET Letters == Lowers \cup {"_"}
        named == IF Peek(di) = "." /\ PeekNext(di) \in Letters
                 THEN LET d == Advance(di, 2) IN Advance(d, Run(d, Letters)) ELSE di
        Numbered[k \in 0 .. Len(di.s)] ==
            LET d == IF k = 0 THEN named ELSE Numbered[k - 1]
                e == Advance(d, 2)
            IN IF Peek(d) = "." /\ PeekNext(d) \in Digits
               THEN Advance(e, Run(e, Digits)) ELSE d
        d == Numbered[Len(di.s)]
        name == d_make_name(d, Slice(di, d.n - di.n))
    IN d_make_comp(name, "CLONE", encoding, name.ret)

-------------------------------------------------------------------------------
(* Qualifiers. *)

QualifierOf == [r |-> "RESTRICT", V |-> "VOLATILE", K |-> "CONST"]
ThisOf == [r |-> "RESTRICT_THIS", V |-> "VOLATILE_THIS", K |-> "CONST_THIS"]
(* The first qualifier in ret and the last one, which has no left yet, in num.
   In front of a function type they belong to its this. *)
d_cv_qualifiers(di, member_fn) ==
    LET k == Run(di, DOMAIN QualifierOf)
        d == Advance(di, k)
        this == member_fn \/ Peek(d) = "F"
        At(i) == di.s[di.n + i - 1]
        first == Len(di.comps)
    IN IF first + k > num_comps(di) THEN Number(NoRoom(d), NULL)
       ELSE [d EXCEPT
          !.comps = @ \o [i \in 1 .. k |->
              Node(IF this THEN ThisOf[At(i)] ELSE QualifierOf[At(i)],
                   IF i < k THEN first + i + 1 ELSE NULL, NULL, <<>>)],
          !.ret = IF k = 0 THEN NULL ELSE first + 1,
          !.num = IF k = 0 THEN NULL ELSE first + k]

d_ref_qualifier(di, sub) ==
    IF Peek(di) \in {"R", "O"}
    THEN d_make_comp(Advance(di, 1),
            IF Peek(di) = "R" THEN "REFERENCE_THIS" ELSE "RVALUE_REFERENCE_THIS", sub, NULL)
    ELSE Give(di, sub)

-------------------------------------------------------------------------------
(* Substitutions. *)

d_add_substitution(di, c) ==
    IF c = NULL THEN Fail(di)
    ELSE IF Len(di.subs) >= num_subs(di) THEN NoRoom(di)
    ELSE [di EXCEPT !.subs = Append(@, c), !.ret = c]

Std == <<"std", "::">>
(* What is shown, in full where a ctor or dtor follows, and the last name. *)
standard_subs ==
    LET Traits == <<"char", ",", " ", "std", "::", "char_traits", "<", "char", ">">>
        Alloc == <<",", " ", "std", "::", "allocator", "<", "char", ">">>
        Full(name, alloc) == Std \o <<name, "<">> \o Traits \o alloc \o <<" ", ">">>
        Sub(simple, full, last) == [simple |-> simple, full |-> full, last |-> last]
        Same(name) == Sub(Std \o <<name>>, Std \o <<name>>, <<name>>)
    IN [t |-> Sub(<<"std">>, <<"std">>, <<>>),
        a |-> Same("allocator"),
        b |-> Same("basic_string"),
        s |-> Sub(Std \o <<"string">>, Full("basic_string", Alloc), <<"basic_string">>),
        i |-> Sub(Std \o <<"istream">>, Full("basic_istream", <<>>), <<"basic_istream">>),
        o |-> Sub(Std \o <<"ostream">>, Full("basic_ostream", <<>>), <<"basic_ostream">>),
        d |-> Sub(Std \o <<"iostream">>, Full("basic_iostream", <<>>), <<"basic_iostream">>)]

(* S_ is the first one added and S0_ the second. *)
SequenceIdFromZero(di) ==  \* mutant
    LET k == Run(di, Digits \cup Uppers)
        d == Advance(di, k)
        id == NumberIn(36, Slice(di, k))
        e == d_next_char(d)
    IN IF Peek(d) # "_" \/ id >= Len(di.subs) THEN Fail(e) ELSE Give(e, di.subs[id + 1])
SequenceId(di) ==
    LET k == Run(di, Digits \cup Uppers)
        d == Advance(di, k)
        value == NumberIn(36, Slice(di, k))
        id == IF k = 0 THEN 0 ELSE value + 1
        e == d_next_char(d)
    IN IF Peek(d) # "_" \/ id >= Len(di.subs) THEN Fail(e) ELSE Give(e, di.subs[id + 1])

d_substitution(di, prefix) ==
    LET c == PeekNext(di)
        d == d_next_char(Advance(di, 1))
        sub == standard_subs[c]
        l == d_make_sub(d, sub.last)
        e == IF sub.last = <<>> THEN d ELSE [l EXCEPT !.last = l.ret]
    IN IF Peek(di) # "S" THEN Fail(di)
       ELSE IF c \in Digits \cup Uppers \cup {"_"} THEN SequenceId(Advance(di, 1))
       ELSE IF c \notin DOMAIN standard_subs THEN Fail(d)
       ELSE d_make_sub(e, IF prefix /\ Peek(d) \in {"C", "D"} THEN sub.full ELSE sub.simple)

-------------------------------------------------------------------------------
(* Names that have a return type. *)

RECURSIVE is_ctor_dtor_or_conversion(_, _)
is_ctor_dtor_or_conversion(di, c) ==
    CASE TypeOf(di, c) \in {"QUAL_NAME", "LOCAL_NAME"} ->
            is_ctor_dtor_or_conversion(di, Right(di, c))
      [] OTHER -> TypeOf(di, c) \in {"CTOR", "DTOR", "CAST"}

RECURSIVE has_return_type(_, _)
has_return_type(di, c) ==
    CASE TypeOf(di, c) = "TEMPLATE" -> ~is_ctor_dtor_or_conversion(di, Left(di, c))
      [] TypeOf(di, c) \in This -> has_return_type(di, Left(di, c))
      [] OTHER -> FALSE
===============================================================================
