------------------------------- MODULE V3Printer -------------------------------
(***************************************************************************)
(* The other half of libiberty's V3 demangler (cp-demangle.c): d_print_comp*)
(* and what it calls, which spell a tree of components as C++.  A          *)
(* declarator is written inside out: on the way down to the innermost type *)
(* what has been passed waits in a list of modifiers, and whoever can      *)
(* place it marks it printed, for those above to see.  d_print_mod is a    *)
(* cell of mods, a heap, so that the mark is shared; a list is the index   *)
(* of its first cell.  templates lists the templates whose arguments the   *)
(* parameters stand for, the innermost first.                              *)
(***************************************************************************)
EXTENDS V3Parser, TLC

(* Calls of d_print_comp within one another; a tree that goes round has no
   end, and the program no stack for it. *)
MaxDepth == 30

(* Every number is printed as it is written in C. *)
NumberText(v) == <<ToString(v)>>

(* How many templates occur on the way through the tree, references to a
   template parameter, and types of which more is read than their parts. *)
RECURSIVE d_count_templates_scopes(_, _)
d_count_templates_scopes(di, c) ==
    LET l == d_count_templates_scopes(di, Left(di, c))
        r == d_count_templates_scopes(di, Right(di, c))
        type == TypeOf(di, c)
        own == CASE type = "TEMPLATE" -> <<1, 0, 0>>
                 [] type \in {"REFERENCE", "RVALUE_REFERENCE"} ->
                        <<0, IF TypeOf(di, Left(di, c)) = "TEMPLATE_PARAM" THEN 1 ELSE 0, 0>>
                 [] type = "FIXED_TYPE" -> <<0, 0, 1>>
                 [] OTHER -> <<0, 0, 0>>
    IN IF c = NULL THEN <<0, 0, 0>> ELSE [i \in 1 .. 3 |-> own[i] + l[i] + r[i]]

d_print_init(di, c) ==
    LET count == d_count_templates_scopes(di, c) IN
    [di |-> di, out |-> <<>>, last_char |-> "", mods |-> <<>>, modifiers |-> NULL,
     templates |-> <<>>, current_template |-> NULL, pack_index |-> 0,
     saved_scopes |-> <<>>, num_saved_scopes |-> count[2],
     copied |-> 0, num_copy_templates |-> count[1] * count[2],
     failed |-> FALSE, depth |-> 0, full |-> FALSE, fault |-> count[3] > 0]

d_print_error(p) == [p EXCEPT !.failed = TRUE]
d_append_string(p, text) ==
    IF text = <<>> THEN p ELSE [p EXCEPT !.out = @ \o text, !.last_char = text[Len(text)]]
d_append_char(p, c) == d_append_string(p, <<c>>)

Kind(p, c) == TypeOf(p.di, c)
L(p, c) == Left(p.di, c)
R(p, c) == Right(p.di, c)
X(p, c) == p.di.comps[c].x
ModKind(p, m) == Kind(p, p.mods[m].mod)
Templates(p, templates) == [p EXCEPT !.templates = templates]
Modifiers(p, m) == [p EXCEPT !.modifiers = m]
(* c in front of the modifiers. *)
Pushed(p, c) ==
    [p EXCEPT !.mods = Append(@, [mod |-> c, printed |-> FALSE, templates |-> p.templates,
                                  next |-> p.modifiers]),
              !.modifiers = Len(p.mods) + 1]
Printed(p, m) == p.mods[m].printed
Mark(p, m) == [p EXCEPT !.mods[m].printed = TRUE]
(* The modifiers from m on. *)
RECURSIVE Chain(_, _)
Chain(p, m) == IF m = NULL THEN <<>> ELSE <<m>> \o Chain(p, p.mods[m].next)

-------------------------------------------------------------------------------
(* Template arguments. *)

RECURSIVE d_index_template_argument(_, _, _)
d_index_template_argument(di, args, i) ==
    IF TypeOf(di, args) # "TEMPLATE_ARGLIST" THEN NULL
    ELSE IF i <= 0 THEN Left(di, args)
    ELSE d_index_template_argument(di, Right(di, args), i - 1)
d_lookup_template_argument(p, c) ==
    IF p.templates = <<>> THEN NULL
    ELSE d_index_template_argument(p.di, R(p, Head(p.templates)), X(p, c)[1])
(* Of a pack it is the one that is being written. *)
TemplateArgument(p, c) ==
    LET a == d_lookup_template_argument(p, c) IN
    IF Kind(p, a) = "TEMPLATE_ARGLIST" THEN d_index_template_argument(p.di, a, p.pack_index) ELSE a

(* The first pack in c, or GARBAGE: of a number, what is taken for its parts;
   UNRESOLVED where a parameter has no template. *)
GARBAGE == -1
UNRESOLVED == -2
NoPack == {"NULL", "PACK_EXPANSION", "LAMBDA", "NAME", "TAGGED_NAME", "OPERATOR", "BUILTIN_TYPE",
           "SUB_STD", "CHARACTER", "FUNCTION_PARAM", "UNNAMED_TYPE"}
RECURSIVE d_find_pack(_, _)
d_find_pack(p, c) ==
    LET a == d_lookup_template_argument(p, c)
        l == d_find_pack(p, L(p, c))
        r == d_find_pack(p, R(p, c))
    IN CASE Kind(p, c) \in NoPack -> NULL
         [] Kind(p, c) \in {"NUMBER", "DEFAULT_ARG", "FIXED_TYPE"} -> GARBAGE
         [] Kind(p, c) = "TEMPLATE_PARAM" /\ p.templates = <<>> -> UNRESOLVED
         [] Kind(p, c) = "TEMPLATE_PARAM" /\ p.templates # <<>> ->
                IF Kind(p, a) = "TEMPLATE_ARGLIST" THEN a ELSE NULL
         [] Kind(p, c) \in {"EXTENDED_OPERATOR", "CTOR", "DTOR"} -> l
         [] OTHER -> IF l \notin {NULL, UNRESOLVED} \/ r = NULL THEN l ELSE r
RECURSIVE d_pack_length(_, _)
d_pack_length(di, args) ==
    IF TypeOf(di, args) # "TEMPLATE_ARGLIST" \/ Left(di, args) = NULL THEN 0
    ELSE 1 + d_pack_length(di, Right(di, args))

d_save_scope(p, container) ==
    LET copied == p.copied + Len(p.templates) IN
    IF Len(p.saved_scopes) >= p.num_saved_scopes \/ copied > p.num_copy_templates
    THEN [d_print_error(p) EXCEPT !.full = TRUE]
    ELSE [p EXCEPT !.copied = copied,
            !.saved_scopes = Append(@, [container |-> container, templates |-> p.templates])]
d_get_saved_scope(p, container) ==
    SelectInSeq(p.saved_scopes, LAMBDA scope : scope.container = container)

-------------------------------------------------------------------------------
(* Components. *)

RECURSIVE d_print_comp(_, _), d_print_mod(_, _), d_print_mod_list(_, _, _)
RECURSIVE d_print_function_type(_, _, _), d_print_array_type(_, _, _), PrintPack(_, _, _, _)
RECURSIVE PrintUnprinted(_, _), TypedModifiers(_, _, _), LocalModifiers(_, _, _)

Between(p, open, c, close) == d_append_string(d_print_comp(d_append_string(p, open), c), close)
Bracketed(p, open, c, close) == Between(p, <<open>>, c, <<close>>)
Atoms == {"NAME", "QUAL_NAME", "INITIALIZER_LIST", "FUNCTION_PARAM"}
d_print_subexpr(p, c) ==
    IF Kind(p, c) \in Atoms THEN d_print_comp(p, c) ELSE Bracketed(p, "(", c, ")")

QualifierKinds == {"RESTRICT", "VOLATILE", "CONST"}
(* Names. *)
DefaultArg(p, c) ==
    IF Kind(p, c) # "DEFAULT_ARG" THEN p
    ELSE d_append_string(p, <<"{default arg#">> \o NumberText(X(p, c)[1] + 1) \o <<"}", "::">>)
WithoutDefault(p, c) == IF Kind(p, c) = "DEFAULT_ARG" THEN L(p, c) ELSE c
PrintQualName(p, c) ==
    LET q == d_append_string(d_print_comp(p, L(p, c)), <<"::">>) IN
    d_print_comp(DefaultArg(q, R(p, c)), WithoutDefault(p, R(p, c)))

(* The name and the qualifiers of its this, four at the most, go down to the
   type; so do those of a name that is local to a function. *)
TypedModifiers(p, c, i) ==
    IF i >= 4 THEN d_print_error(p)
    ELSE IF Kind(p, c) \in This THEN TypedModifiers(Pushed(p, c), L(p, c), i + 1)
    ELSE Pushed(p, c)
LocalModifiers(p, c, i) ==
    LET m == p.modifiers
        name == [p.mods[m] EXCEPT !.next = m]
        qualifier == [p.mods[m] EXCEPT !.mod = c, !.printed = FALSE, !.templates = p.templates]
    IN IF Kind(p, c) \notin This THEN p
       ELSE IF i >= 4 THEN d_print_error(p)
       ELSE LocalModifiers([p EXCEPT !.mods = Append([@ EXCEPT ![m] = qualifier], name),
                                     !.modifiers = Len(p.mods) + 1], L(p, c), i + 1)
PrintUnprinted(p, cells) ==
    IF cells = <<>> THEN p
    ELSE PrintUnprinted(
        IF Printed(p, Head(cells)) THEN p
        ELSE d_print_mod(d_append_char(p, " "), p.mods[Head(cells)].mod), Tail(cells))
PrintTypedName(p, c) ==
    LET typed == TypedModifiers(Modifiers(p, NULL), L(p, c), 0)
        name == typed.mods[typed.modifiers].mod
        scoped == IF Kind(p, name) = "TEMPLATE" THEN Templates(typed, <<name>> \o p.templates) ELSE typed
        local == IF Kind(p, name) = "LOCAL_NAME"
                 THEN LocalModifiers(typed, WithoutDefault(p, R(p, name)), Len(typed.mods) - Len(p.mods))
                 ELSE scoped
        type == Templates(d_print_comp(local, R(p, c)), p.templates)
        nothing == Kind(p, name) = "LOCAL_NAME" /\ WithoutDefault(p, R(p, name)) = NULL
    IN IF typed.failed THEN typed
       ELSE IF nothing THEN [d_print_error(typed) EXCEPT !.fault = TRUE]
       ELSE IF local.failed THEN local
       ELSE Modifiers(PrintUnprinted(type, Chain(type, local.modifiers)), p.modifiers)

(* <...>, never as <<, and never as >>. *)
PrintTemplateArgumentsClosed(p, args) == Bracketed(p, "<", args, ">")  \* mutant
PrintTemplateArguments(p, args) ==
    LET q == d_print_comp(d_append_string(p,
                IF p.last_char = "<" THEN <<" ", "<">> ELSE <<"<">>), args)
    IN d_append_string(q, IF q.last_char = ">" THEN <<" ", ">">> ELSE <<">">>)
(* A template is written as a name is: no modifier goes into it. *)
PrintTemplate(p, c) ==
    LET q == d_print_comp([p EXCEPT !.current_template = c, !.modifiers = NULL], L(p, c)) IN
    [PrintTemplateArguments(q, R(p, c)) EXCEPT !.modifiers = p.modifiers,
                                           !.current_template = p.current_template]
(* The argument may be a parameter of an outer template. *)
PrintTemplateParam(p, c) ==
    LET a == TemplateArgument(p, c) IN
    IF a = NULL THEN d_print_error(p)
    ELSE Templates(d_print_comp(Templates(p, Tail(p.templates)), a), p.templates)

-------------------------------------------------------------------------------
(* Types. *)

(* c waits while inner is written, and is written behind it if nobody has. *)
PrintModifier(p, c, inner) ==
    LET pushed == Pushed(p, c)
        q == d_print_comp(pushed, inner)
        written == IF Printed(q, pushed.modifiers) THEN q ELSE d_print_mod(q, c)
    IN Modifiers(written, p.modifiers)
(* A qualifier that is waiting already, with none but qualifiers in front of
   it, is written once. *)
Waits(p, c) ==
    LET waiting == SelectSeq(Chain(p, p.modifiers), LAMBDA m : ~Printed(p, m)) IN
    \E i \in DOMAIN waiting :
        /\ \A j \in 1 .. i : ModKind(p, waiting[j]) \in QualifierKinds
        /\ ModKind(p, waiting[i]) = Kind(p, c)
PrintQualified(p, c) ==
    IF Waits(p, c) THEN d_print_comp(p, L(p, c)) ELSE PrintModifier(p, c, L(p, c))
(* & of && is &, and && of && is one.  Where the parameter was met the first
   time, its templates are kept for when it is met again in a substitution. *)
PrintReference(p, c) ==
    LET param == Kind(p, L(p, c)) = "TEMPLATE_PARAM"
        scope == d_get_saved_scope(p, L(p, c))
        at == CASE ~param -> p
                [] param /\ scope = 0 -> d_save_scope(p, L(p, c))
                [] param /\ scope # 0 -> Templates(p, p.saved_scopes[scope].templates)
        sub == IF param THEN TemplateArgument(at, L(p, c)) ELSE L(p, c)
        same == Kind(p, sub) \in {"REFERENCE", Kind(p, c)}
        modifier == IF same THEN sub ELSE c
        inner == IF same \/ Kind(p, sub) = "RVALUE_REFERENCE" THEN L(p, sub) ELSE L(p, c)
    IN IF at.failed \/ sub = NULL THEN d_print_error(at)
       ELSE Templates(PrintModifier(at, modifier, inner), p.templates)

(* A function or an array is a modifier of what it returns or consists of. *)
PrintFunctionType(p, c) ==
    LET pushed == Pushed(p, c)
        returned == Modifiers(d_print_comp(pushed, L(p, c)), p.modifiers)
    IN IF L(p, c) = NULL THEN d_print_function_type(p, c, p.modifiers)
       ELSE IF Printed(returned, pushed.modifiers) THEN returned
       ELSE d_print_function_type(d_append_char(returned, " "), c, p.modifiers)
(* Qualifiers of an array, three at the most, are copied: they qualify its
   elements. *)
PrintArrayType(p, c) ==
    LET chain == Chain(p, p.modifiers)
        other == SelectInSeq(chain, LAMBDA m : ModKind(p, m) \notin QualifierKinds)
        qualifiers == SelectSeq(IF other = 0 THEN chain ELSE SubSeq(chain, 1, other - 1),
                                LAMBDA m : ~Printed(p, m))
        n == Len(qualifiers)
        array == Len(p.mods) + 1
        pushed == Pushed(p, c)
        copies == [k \in 1 .. n |-> [p.mods[qualifiers[k]] EXCEPT !.next = array + k - 1]]
        copied == [pushed EXCEPT
            !.mods = [i \in DOMAIN @ |->
                        [@[i] EXCEPT !.printed = @ \/ \E k \in 1 .. n : qualifiers[k] = i]] \o copies,
            !.modifiers = array + n]
        element == Modifiers(d_print_comp(copied, R(p, c)), p.modifiers)
        Qualified[k \in 0 .. n] ==
            IF k = 0 THEN element
            ELSE LET q == Qualified[k - 1] IN d_print_mod(q, copies[n - k + 1].mod)
    IN IF n > 3 THEN d_print_error(p)
       ELSE IF Printed(element, array) THEN element
       ELSE d_print_array_type(Qualified[n], c, p.modifiers)

PrintFixedType(p, c) ==
    LET sat == IF X(p, c)[2] THEN d_append_string(p, <<"_Sat", " ">>) ELSE p
        int == Kind(p, L(p, c)) = "BUILTIN_TYPE" /\ X(p, L(p, c)) = <<"int">>
        length == IF int THEN sat ELSE d_append_char(d_print_comp(sat, L(p, c)), " ")
    IN d_append_string(length, IF X(p, c)[1] THEN <<"_Accum">> ELSE <<"_Fract">>)

(* The comma of an argument that turns out to be empty is taken away again;
   what is remembered as the last character is not. *)
PrintArguments(p, c) ==
    LET first == IF L(p, c) = NULL THEN p ELSE d_print_comp(p, L(p, c))
        comma == d_append_string(first, <<",", " ">>)
        rest == d_print_comp(comma, R(p, c))
    IN IF R(p, c) = NULL THEN first
       ELSE IF Len(rest.out) = Len(comma.out) THEN [rest EXCEPT !.out = first.out] ELSE rest
(* Once for every argument of the first pack that is found. *)
PrintPack(p, c, i, n) ==
    LET one == d_print_comp([p EXCEPT !.pack_index = i], c) IN
    IF i = n THEN p
    ELSE IF i = n - 1 THEN one ELSE PrintPack(d_append_string(one, <<",", " ">>), c, i + 1, n)
PrintPackExpansion(p, c) ==
    LET pack == d_find_pack(p, L(p, c))
        q == IF pack = UNRESOLVED THEN d_print_error(p) ELSE p
    IN
    IF pack = GARBAGE THEN [d_print_error(p) EXCEPT !.fault = TRUE]
    ELSE IF pack \in {NULL, UNRESOLVED}
    THEN d_append_string(d_print_subexpr(q, L(p, c)), <<".", ".", ".">>)
    ELSE PrintPack(p, L(p, c), 0, d_pack_length(p.di, pack))

d_print_mod(p, c) ==
    LET kind == Kind(p, c)
        Text == [RESTRICT |-> "restrict", RESTRICT_THIS |-> "restrict", VOLATILE |-> "volatile",
                 VOLATILE_THIS |-> "volatile", CONST |-> "const", CONST_THIS |-> "const"]
    IN CASE kind \in DOMAIN Text -> d_append_string(p, <<" ", Text[kind]>>)
         [] kind = "VENDOR_TYPE_QUAL" -> d_print_comp(d_append_char(p, " "), R(p, c))
         [] kind = "POINTER" -> d_append_char(p, "*")
         [] kind = "REFERENCE" -> d_append_char(p, "&")
         [] kind = "RVALUE_REFERENCE" -> d_append_string(p, <<"&", "&">>)
         [] kind = "REFERENCE_THIS" -> d_append_string(p, <<" ", "&">>)
         [] kind = "RVALUE_REFERENCE_THIS" -> d_append_string(p, <<" ", "&", "&">>)
         [] kind = "COMPLEX" -> d_append_string(p, <<"complex", " ">>)
         [] kind = "IMAGINARY" -> d_append_string(p, <<"imaginary", " ">>)
         [] kind = "PTRMEM_TYPE" ->
                Between(p, IF p.last_char = "(" THEN <<>> ELSE <<" ">>, L(p, c), <<"::", "*">>)
         [] kind = "TYPED_NAME" -> d_print_comp(p, L(p, c))
         [] kind = "VECTOR_TYPE" -> Between(p, <<" ", "__vector", "(">>, L(p, c), <<")">>)
         [] OTHER -> d_print_comp(p, c)

(* Those of this wait until the suffix of the function.  A function or array
   writes the rest of the list itself; so does the type behind a local name. *)
RECURSIVE WithoutThis(_, _)
WithoutThis(p, c) == IF Kind(p, c) \in This THEN WithoutThis(p, L(p, c)) ELSE c
PrintLocalName(p, c) ==
    LET function == Modifiers(d_print_comp(Modifiers(p, NULL), L(p, c)), p.modifiers)
        q == DefaultArg(d_append_string(function, <<"::">>), R(p, c))
    IN d_print_comp(q, WithoutThis(p, WithoutDefault(p, R(p, c))))
d_print_mod_list(p, m, suffix) ==
    LET c == p.mods[m].mod
        next == p.mods[m].next
        kind == Kind(p, c)
        q == Templates(Mark(p, m), p.mods[m].templates)
        Back(r) == Templates(r, p.templates)
    IN IF m = NULL \/ p.failed THEN p
       ELSE IF Printed(p, m) \/ (~suffix /\ kind \in This) THEN d_print_mod_list(p, next, suffix)
       ELSE CASE kind = "FUNCTION_TYPE" -> Back(d_print_function_type(q, c, next))
              [] kind = "ARRAY_TYPE" -> Back(d_print_array_type(q, c, next))
              [] kind = "LOCAL_NAME" -> Back(PrintLocalName(q, c))
              [] OTHER -> d_print_mod_list(Back(d_print_mod(q, c)), next, suffix)

(* The modifiers of a function type that are no name go into parentheses. *)
d_print_function_type(p, c, m) ==
    LET Tight == {"POINTER", "REFERENCE", "RVALUE_REFERENCE"}
        Spaced == QualifierKinds \cup {"VENDOR_TYPE_QUAL", "COMPLEX", "IMAGINARY", "PTRMEM_TYPE"}
        chain == Chain(p, m)
        stop == SelectInSeq(chain, LAMBDA i : Printed(p, i) \/ ModKind(p, i) \in Tight \cup Spaced)
        paren == stop # 0 /\ ~Printed(p, chain[stop])
        space == /\ ModKind(p, chain[stop]) \in Spaced \/ p.last_char \notin {"(", "*"}
                 /\ p.last_char # " "
        open == CASE ~paren -> <<>>
                  [] paren /\ space -> <<" ", "(">>
                  [] paren /\ ~space -> <<"(">>
        named == d_print_mod_list(Modifiers(d_append_string(p, open), NULL), m, FALSE)
        closed == d_append_string(named, IF paren THEN <<")", "(">> ELSE <<"(">>)
        args == IF R(p, c) = NULL THEN closed ELSE d_print_comp(closed, R(p, c))
    IN Modifiers(d_print_mod_list(d_append_char(args, ")"), m, TRUE), p.modifiers)
d_print_array_type(p, c, m) ==
    LET chain == Chain(p, m)
        first == SelectInSeq(chain, LAMBDA i : ~Printed(p, i))
        array == first # 0 /\ ModKind(p, chain[first]) = "ARRAY_TYPE"
        paren == first # 0 /\ ~array
        open == IF paren THEN d_append_string(p, <<" ", "(">>) ELSE p
        listed == d_print_mod_list(open, m, FALSE)
        closed == IF paren THEN d_append_char(listed, ")") ELSE listed
        bound == d_append_string(closed, IF array THEN <<"[">> ELSE <<" ", "[">>)
    IN d_append_char(IF L(p, c) = NULL THEN bound ELSE d_print_comp(bound, L(p, c)), "]")

-------------------------------------------------------------------------------
(* Expressions. *)

Code(p, op) == IF Kind(p, op) = "OPERATOR" THEN X(p, op)[1] ELSE ""
d_print_expr_op(p, op) ==
    IF Kind(p, op) = "OPERATOR" THEN d_append_string(p, Operators[Code(p, op)].name)
    ELSE d_print_comp(p, op)
(* operator and a word of its own, or a sign. *)
PrintOperatorName(p, op) ==
    LET name == Operators[Code(p, op)].name
        word == Code(p, op) \in {"at", "az", "cc", "da", "dc", "dl", "li", "na", "nw", "rc", "sc", "st",
                                "sz", "tr", "tw"}
        text == IF name[Len(name)] = " " THEN SubSeq(name, 1, Len(name) - 1) ELSE name
    IN d_append_string(p, <<"operator">> \o (IF word THEN <<" ">> ELSE <<>>) \o text)

(* The type of a cast is written in the scope of the template it belongs to,
   its own template arguments are not. *)
d_print_cast(p, c) ==
    LET scoped == IF p.current_template = NULL THEN p
                  ELSE Templates(p, <<p.current_template>> \o p.templates)
        type == L(p, c)
        template == Kind(p, type) = "TEMPLATE"
        name == d_print_comp(scoped, IF template THEN L(p, type) ELSE type)
    IN IF template THEN PrintTemplateArguments(Templates(name, p.templates), R(p, type))
       ELSE Templates(name, p.templates)

(* Of the address of a member function only the name is written. *)
PrintUnary(p, c) ==
    LET op == L(p, c)
        code == Code(p, op)
        right == R(p, c)
        address == /\ code = "ad" /\ Kind(p, right) = "TYPED_NAME"
                   /\ Kind(p, L(p, right)) = "QUAL_NAME" /\ Kind(p, R(p, right)) = "FUNCTION_TYPE"
        operand == IF address THEN L(p, right) ELSE right
        q == IF Kind(p, op) # "CAST" THEN d_print_expr_op(p, op)
             ELSE d_append_char(d_print_cast(d_append_char(p, "("), op), ")")
    IN CASE code # "" /\ Kind(p, operand) = "BINARY_ARGS" ->
                d_print_expr_op(d_print_subexpr(p, L(p, operand)), op)
         [] ~(code # "" /\ Kind(p, operand) = "BINARY_ARGS") ->
                CASE code = "gs" -> d_print_comp(q, operand)
                  [] code = "st" -> Bracketed(q, "(", operand, ")")
                  [] OTHER -> d_print_subexpr(q, operand)

(* A comparison that ends in > gets parentheses; of a function that is called
   the name is enough. *)
PrintBinary(p, c) ==
    LET op == L(p, c)
        code == Code(p, op)
        left == L(p, R(p, c))
        right == R(p, R(p, c))
        greater == Operators[code].name = <<">">>
        open == IF greater THEN d_append_char(p, "(") ELSE p
        function == code = "cl" /\ Kind(p, left) = "TYPED_NAME"
        first == IF function /\ Kind(p, R(p, left)) # "FUNCTION_TYPE" THEN d_print_error(open)
                 ELSE d_print_subexpr(open, IF function THEN L(p, left) ELSE left)
        second == CASE code = "ix" -> Bracketed(first, "[", right, "]")
                    [] code = "cl" -> d_print_subexpr(first, right)
                    [] OTHER -> d_print_subexpr(d_print_expr_op(first, op), right)
    IN IF Kind(p, R(p, c)) # "BINARY_ARGS" THEN d_print_error(p)
       ELSE IF op_is_new_cast(code)
            THEN Bracketed(Between(d_print_expr_op(p, op), <<"<">>, left, <<">">>), "(", right, ")")
       ELSE IF greater THEN d_append_char(second, ")") ELSE second

PrintTrinary(p, c) ==
    LET op == L(p, c)
        first == L(p, R(p, c))
        second == L(p, R(p, R(p, c)))
        third == R(p, R(p, R(p, c)))
        condition == d_print_subexpr(d_print_expr_op(d_print_subexpr(p, first), op), second)
        new == d_append_string(p, <<"new", " ">>)
        placed == IF L(p, first) = NULL THEN new ELSE d_append_char(d_print_subexpr(new, first), " ")
        type == d_print_comp(placed, second)
    IN CASE Code(p, op) = "qu" -> d_print_subexpr(d_append_string(condition, <<" ", ":", " ">>), third)
         [] OTHER -> IF third = NULL THEN type ELSE d_print_subexpr(type, third)

(* Integers as they are written in C, and the two values of bool. *)
PrintLiteral(p, c) ==
    LET Suffix == [int |-> <<>>] @@ ("unsigned int" :> <<"u">>) @@ ("long" :> <<"l">>)
                    @@ ("unsigned long" :> <<"ul">>) @@ ("long long" :> <<"ll">>)
                    @@ ("unsigned long long" :> <<"ull">>)
        Floats == {"float", "double", "long double", "__float128", "half"}
        type == IF Kind(p, L(p, c)) = "BUILTIN_TYPE" THEN X(p, L(p, c))[1] ELSE ""
        named == Kind(p, R(p, c)) = "NAME"
        Bool == ("0" :> "false") @@ ("1" :> "true")
        bool == /\ type = "bool" /\ named /\ Kind(p, c) = "LITERAL"
                /\ Len(X(p, R(p, c))) = 1 /\ X(p, R(p, c))[1] \in DOMAIN Bool
        minus == IF Kind(p, c) = "LITERAL_NEG" THEN <<"-">> ELSE <<>>
        open == IF type \in Floats THEN <<"[">> ELSE <<>>
        close == IF type \in Floats THEN <<"]">> ELSE <<>>
    IN CASE type \in DOMAIN Suffix /\ named -> Between(p, minus, R(p, c), Suffix[type])
         [] bool -> d_append_string(p, <<Bool[X(p, R(p, c))[1]]>>)
         [] OTHER -> Between(Bracketed(p, "(", L(p, c), ")"), minus \o open, R(p, c), close)

-------------------------------------------------------------------------------
(* What is said of an object that is not in the source: the text in front. *)
ForText ==
    [VTABLE |-> "vtable", VTT |-> "VTT", TYPEINFO |-> "typeinfo",
     TYPEINFO_NAME |-> "typeinfo name", TYPEINFO_FN |-> "typeinfo fn",
     THUNK |-> "non-virtual thunk", VIRTUAL_THUNK |-> "virtual thunk",
     COVARIANT_THUNK |-> "covariant return thunk", JAVA_CLASS |-> "java Class",
     GUARD |-> "guard variable", TLS_INIT |-> "TLS init function",
     TLS_WRAPPER |-> "TLS wrapper function", HIDDEN_ALIAS |-> "hidden alias",
     TRANSACTION_CLONE |-> "transaction clone", NONTRANSACTION_CLONE |-> "non-transaction clone",
     GLOBAL_CONSTRUCTORS |-> "global constructors keyed", GLOBAL_DESTRUCTORS |-> "global destructors keyed"]
ToKinds == {"THUNK", "VIRTUAL_THUNK", "COVARIANT_THUNK", "GLOBAL_CONSTRUCTORS", "GLOBAL_DESTRUCTORS"}
PrintSpecial(p, c) ==
    LET kind == Kind(p, c)
        prefix == <<ForText[kind], " ", IF kind \in ToKinds THEN "to" ELSE "for", " ">>
    IN d_print_comp(d_append_string(p, prefix), L(p, c))
PrintNumbered(p, c) ==
    LET num == X(p, c)[1] IN
    CASE Kind(p, c) = "NUMBER" -> d_append_string(p, NumberText(num))
      [] Kind(p, c) = "FUNCTION_PARAM" ->
            d_append_string(p, IF num = 0 THEN <<"this">>
                               ELSE <<"{parm#">> \o NumberText(num) \o <<"}">>)
      [] Kind(p, c) = "UNNAMED_TYPE" ->
            d_append_string(p, <<"{unnamed type#">> \o NumberText(num + 1) \o <<"}">>)
      [] Kind(p, c) = "LAMBDA" ->
            Between(p, <<"{lambda", "(">>, L(p, c), <<")#">> \o NumberText(num + 1) \o <<"}">>)

Comp(p, c) ==
    LET kind == Kind(p, c) IN
    CASE kind \in {"NAME", "SUB_STD", "BUILTIN_TYPE", "CHARACTER"} -> d_append_string(p, X(p, c))
      [] kind = "TAGGED_NAME" ->
            Between(d_print_comp(p, L(p, c)), <<"[abi:">>, R(p, c), <<"]">>)
      [] kind \in {"QUAL_NAME", "LOCAL_NAME"} -> PrintQualName(p, c)
      [] kind = "TYPED_NAME" -> PrintTypedName(p, c)
      [] kind = "TEMPLATE" -> PrintTemplate(p, c)
      [] kind = "TEMPLATE_PARAM" -> PrintTemplateParam(p, c)
      [] kind \in {"CTOR", "VENDOR_TYPE"} -> d_print_comp(p, L(p, c))
      [] kind = "DTOR" -> d_print_comp(d_append_char(p, "~"), L(p, c))
      [] kind \in DOMAIN ForText -> PrintSpecial(p, c)
      [] kind = "JAVA_RESOURCE" -> Between(p, <<"java resource", " ">>, L(p, c), <<>>)
      [] kind = "COMPOUND_NAME" -> d_print_comp(d_print_comp(p, L(p, c)), R(p, c))
      [] kind = "CONSTRUCTION_VTABLE" ->
            d_print_comp(Between(p, <<"construction vtable", " ", "for", " ">>, L(p, c), <<"-in-">>), R(p, c))
      [] kind = "REFTEMP" ->
            d_print_comp(Between(p, <<"reference temporary", " ", "#">>, R(p, c), <<" ", "for", " ">>), L(p, c))
      [] kind \in QualifierKinds -> PrintQualified(p, c)
      [] kind \in {"REFERENCE", "RVALUE_REFERENCE"} -> PrintReference(p, c)
      [] kind \in This \cup {"VENDOR_TYPE_QUAL", "POINTER", "COMPLEX", "IMAGINARY"} ->
            PrintModifier(p, c, L(p, c))
      [] kind = "FUNCTION_TYPE" -> PrintFunctionType(p, c)
      [] kind = "ARRAY_TYPE" -> PrintArrayType(p, c)
      [] kind \in {"PTRMEM_TYPE", "VECTOR_TYPE"} -> PrintModifier(p, c, R(p, c))
      [] kind = "FIXED_TYPE" -> PrintFixedType(p, c)
      [] kind \in {"ARGLIST", "TEMPLATE_ARGLIST"} -> PrintArguments(p, c)
      [] kind = "INITIALIZER_LIST" ->
            Bracketed(IF L(p, c) = NULL THEN p ELSE d_print_comp(p, L(p, c)), "{", R(p, c), "}")
      [] kind = "OPERATOR" -> PrintOperatorName(p, c)
      [] kind = "EXTENDED_OPERATOR" -> Between(p, <<"operator", " ">>, L(p, c), <<>>)
      [] kind = "CAST" -> d_print_cast(d_append_string(p, <<"operator", " ">>), c)
      [] kind = "NULLARY" -> d_print_expr_op(p, L(p, c))
      [] kind = "UNARY" -> PrintUnary(p, c)
      [] kind = "BINARY" -> PrintBinary(p, c)
      [] kind = "TRINARY" -> PrintTrinary(p, c)
      [] kind \in {"LITERAL", "LITERAL_NEG"} -> PrintLiteral(p, c)
      [] kind \in {"NUMBER", "FUNCTION_PARAM", "UNNAMED_TYPE", "LAMBDA"} -> PrintNumbered(p, c)
      [] kind = "DECLTYPE" -> Between(p, <<"decltype", " ", "(">>, L(p, c), <<")">>)
      [] kind = "PACK_EXPANSION" -> PrintPackExpansion(p, c)
      [] kind = "CLONE" ->
            Between(d_print_comp(p, L(p, c)), <<" ", "[clone", " ">>, R(p, c), <<"]">>)
      [] OTHER -> d_print_error(p)
d_print_comp(p, c) ==
    IF c = NULL THEN d_print_error(p)
    ELSE IF p.failed THEN p
    ELSE IF p.depth >= MaxDepth THEN [d_print_error(p) EXCEPT !.fault = TRUE]
    ELSE [Comp([p EXCEPT !.depth = @ + 1], c) EXCEPT !.depth = p.depth]

cplus_demangle_print(di, c) == d_print_comp(d_print_init(di, c), c)
===============================================================================
