------------------------------- MODULE Demangler -------------------------------
(***************************************************************************)
(* demangle() (utility/demangler.hpp), through which every symbol of an    *)
(* object is shown: cplus_demangle tries the V3 ABI and then the styles of *)
(* older compilers, and if none of them knows the symbol it is tried again *)
(* without its first character, the underscore of Mach-O.  A symbol nobody *)
(* knows is shown as it is.                                                *)
(***************************************************************************)
EXTENDS V3Printer, V3Mangler

CONSTANTS Entities,     \* what the symbols may be the names of
          Others,       \* symbols that name nothing of C++
          OldStyle      \* symbols the styles of older compilers know

VARIABLES entity,       \* whose name it is
          temp,         \* symbol: std::string temp
          tried,        \* whether the first character is gone
          stage,        \* "parse", "print", "old" or "done"
          di,           \* what d_demangle parsed
          printed,      \* and what it printed
          result
vars == <<entity, temp, tried, stage, di, printed, result>>

(* A symbol of the entity, one behind Mach-O's underscore, a clone of it, and
   a constructor of globals that is keyed to it. *)
Clone == <<".", "x", ".", "1">>
Symbols(e) ==
    LET m == Mangled(e) IN
    [plain |-> m, mach_o |-> <<"_">> \o m, clone |-> m \o Clone,
     keyed |-> Global \o <<"_", "I", "_">> \o m]
Form == {"plain", "mach_o", "clone", "keyed"}
(* Functions are cloned, not what is defined in one, nor a resource. *)
Forms(e) == IF e.k \in {"local", "resource"} THEN Form \ {"clone"} ELSE Form
Nothing == [k |-> "nothing", form |-> "plain"]

Init ==
    /\ \/ \E e \in Entities : \E f \in Forms(e) :
            entity = [k |-> "entity", e |-> e, form |-> f] /\ temp = Symbols(e)[f]
       \/ entity = Nothing /\ temp \in Others
    /\ tried = FALSE
    /\ stage = "parse"
    /\ di = cplus_demangle_init_info(<<>>)
    /\ printed = d_print_init(di, NULL)
    /\ result = <<>>

(* Whose symbol it is, and where in it cplus_demangle begins. *)
Text == IF tried THEN Tail(temp) ELSE temp

d_demangle_parseUnasked ==  \* mutant
    /\ stage = "parse"
    /\ di' = d_demangle_callback(Text)
    /\ stage' = "print"
    /\ UNCHANGED <<entity, temp, tried, printed, result>>

d_demangle_parse ==
    /\ stage = "parse"
    /\ di' = d_demangle_callback(Text)
    /\ stage' = IF di'.ret = NULL THEN "old" ELSE "print"
    /\ UNCHANGED <<entity, temp, tried, printed, result>>

d_demangle_print ==
    /\ stage = "print"
    /\ printed' = cplus_demangle_print(di, di.ret)
    /\ stage' = IF printed'.failed THEN "old" ELSE "done"
    /\ result' = IF printed'.failed THEN result ELSE printed'.out
    /\ UNCHANGED <<entity, temp, tried, di>>

(* What an older style makes of the symbol is not looked into. *)
internal_cplus_demangle ==
    /\ stage = "old"
    /\ Text \in OldStyle
    /\ result' = <<"old">>
    /\ stage' = "done"
    /\ UNCHANGED <<entity, temp, tried, di, printed>>

demangle_retry ==
    /\ stage = "old"
    /\ Text \notin OldStyle
    /\ ~tried
    /\ Len(temp) > 1
    /\ tried' = TRUE
    /\ stage' = "parse"
    /\ UNCHANGED <<entity, temp, di, printed, result>>

demangle_keep ==
    /\ stage = "old"
    /\ Text \notin OldStyle
    /\ tried \/ Len(temp) <= 1
    /\ result' = temp
    /\ stage' = "done"
    /\ UNCHANGED <<entity, temp, tried, di, printed>>

Next == d_demangle_parse \/ d_demangle_print \/ internal_cplus_demangle \/ demangle_retry \/ demangle_keep
Spec == Init /\ [][Next]_vars

-------------------------------------------------------------------------------
TypeOK ==
    /\ entity.form \in Form
    /\ tried \in BOOLEAN
    /\ stage \in {"parse", "print", "old", "done"}
    /\ stage = "print" => di.ret \in DOMAIN di.comps

NoSpaces(text) == SelectSeq(text, LAMBDA c : c # " ")
Shown(e, form) ==
    CASE form \in {"plain", "mach_o"} -> Declaration(e)
      [] form = "clone" -> Declaration(e) \o <<"[clone">> \o Clone \o <<"]">>
      [] form = "keyed" -> <<"global constructors keyed", "to">> \o Declaration(e)
(* The name of an entity is shown as the entity is declared, spaces aside:
   each substitution is what the compiler left out, and each modifier is at
   the place of a declarator C++ reads it at.  Initializer lists with a type
   are outside of it: d_expression_1 takes the t of their code for the type. *)
HasTypedList(e) ==
    /\ e.k = "declared"
    /\ LET args == ArgsOf(e.name) IN \E i \in DOMAIN args : args[i].k = "braces"
RoundTrip ==
    (stage = "done" /\ entity # Nothing /\ ~HasTypedList(entity.e)) =>
        NoSpaces(result) = Shown(entity.e, entity.form)

(* The arrays suffice: "We can not need more components than twice the number
   of chars", nor more substitutions than chars, and what
   d_count_templates_scopes counts is at least what the printer saves.  And
   no component is used that is not there, nor a character behind the end, nor
   is the parser ever there (the rules for d_advance in cp-demangle.h): not in
   the name of an entity, and in one that was cut off only behind the code of a
   typed list, where d_expression_1, which took the t for the type, steps over
   tl once more. *)
EndsInTypedList == IsSuffix(<<"t", "l">>, Text)
BoundsKept ==
    /\ ~di.full /\ ~printed.full /\ ~printed.fault
    /\ di.fault \/ di.n > Len(di.s) + 1 => entity = Nothing /\ EndsInTypedList

(* No two > in a row end template arguments: an older compiler would read
   them as a shift. *)
TemplatesNeverShift ==
    \A i \in 1 .. Len(result) - 1 : ~(result[i] = ">" /\ result[i + 1] = ">")
===============================================================================
