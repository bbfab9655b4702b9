------------------------------ MODULE MCDemangler ------------------------------
EXTENDS Demangler

Int_ == Builtin("i")
a == Name(None, "a")
ab == Name(a, "b")
ai == Template(a, <<Int_>>)
f == Name(None, "f")
T == Param(0)
Plain(params) == Declared(f, <<>>, None, params)
Of_(S) ==
    {Modified(c, t) : c \in {"P", "R", "O", "K"}, t \in S} \cup {Function(Int_, <<t>>) : t \in S}
        \cup {Function(t, <<a>>) : t \in S} \cup {Array("3", t) : t \in S}
        \cup {Member(a, t) : t \in S} \cup {Template(ab, <<t>>) : t \in S}

(* Types inside out, three deep at the most, and pairs of them. *)
Leaves == {Int_, a, ab, ai, Name(Std_, "a"), Name(Name(Std_, "a"), "b"), Template(ab, <<a>>),
           Template(Name(Std_, "a"), <<ab>>)}
Inner == {t \in Of_(Leaves) : WellFormed(t)}
Few == {t \in Of_({Int_, ab}) : WellFormed(t)}
Functions_ ==
    {Plain(<<t>>) : t \in Leaves \cup Inner \cup Of_(Inner)} \cup {Plain(<<t, u>>) : t, u \in Few}
        \cup {Plain(<<t>>) : t \in Of_(Of_(Few))}
Methods ==
    {Declared(name, this, None, <<t>>) :
        name \in {ab, Name(ai, "b"), Name(Name(Std_, "a"), "b")},
        this \in {<<>>, <<"K">>, <<"V", "K">>, <<"R">>, <<"K", "O">>}, t \in {Int_, a, ai, ab}}
Others_ ==
    {Declared(Constructor(c), <<>>, None, <<Modified("R", Modified("K", c))>>) : c \in {a, ai, ab}}
        \cup {Local(Plain(<<t>>), "x") : t \in Leaves} \cup {Vtable(t) : t \in {a, ai, ab}}
        \cup {Resource(path) : path \in {<<"a">>, <<"a", "/", "b">>, <<".", "$", "a", "b">>}}
Uses ==
    {<<>>, <<T>>, <<Modified("R", T)>>, <<Modified("O", T)>>, <<Modified("R", Modified("K", T)), T>>,
     <<Modified("P", Modified("K", T)), T>>, <<Modified("P", Function(T, <<T>>))>>,
     <<Array("3", T)>>, <<Modified("P", Array("3", T))>>, <<Member(a, T)>>,
     <<Modified("R", T), Modified("R", T)>>, <<Template(a, <<T>>)>>}
Templates_ ==
    {Declared(Template(name, <<t>>), <<>>, r, p) :
        name \in {f, ab}, t \in Leaves \cup Inner, r \in {Builtin("v"), T, Modified("P", T)}, p \in Uses}
        \cup {Declared(Template(f, <<Value(Builtin(c), "3")>>), <<>>, Builtin("v"), <<Int_>>) : c \in {"i", "j"}}

Existing(S) == {e \in S : Exists(e)}

(* Template arguments one of which is a pack. *)
Packs ==
    {Declared(Template(f, <<t, Pack(q)>>), <<>>, Builtin("v"), p) :
        t \in {Int_, a, ai}, q \in {<<>>, <<Int_>>, <<ai, Int_>>},
        p \in {<<>>, <<T>>, <<T, Expansion(1)>>, <<Modified("P", T), Expansion(1)>>}}
(* Not behind a template, whose > the code forgets. *)
PacksAside == {e \in Packs : e.name.args[1] # ai}

(* Expressions, two deep, in a template argument. *)
One == Value(Int_, "1")
Unary_ == {<<"n", "g">>, <<"n", "t">>}
Binary_ == {<<"p", "l">>, <<"g", "t">>, <<"g", "e">>, <<"l", "t">>, <<"a", "a">>}
Applied(S) ==
    {Expr(c, <<s>>) : c \in Unary_, s \in S} \cup {Expr(c, <<s, t>>) : c \in Binary_, s, t \in S}
        \cup {Expr(<<"q", "u">>, <<s, t, One>>) : s, t \in S}
        \cup {Expr(c, <<t, s>>) : c \in {<<"c", "v">>, <<"s", "c">>}, t \in {Int_, ab}, s \in S}
        \cup {Expr(<<"s", "t">>, <<t>>) : t \in {Int_, ab, ai}}
Computed ==
    {Declared(Template(f, <<e, ai>>), <<>>, Builtin("v"), <<Param(1)>>) :
        e \in Applied({One, Value(Builtin("j"), "3")} \cup Applied({One}))}

(* Initializer lists with a type, as template arguments. *)
Lists == {Declared(Template(f, <<Braces(t, "1")>>), <<>>, Builtin("v"), p) :
            t \in {Int_, a, ab, ai}, p \in {<<>>, <<Int_>>}}

MCEntities ==
    Existing(Functions_ \cup Methods \cup Others_ \cup Templates_ \cup Computed)
        \cup PacksAside \cup Lists
(* Symbols that are no names, and names that were cut off. *)
MCOldStyle == {<<"f", "_", "_", "F", "v">>, <<"_", "f", "_", "_", "F", "v">>}
Cut(m) == {SubSeq(m, 1, i) : i \in 0 .. Len(m) - 1}
CutLists == UNION {Cut(Mangled(e)) : e \in Lists}
MCOthers ==
    MCOldStyle \cup {<<"_", "m", "a", "i", "n">>, <<"_", "i">>, <<"x">>, <<"_", "Z", "1", "f", "i", ".">>}
        \cup CutLists \cup UNION {Cut(Mangled(e)) : e \in Others_ \cup PacksAside \cup
                {Plain(<<t, t>>) : t \in Leaves \cup Few} \cup
                {Declared(Template(f, <<e>>), <<>>, Builtin("v"), <<T>>) : e \in Applied({One})}}
===============================================================================
