------------------------------- MODULE AbbrevTable -------------------------------
(***************************************************************************)
(* dwarf::CDWARFAbbreviationTable: the declarations of __debug_abbrev.     *)
(* The section is a sequence of numbers: a declaration is a code, a tag, a *)
(* byte that says whether entries have children, and pairs of an attribute *)
(* and a form up to a pair with a zero; a code of zero ends the set of a   *)
(* unit.  The parse reads one set, whatever offsets the units name, and    *)
(* stops without complaint where the section does.                         *)
(* A definition marked mutant is a plausible bug in the one below it; no   *)
(* behaviour uses it.                                                      *)
(***************************************************************************)
EXTENDS Naturals, Sequences, SequencesExt, FiniteSetsExt

CONSTANTS
    Sets,  \* what the producer wrote: sequences of declarations of one set
    Tails, \* what follows the zero behind it
    Cuts,  \* where the section ends, counted in numbers
    Codes, \* 2^32: what a code is cut to
    Kinds  \* 2^16: and a tag, an attribute and a form

Below(n) == {k \in Nat \ {0} : k < n}
Attribute == [attr : Below(Kinds), form : Below(Kinds)]
Declarations == [code : Below(Codes), tag : Below(Kinds), children : {0, 1}, attrs : Seq(Attribute)]

AbbrevTableAssumption ==
    /\ Sets \subseteq Seq(Declarations)
    /\ Tails \subseteq Seq(Nat)
    /\ Cuts \subseteq Nat
    /\ Codes \in Nat /\ Kinds \in Nat

Pairs(s) ==
    [i \in 1 .. 2 * Len(s) |-> IF i % 2 = 1 THEN s[(i + 1) \div 2].attr ELSE s[i \div 2].form]
Encode(d) == <<d.code, d.tag, d.children>> \o Pairs(d.attrs) \o <<0, 0>>
EncodeSet(s) == FlattenSeq([i \in DOMAIN s |-> Encode(s[i])]) \o <<0>>

VARIABLES
    set, stream, \* constant
    pos,         \* position of the stream
    at,          \* "declaration", "attributes" or "done"
    abbr,        \* the declaration being read
    m_map        \* code -> declaration

vars == <<set, stream, pos, at, abbr, m_map>>

None == [code |-> 0, tag |-> 0, children |-> 0, attrs |-> <<>>]

Init ==
    /\ set \in Sets
    /\ \E t \in Tails, n \in Cuts :
        LET all == EncodeSet(set) \o t
        IN stream = SubSeq(all, 1, IF n < Len(all) THEN n ELSE Len(all))
    /\ pos = 0 /\ at = "declaration"
    /\ abbr = None
    /\ m_map = <<>>

-------------------------------------------------------------------------------
Size == Len(stream)
(* The number at an offset; behind the end reads leave a zero.  The set of a
   producer has no number that the casts of the parse would cut. *)
Number(o) == IF o < Size THEN stream[o + 1] ELSE 0
Clamped(o) == IF o < Size THEN o ELSE Size

InsertLast(d) ==                                                    \* mutant
    [c \in DOMAIN m_map \cup {d.code} |-> IF c = d.code THEN d ELSE m_map[c]]
(* std::map::insert keeps what is there. *)
Insert(d) ==
    [c \in DOMAIN m_map \cup {d.code} |-> IF c \in DOMAIN m_map THEN m_map[c] ELSE d]

(* Also a declaration without a tag; what is read behind it is dropped. *)
End ==
    /\ at = "declaration" /\ (Number(pos) = 0 \/ Number(pos + 1) = 0)
    /\ at' = "done"
    /\ pos' = Clamped(pos + (IF Number(pos) = 0 THEN 1 ELSE 2))
    /\ UNCHANGED <<set, stream, abbr, m_map>>

BeginKeeping ==                                                     \* mutant
    /\ at = "declaration" /\ Number(pos) # 0 /\ Number(pos + 1) # 0
    /\ abbr' = [abbr EXCEPT !.code = Number(pos), !.tag = Number(pos + 1),
                            !.children = Number(pos + 2)]
    /\ pos' = Clamped(pos + 3)
    /\ at' = "attributes"
    /\ UNCHANGED <<set, stream, m_map>>
Begin ==
    /\ at = "declaration" /\ Number(pos) # 0 /\ Number(pos + 1) # 0
    /\ abbr' = [None EXCEPT !.code = Number(pos), !.tag = Number(pos + 1),
                            !.children = Number(pos + 2)]
    /\ pos' = Clamped(pos + 3)
    /\ at' = "attributes"
    /\ UNCHANGED <<set, stream, m_map>>

Pair == <<Number(pos), Number(pos + 1)>>
IsPair == Pair[1] # 0 /\ Pair[2] # 0

ReadAttributeStuck == at = "attributes" /\ IsPair /\ UNCHANGED vars  \* mutant
ReadAttribute ==
    /\ at = "attributes" /\ IsPair
    /\ abbr' = [abbr EXCEPT !.attrs = Append(@, [attr |-> Pair[1], form |-> Pair[2]])]
    /\ pos' = pos + 2
    /\ UNCHANGED <<set, stream, at, m_map>>

EndDeclaration ==
    /\ at = "attributes" /\ ~IsPair
    /\ pos' = Clamped(pos + 2)
    /\ m_map' = Insert(abbr)
    /\ at' = "declaration"
    /\ UNCHANGED <<set, stream, abbr>>

Next == End \/ Begin \/ ReadAttribute \/ EndDeclaration

(* parse runs to its end when it is called. *)
Spec == Init /\ [][Next]_vars /\ WF_vars(Next)

(* NULL is a declaration of code zero. *)
getDeclaration(code) == IF code \in DOMAIN m_map THEN m_map[code] ELSE None

-------------------------------------------------------------------------------
TypeOK ==
    /\ set \in Sets
    /\ pos \in 0 .. Size
    /\ at \in {"declaration", "attributes", "done"}
    /\ abbr = None \/ abbr \in [code : Nat, tag : Nat, children : Nat, attrs : Seq(Attribute)]
    /\ \A c \in DOMAIN m_map : m_map[c].code = c

(* The set's first declaration of a code. *)
First(code) ==
    LET I == {i \in DOMAIN set : set[i].code = code}
    IN IF I = {} THEN None ELSE set[Min(I)]
EndOf(i) == Len(EncodeSet(SubSeq(set, 1, i))) - 1

(* When the section holds the whole set, the table answers for every code with
   the first declaration the producer gave it, its attributes in order, and
   for no other code, whatever follows the set. *)
SetIsRead ==
    (at = "done" /\ EndOf(Len(set)) < Size) =>
        \A code \in {set[i].code : i \in DOMAIN set} \cup DOMAIN m_map :
            getDeclaration(code) = First(code)

(* Where the section is cut, the declarations in front of the cut are read as
   in the whole; the one that is cut is there as far as its attributes go, if
   its tag is: nothing is made up. *)
CutIsPrefix ==
    (at = "done" /\ EndOf(Len(set)) >= Size) =>
        \A code \in DOMAIN m_map :
            LET d == m_map[code] IN
            /\ d.tag = First(code).tag
            /\ IsPrefix(d.attrs, First(code).attrs)
            /\ \A i \in DOMAIN set :
                 (set[i] = First(code) /\ EndOf(i) <= Size) => d = set[i]

(* The parse ends, wherever the section is cut. *)
ParseEnds == <>(at = "done")
===============================================================================
