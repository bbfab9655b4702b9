------------------------------- MODULE FormValue -------------------------------
(***************************************************************************)
(* CDWARFFormValue as a value object: one storage that holds a number, a   *)
(* block's length or a std::string constructed in place, and the form that *)
(* says which.  Values live in vectors, so they are copied, assigned and   *)
(* destroyed all the time, and DW_FORM_indirect changes the form of a      *)
(* value while it is parsed.                                               *)
(* A definition marked mutant is a plausible bug in the one below it; no   *)
(* behaviour uses it.                                                      *)
(***************************************************************************)
EXTENDS Naturals

CONSTANTS
    Slots, \* objects that may exist at a time
    Forms  \* forms a declaration or an indirection may name

FormValueAssumption == "Invalid" \notin Forms

VARIABLES
    exists,  \* slots that hold an object
    m_type,  \* form of each object
    string,  \* objects in whose storage a std::string is constructed
    damaged  \* a string was overwritten or used where there is none

vars == <<exists, m_type, string, damaged>>

(* ConvertFormToType, without the size nobody asks for. *)
ConvertFormToType(form) ==
    CASE form = "sdata" -> "signed"
      [] form = "string" -> "cstr"
      [] form \in {"block", "block1", "block2", "block4", "exprloc"} -> "block"
      [] form \in {"indirect", "unknown", "Invalid"} -> "invalid"
      [] OTHER -> "unsigned"

type(s) == ConvertFormToType(m_type[s])

Init ==
    /\ exists = {} /\ string = {}
    /\ m_type = [s \in Slots |-> "Invalid"]
    /\ damaged = FALSE

-------------------------------------------------------------------------------
(* Storages after an install or an uninstall in s for a form. *)
Installed(strings, s, form) ==
    IF ConvertFormToType(form) = "cstr" THEN strings \cup {s} ELSE strings
Uninstalled(strings, s, form) ==
    IF ConvertFormToType(form) = "cstr" THEN strings \ {s} ELSE strings

(* Installing over a string loses it; a number over it corrupts it;
   destroying where there is none destroys garbage. *)
DamagedBy(s, strings, form) == ConvertFormToType(form) # "invalid" /\ s \in strings
DamagedByEnd(s, form) == ConvertFormToType(form) = "cstr" /\ s \notin string

construct(s, form) ==
    /\ s \notin exists
    /\ exists' = exists \cup {s}
    /\ m_type' = [m_type EXCEPT ![s] = form]
    /\ string' = Installed(string, s, form)
    /\ damaged' = (damaged \/ DamagedBy(s, string, form))

constructCopy(s, other) ==
    /\ s \notin exists /\ other \in exists
    /\ exists' = exists \cup {s}
    /\ m_type' = [m_type EXCEPT ![s] = m_type[other]]
    /\ string' = Installed(string, s, m_type[other])
    /\ damaged' = (damaged \/ DamagedBy(s, string, m_type[other]))

AssignType(s, other) ==                                             \* mutant
    /\ s \in exists /\ other \in exists /\ s # other
    /\ LET left == Uninstalled(string, s, m_type[s]) IN
        /\ string' = Installed(left, s, m_type[other])
        /\ damaged' = damaged
    /\ m_type' = [m_type EXCEPT ![s] = type(other)]
    /\ UNCHANGED exists
AssignOver(s, other) ==                                             \* mutant
    /\ s \in exists /\ other \in exists /\ s # other
    /\ m_type' = [m_type EXCEPT ![s] = m_type[other]]
    /\ string' = Installed(string, s, m_type[other])
    /\ damaged' = (damaged \/ DamagedBy(s, string, m_type[other]))
    /\ UNCHANGED exists
assign(s, other) ==
    /\ s \in exists /\ other \in exists /\ s # other
    /\ LET left == Uninstalled(string, s, m_type[s]) IN
        /\ string' = Installed(left, s, m_type[other])
        /\ damaged' = \/ damaged
                      \/ DamagedByEnd(s, m_type[s])
                      \/ DamagedBy(s, left, m_type[other])
    /\ m_type' = [m_type EXCEPT ![s] =
            IF type(other) = "invalid" THEN "Invalid" ELSE m_type[other]]
    /\ UNCHANGED exists

(* A value of a plain form. *)
parse(s) ==
    /\ s \in exists /\ type(s) # "invalid"
    /\ damaged' = (damaged \/ ~(type(s) = "cstr" <=> s \in string))
    /\ UNCHANGED <<exists, m_type, string>>

FollowKeeping(s, form) ==                                           \* mutant
    /\ s \in exists /\ m_type[s] = "indirect"
    /\ m_type' = [m_type EXCEPT ![s] = form]
    /\ UNCHANGED <<exists, string, damaged>>
(* DW_FORM_indirect: the form is in the stream; the loop goes on with it. *)
Follow(s, form) ==
    /\ s \in exists /\ m_type[s] = "indirect"
    /\ LET left == Uninstalled(string, s, m_type[s]) IN
        /\ string' = Installed(left, s, form)
        /\ damaged' = (damaged \/ DamagedBy(s, left, form))
    /\ m_type' = [m_type EXCEPT ![s] = form]
    /\ UNCHANGED exists

destroy(s) ==
    /\ s \in exists
    /\ exists' = exists \ {s}
    /\ string' = Uninstalled(string, s, m_type[s])
    /\ damaged' = (damaged \/ DamagedByEnd(s, m_type[s]))
    /\ m_type' = [m_type EXCEPT ![s] = "Invalid"]

Next ==
    \E s \in Slots :
        \/ \E f \in Forms : construct(s, f) \/ Follow(s, f)
        \/ \E t \in Slots : constructCopy(s, t) \/ assign(s, t)
        \/ parse(s) \/ destroy(s)

Spec == Init /\ [][Next]_vars

-------------------------------------------------------------------------------
TypeOK ==
    /\ exists \subseteq Slots /\ string \subseteq Slots
    /\ m_type \in [Slots -> Forms \cup {"Invalid"}]
    /\ damaged \in BOOLEAN

(* Whatever sequence of copies, assignments, indirections and destructions an
   object went through, a string is constructed in its storage exactly while
   its form says so: none leaks, none is read out of a number. *)
StringsAreTyped == string = {s \in exists : type(s) = "cstr"}

(* No string is ever overwritten, and none destroyed that was not there. *)
NoDamage == ~damaged
===============================================================================
