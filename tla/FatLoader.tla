------------------------------- MODULE FatLoader -------------------------------
(***************************************************************************)
(* macho::CFAT over io::source_of_stream: the objects of a universal       *)
(* binary, or the one object of a thin file.  A source on disk opens a     *)
(* stream of its own for every reader; a source in memory hands the same   *)
(* stream to all of them, wherever it stands.                              *)
(* The file is a sequence of units: a fat magic with its count, one unit   *)
(* per architecture entry, padding, and per object a header and commands.  *)
(* What is read at any other place is neither a magic nor an entry; a      *)
(* stream that stands there stands at Lost.                                *)
(* A definition marked mutant is a plausible bug in the one below it; no   *)
(* behaviour uses it.                                                      *)
(***************************************************************************)
EXTENDS Integers, Sequences

CONSTANTS
    Contents, \* files: sequences of units
    UUIDs,
    NONE,     \* the empty UUID, and no object
    MaxLoads  \* bound on explicit loads

Unit == [kind : {"fat", "arch", "macho", "other"}, value : Nat, uuid : UUIDs \cup {NONE}]

(* A magic only begins a file, and its entries follow it without a gap. *)
LaidOut(c) ==
    \A i \in DOMAIN c :
        /\ c[i].kind = "fat" => i = 1
        /\ c[i].kind = "arch" => i > 1 /\ c[i - 1].kind \in {"fat", "arch"}

FatAssumption ==
    /\ \A c \in Contents : c \in Seq(Unit) /\ LaidOut(c)
    /\ NONE \notin UUIDs /\ NONE \notin Nat /\ MaxLoads \in Nat

VARIABLES
    content,  \* constant: content[p + 1] is met at position p
    inMemory, \* constant: the source holds a stream_memory
    there,    \* a source on disk can be opened
    pos,      \* position of the stream of the call, or of the shared one
    call,     \* the client's call, at what step
    machos,   \* m_machos: [start, uuid], uuid as far as the object has read it
    loaded,   \* m_loading_state is complete
    loads,    \* explicit loads so far
    answer    \* last answer

vars == <<content, inMemory, there, pos, call, machos, loaded, loads, answer>>

NoCall == [at |-> "idle", for |-> "none", uuid |-> NONE, left |-> 0]

Init ==
    /\ content \in Contents
    /\ inMemory \in BOOLEAN
    /\ there \in IF inMemory THEN {TRUE} ELSE BOOLEAN
    /\ pos = 0
    /\ call = NoCall
    /\ machos = <<>> /\ loaded = FALSE
    /\ loads = 0
    /\ answer = [to |-> "none", ok |-> FALSE, uuid |-> NONE, object |-> 0, list |-> <<>>]

-------------------------------------------------------------------------------
Lost == Len(content)
KindAt(p) == IF p < Len(content) THEN content[p + 1].kind ELSE "other"
UUIDAt(p) == IF KindAt(p) = "macho" THEN content[p + 1].uuid ELSE NONE

(* A reader of an object leaves a shared stream elsewhere. *)
Moved(p) == IF inMemory THEN p ELSE pos

(* source_of_stream::open: a new stream begins at 0, the shared one does not. *)
Opened == IF inMemory THEN pos ELSE 0

Reply(to, ok) ==
    answer' = [to |-> to, ok |-> ok, uuid |-> call.uuid, object |-> 0, list |-> <<>>]

(* The step after _load or _validate has come to a result. *)
EndLoad(ok) ==
    /\ loaded' = ok
    /\ IF call.for = "load"
       THEN call' = NoCall /\ Reply("load", ok)
       ELSE call' = [call EXCEPT !.at = "ask"] /\ UNCHANGED answer

EndValidate(ok) == call' = NoCall /\ Reply("validate", ok)

-------------------------------------------------------------------------------
(* A client's call: validate and load at once, the others load if needed. *)
Begin(for, u) ==
    /\ call = NoCall
    /\ call' = [at |-> IF for = "validate" THEN "validate"
                       ELSE IF for = "load" \/ ~loaded THEN "load" ELSE "ask",
                for |-> for, uuid |-> u, left |-> 0]
    /\ loads' = IF for = "load" THEN loads + 1 ELSE loads
    /\ loads' <= MaxLoads
    /\ UNCHANGED <<content, inMemory, there, pos, machos, loaded, answer>>

Unopened ==
    /\ ~there
    /\ \/ call.at = "validate" /\ EndValidate(FALSE) /\ UNCHANGED loaded
       \/ call.at = "load" /\ EndLoad(FALSE)
    /\ UNCHANGED <<content, inMemory, there, pos, machos, loads>>

ValidateFat ==
    /\ there /\ call.at = "validate" /\ KindAt(Opened) = "fat"
    /\ pos' = Opened + 1
    /\ call' = [call EXCEPT !.at = "validating", !.left = content[Opened + 1].value]
    /\ UNCHANGED <<content, inMemory, there, machos, loaded, loads, answer>>

ValidateThin ==
    /\ there /\ call.at = "validate" /\ KindAt(Opened) # "fat"
    /\ pos' = Moved(IF KindAt(0) = "macho" THEN 1 ELSE Lost)
    /\ EndValidate(KindAt(0) = "macho")
    /\ UNCHANGED <<content, inMemory, there, machos, loaded, loads>>

(* CFATArch::deserialize: anything but an entry gives an offset outside. *)
ArchOffset == IF KindAt(pos) = "arch" THEN content[pos + 1].value ELSE Len(content)
Behind == IF KindAt(pos) = "arch" THEN pos + 1 ELSE Lost

ValidateArchLax ==                                                  \* mutant
    /\ call.at = "validating" /\ call.left > 0
    /\ pos' = Behind
    /\ call' = [call EXCEPT !.left = @ - 1]
    /\ UNCHANGED <<content, inMemory, there, machos, loaded, loads, answer>>
ValidateArchStuck == call.at = "validating" /\ call.left > 0 /\ UNCHANGED vars   \* mutant
(* The entry is read where the validation of the object before left off. *)
ValidateArch ==
    /\ call.at = "validating" /\ call.left > 0
    /\ IF KindAt(ArchOffset) = "macho"
       THEN /\ pos' = IF inMemory THEN ArchOffset + 1 ELSE Behind
            /\ call' = [call EXCEPT !.left = @ - 1]
            /\ UNCHANGED answer
       ELSE pos' = Lost /\ EndValidate(FALSE)
    /\ UNCHANGED <<content, inMemory, there, machos, loaded, loads>>

RenewKeeping(objects) == machos' = machos \o objects   \* mutant
Renew(objects) == machos' = objects

LoadFat ==
    /\ there /\ call.at = "load" /\ KindAt(Opened) = "fat"
    /\ pos' = Opened + 1
    /\ call' = [call EXCEPT !.at = "loading", !.left = content[Opened + 1].value]
    /\ Renew(<<>>)
    /\ UNCHANGED <<content, inMemory, there, loaded, loads, answer>>

ThinObjects == IF UUIDAt(0) # NONE THEN <<[start |-> 0, uuid |-> UUIDAt(0)]>> ELSE <<>>

(* The one object is kept only if it has a UUID. *)
LoadThin ==
    /\ there /\ call.at = "load" /\ KindAt(Opened) # "fat"
    /\ pos' = Moved(Lost)
    /\ Renew(ThinObjects)
    /\ EndLoad(ThinObjects # <<>>)
    /\ UNCHANGED <<content, inMemory, there, loads>>

(* Objects are made without looking at what is at their offsets. *)
LoadArchHere ==                                                     \* mutant
    /\ call.at = "loading" /\ call.left > 0
    /\ machos' = Append(machos, [start |-> pos, uuid |-> NONE])
    /\ pos' = Behind
    /\ call' = [call EXCEPT !.left = @ - 1]
    /\ UNCHANGED <<content, inMemory, there, loaded, loads, answer>>
LoadArch ==
    /\ call.at = "loading" /\ call.left > 0
    /\ machos' = Append(machos, [start |-> ArchOffset, uuid |-> NONE])
    /\ pos' = Behind
    /\ call' = [call EXCEPT !.left = @ - 1]
    /\ UNCHANGED <<content, inMemory, there, loaded, loads, answer>>

(* A count of 0 leaves the result of a loop that never ran. *)
EndArchs ==
    /\ call.at \in {"validating", "loading"} /\ call.left = 0
    /\ IF call.at = "loading"
       THEN EndLoad(machos # <<>>)
       ELSE EndValidate(content[1].value # 0) /\ UNCHANGED loaded
    /\ UNCHANGED <<content, inMemory, there, pos, machos, loads>>

(* CMachO::getUUID of each of the first n objects: read once it can be. *)
UUIDRead(m) == IF m.uuid = NONE /\ there THEN UUIDAt(m.start) ELSE m.uuid
Asked(n, reads) ==
    /\ machos' = [i \in DOMAIN machos |->
                     IF i <= n THEN [machos[i] EXCEPT !.uuid = UUIDRead(machos[i])]
                     ELSE machos[i]]
    /\ pos' = IF reads THEN Moved(Lost) ELSE pos
Unread(n) == \E i \in 1 .. n : machos[i].uuid = NONE

MatchingLast(u) == {i \in DOMAIN machos : i = Len(machos)}          \* mutant
Matching(u) == {i \in DOMAIN machos : UUIDRead(machos[i]) = u}

(* getMachO(uuid) and isExistMachO: the first object with the UUID. *)
AskMachO ==
    /\ call.at = "ask" /\ call.for = "getMachO"
    /\ \/ \E i \in Matching(call.uuid) :
            /\ \A j \in Matching(call.uuid) : i <= j
            /\ Asked(i, Unread(i))
            /\ answer' = [to |-> "getMachO", ok |-> TRUE, uuid |-> call.uuid,
                          object |-> i, list |-> <<>>]
       \/ /\ Matching(call.uuid) = {}
          /\ Asked(Len(machos), Unread(Len(machos)))
          /\ Reply("getMachO", FALSE)
    /\ call' = NoCall
    /\ UNCHANGED <<content, inMemory, there, loaded, loads>>

ListableAny(i) == TRUE                                              \* mutant
(* hasUUID looks at the file every time; the list ends at an object without. *)
Listable(i) == there /\ UUIDAt(machos[i].start) # NONE
ListedUpTo == CHOOSE n \in 0 .. Len(machos) :
    /\ \A i \in 1 .. n : Listable(i)
    /\ n < Len(machos) => ~Listable(n + 1)

AskAllUUIDs ==
    /\ call.at = "ask" /\ call.for = "getAllUUIDs"
    /\ IF loaded
       THEN /\ Asked(ListedUpTo, machos # <<>>)
            /\ answer' = [to |-> "getAllUUIDs", ok |-> ListedUpTo = Len(machos),
                          uuid |-> NONE, object |-> 0,
                          list |-> [i \in 1 .. ListedUpTo |-> UUIDRead(machos[i])]]
       ELSE Reply("getAllUUIDs", FALSE) /\ UNCHANGED <<pos, machos>>
    /\ call' = NoCall
    /\ UNCHANGED <<content, inMemory, there, loaded, loads>>

SourceChanges ==
    /\ call = NoCall /\ ~inMemory
    /\ there' = ~there
    /\ answer' = [answer EXCEPT !.to = "none"]
    /\ UNCHANGED <<content, inMemory, pos, call, machos, loaded, loads>>

Run == Unopened \/ ValidateFat \/ ValidateThin \/ ValidateArch \/ LoadFat \/ LoadThin
       \/ LoadArch \/ EndArchs \/ AskMachO \/ AskAllUUIDs

Next ==
    \/ \E for \in {"validate", "load", "getAllUUIDs"} : Begin(for, NONE)
    \/ \E u \in UUIDs : Begin("getMachO", u)
    \/ Run
    \/ SourceChanges

(* A call that has begun runs to its end: nothing in it waits. *)
Spec == Init /\ [][Next]_vars /\ WF_vars(Run)

-------------------------------------------------------------------------------
(* What the bytes of the file say, apart from how they are read. *)
IsFat == KindAt(0) = "fat"
Claimed == IF IsFat THEN content[1].value ELSE 0
EntryOffset(i) == IF KindAt(i) = "arch" THEN content[i + 1].value ELSE Len(content)
Starts == IF IsFat THEN [i \in 1 .. Claimed |-> EntryOffset(i)]
          ELSE IF UUIDAt(0) # NONE THEN <<0>> ELSE <<>>
Sound == IF IsFat THEN Claimed > 0 /\ \A i \in 1 .. Claimed : KindAt(Starts[i]) = "macho"
         ELSE KindAt(0) = "macho"

(* Readers do not disturb each other: on disk, or where all look at offset 0. *)
Undisturbed == there /\ (~inMemory \/ ~IsFat)

(* The objects are never more than the file claims, in any state of a call. *)
TypeOK ==
    /\ pos \in 0 .. Len(content)
    /\ call \in [at : {"idle", "validate", "validating", "load", "loading", "ask"},
                 for : {"none", "validate", "load", "getMachO", "getAllUUIDs"},
                 uuid : UUIDs \cup {NONE}, left : 0 .. Claimed]
    /\ machos \in Seq([start : Nat, uuid : UUIDs \cup {NONE}])
    /\ Len(machos) <= IF IsFat THEN Claimed ELSE 1
    /\ loaded \in BOOLEAN /\ there \in BOOLEAN

(* A file is found valid only if every object it claims is one; where readers
   have streams of their own it is found valid whenever that is so. *)
ValidateTruthful ==
    answer.to = "validate" /\ call = NoCall =>
        /\ answer.ok => Sound
        /\ Undisturbed /\ Sound => answer.ok

(* Whatever was called before, the objects kept are the file's, in its order:
   all of them or, where a later reader of a shared stream finds no magic,
   none; and no object knows the UUID of another. *)
MachosAreTheFiles ==
    call.at # "loading" /\ machos # <<>> =>
        /\ [i \in DOMAIN machos |-> machos[i].start] = Starts
        /\ \A i \in DOMAIN machos : machos[i].uuid \in {NONE, UUIDAt(machos[i].start)}

(* An object that is found has the UUID asked for and is the first that has;
   none is missed where readers have streams of their own. *)
LookupRight ==
    answer.to = "getMachO" /\ call = NoCall =>
        LET having == {i \in DOMAIN Starts : UUIDAt(Starts[i]) = answer.uuid}
        IN  /\ answer.ok => answer.object \in having /\ \A i \in having : answer.object <= i
            /\ Undisturbed /\ having # {} => answer.ok

(* A list that is reported complete has a UUID for every object, in order. *)
ListComplete ==
    answer.to = "getAllUUIDs" /\ call = NoCall /\ answer.ok =>
        /\ answer.list = [i \in DOMAIN Starts |-> UUIDAt(Starts[i])]
        /\ \A i \in DOMAIN answer.list : answer.list[i] # NONE

(* Whatever count the file claims, a call returns. *)
CallsReturn == (call # NoCall) ~> (call = NoCall)
===============================================================================
